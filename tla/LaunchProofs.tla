---------------------------- MODULE LaunchProofs ----------------------------
(***************************************************************************)
(* Proofs about Launch, for any number of calls and any timing constants.  *)
(***************************************************************************)
EXTENDS Launch, TLAPS

\* The first state is of its type.
LEMMA TypeInit == Init => TypeOK
<1> SUFFICES ASSUME Init PROVE TypeOK
  OBVIOUS
<1>1. rc \in ClientType /\ game \in BOOLEAN
  BY DEF Init, MachineInit, ClientType
<1>2. NewCall \in CallType
  BY TimeAssumption DEF NewCall, CallType, Times, Never
<1>3. QED
  BY <1>1, <1>2 DEF Init, TypeOK

\* A step of the machine keeps the types.
LEMMA TypeMachine == ASSUME TypeOK, Machine, UNCHANGED <<call, queued>> PROVE TypeOK'
  BY DEF TypeOK, Machine, ClientType, Boot, PlayerOpensClient, WritesLockfile, StartsServing,
     GoesToTray, ClientExits, PlayerPlays, DropsLaunch, StopsReporting, GameStarts,
     GameRunsUnknown, GameExits

\* The stages a call reports on its way.
LEMMA StageNames ==
  {"Resolving", "ColdStart", "HandingOff", "WakingClient", "WaitingForClient", "Launched",
   "AlreadyRunning", "Stopped", "Error"} \subseteq Stages
  BY DEF Stages

\* A call that ends is a call.
LEMMA EndedType ==
  ASSUME NEW me \in CallType, NEW r \in Errors \cup {"ok"}, NEW route \in Routes \cup {"none"},
         NEW p \in Pids \cup {NoPid}
  PROVE  Ended(me, r, route, p) \in CallType
<1>1. TerminalStage(r, route) \in Stages
  BY StageNames DEF TerminalStage
<1>2. QED
  BY <1>1 DEF Ended, CallType

\* A call that fails is a call.
LEMMA FailedType ==
  ASSUME NEW me \in CallType, NEW e \in Errors
  PROVE  Failed(me, e) \in CallType
  BY EndedType DEF Failed, CallType

\* A call that acts once more on the machine is a call.
LEMMA ActingType ==
  ASSUME NEW me \in CallType
  PROVE  Acting(me) \in CallType
  BY DEF Acting, CallType

\* A call replaced by a call leaves calls.
LEMMA BecomesType ==
  ASSUME TypeOK, NEW c \in Calls, NEW me \in CallType, Becomes(c, me)
  PROVE  call' \in [Calls -> CallType]
  BY DEF TypeOK, Becomes

\* What a lockfile, a pending probe and a launch reply are read as.
LEMMA ReadsType ==
  /\ ~TypeOK \/ LiveLockfile \subseteq Pids \cup {NoPid}
  /\ \A r : ReadinessOf(r) \in {"NotYet", "Idle", "Pending", "Serving"}
  /\ \A r : AttemptOf(r) \in {"Launched", "NoAnswer", "Refused", "Unreachable"}
  BY DEF TypeOK, ClientType, LiveLockfile, ReadinessOf, AttemptOf, Refusal

\* A call after its probe is a call, whatever it read.
LEMMA AfterProbeType ==
  ASSUME NEW me \in CallType, NEW ready
  PROVE  AfterProbe(me, ready) \in CallType
<1>1. [me EXCEPT !.pc = "pid"] \in CallType /\ [me EXCEPT !.pc = "deadline"] \in CallType
  BY DEF CallType
<1>2. [me EXCEPT !.pc = "wake", !.attempt = 1, !.lastWake = me.elapsed,
                 !.stage = "WakingClient"] \in CallType
  <2>1. 1 \in 0..WakeAttempts /\ me.elapsed \in Times
    BY TimeAssumption DEF CallType, Times
  <2>2. QED
    BY <2>1, StageNames DEF CallType
<1>3. QED
  BY <1>1, <1>2 DEF AfterProbe

\* A call after a refusal is a call, in its grace or at its end.
LEMMA AfterRefusalType ==
  ASSUME NEW me \in CallType
  PROVE  AfterRefusal(me) \in CallType
<1> DEFINE since == IF me.refusedSince = Never THEN me.elapsed ELSE me.refusedSince
           noted == [me EXCEPT !.refusedSince = since]
<1>1. noted \in CallType
  BY DEF CallType, Times
<1>2. Failed(noted, "Refused") \in CallType
  BY <1>1, FailedType DEF Errors
<1>3. [noted EXCEPT !.pc = "deadline"] \in CallType
  <2> HIDE DEF noted
  <2> QED BY <1>1 DEF CallType
<1>4. QED
  BY <1>2, <1>3 DEF AfterRefusal

\* A call after its POST is a call, whatever it was answered.
LEMMA AfterPostType ==
  ASSUME NEW me \in CallType, NEW what
  PROVE  AfterPost(me, what) \in CallType
<1>1. Ended(me, "ok", me.route, me.now) \in CallType
  BY EndedType DEF CallType
<1>2. Failed(me, "Unreachable") \in CallType
  BY FailedType DEF Errors
<1>3. [me EXCEPT !.pc = "deadline"] \in CallType
  BY DEF CallType
<1>4. QED
  BY <1>1, <1>2, <1>3, AfterRefusalType DEF AfterPost

\* A call after an attempt to wake the client is a call.
LEMMA AfterWakeType ==
  ASSUME NEW me \in CallType, NEW reply
  PROVE  AfterWake(me, reply) \in CallType
<1>1. me.attempt < WakeAttempts => me.attempt + 1 \in 0..WakeAttempts
  BY TimeAssumption DEF CallType
<1>2. me.attempt >= WakeAttempts \/ me.attempt < WakeAttempts
  BY TimeAssumption DEF CallType
<1>3. QED
  BY <1>1, <1>2 DEF AfterWake, CallType

\* A call whose clock has run on is a call: the same but for its clock.
LEMMA LaterFields ==
  ASSUME NEW me \in CallType, NEW d \in Nat
  PROVE  /\ Later(me, d) \in CallType
         /\ Later(me, d).elapsed = me.elapsed + d
         /\ \A f \in {"pc", "stop", "route", "pid", "now", "refusedSince", "lastWake", "attempt",
                      "stage", "result", "asked", "late"} : Later(me, d)[f] = me[f]
<1>1. me.elapsed + d \in Nat
  BY DEF CallType
<1>2. QED
  BY <1>1 DEF Later, CallType

\* A call that has sent its POST is a call: the same but for whether it was taken.
LEMMA SentFields ==
  ASSUME NEW me \in CallType, NEW taken \in BOOLEAN
  PROVE  /\ Sent(me, taken) \in CallType
         /\ taken => Sent(me, taken).asked
         /\ \A f \in {"pc", "stop", "route", "pid", "now", "elapsed", "refusedSince", "lastWake",
                      "attempt", "stage", "result", "late"} : Sent(me, taken)[f] = me[f]
  BY DEF Sent, CallType

\* Whether a launch was taken is a Boolean, and one answered with success was.
LEMMA RepliesType ==
  ASSUME NEW x \in LaunchReplies
  PROVE  x.taken \in BOOLEAN /\ (AttemptOf(x.reply) = "Launched" => x.taken)
<1>1. CASE ~Locked
  <2>1. x.taken = FALSE /\ x.reply = NoReply
    BY <1>1 DEF LaunchReplies
  <2>2. AttemptOf(NoReply) # "Launched"
    BY DEF NoReply, Answer, AttemptOf
  <2>3. QED
    BY <2>1, <2>2
<1>2. CASE Locked /\ rc.state # "serving"
  <2>1. /\ x.taken = FALSE
        /\ x.reply \in {NoReply, Answer("404", "rpcError"), Answer("5xx", "other"),
                        Answer("404", "notFound")}
    BY <1>2 DEF LaunchReplies, UnservedReplies
  <2>2. AttemptOf(x.reply) # "Launched"
    BY <2>1 DEF NoReply, Answer, AttemptOf, Presence, Refusal
  <2>3. QED
    BY <2>1, <2>2
<1>3. CASE Locked /\ rc.state = "serving"
  <2>1. \/ x.taken = TRUE
        \/ /\ x.taken = FALSE
           /\ x.reply \in {NoReply, Answer("5xx", "other"), Answer("4xx", "riotError"),
                           Answer("404", "rpcError"), Answer("404", "riotError"),
                           Answer("4xx", "other")}
    BY <1>3 DEF LaunchReplies
  <2>2. x.taken = FALSE => AttemptOf(x.reply) # "Launched"
    BY <2>1 DEF NoReply, Answer, AttemptOf, Presence, Refusal
  <2>3. QED
    BY <2>1, <2>2
<1>4. QED
  BY <1>1, <1>2, <1>3

(***************************************************************************)
(* Every variable keeps its type, for any number of calls, any machine and *)
(* any timing constants.                                                   *)
(***************************************************************************)
THEOREM TypeCorrect == Spec => []TypeOK
<1>1. TypeOK /\ [Next]_vars => TypeOK'
  <2> SUFFICES ASSUME TypeOK, [Next]_vars PROVE TypeOK'
    OBVIOUS
  <2>1. CASE UNCHANGED vars
    BY <2>1 DEF vars, TypeOK
  <2>2. CASE Machine /\ UNCHANGED <<call, queued>>
    BY <2>2, TypeMachine
  <2>3. ASSUME NEW c \in Calls, Stop(c) PROVE TypeOK'
    <3>1. ASSUME NEW me \in CallType PROVE [me EXCEPT !.stop = TRUE] \in CallType
      BY DEF CallType
    <3>2. QED
      BY <2>3, <3>1, BecomesType DEF Stop, TypeOK
  <2>4. ASSUME NEW c \in Calls, Step(c) PROVE TypeOK'
    <3> DEFINE me == call[c]
    <3>0. me \in CallType
      BY DEF TypeOK
    <3> HIDE DEF me
    <3>f. \A e \in Errors : Failed(me, e) \in CallType /\ Failed(Acting(me), e) \in CallType
      BY <3>0, FailedType, ActingType
    <3>e. \A route \in Routes \cup {"none"}, p \in Pids \cup {NoPid} :
            /\ Ended(me, "ok", route, p) \in CallType
            /\ Ended(Acting(me), "ok", route, p) \in CallType
      BY <3>0, EndedType, ActingType
    <3>p. /\ LiveLockfile \subseteq Pids \cup {NoPid}
          /\ me.pid \in Pids \cup {NoPid}
          /\ me.route \in Routes \cup {"none"}
          /\ me.elapsed \in Nat
      BY <3>0, ReadsType DEF CallType
    <3>1. CASE Start(c)
      <4>1. \A pc \in {"known", "resolve"} : [me EXCEPT !.pc = pc, !.stage = "Resolving"] \in CallType
        BY <3>0, StageNames DEF CallType
      <4>2. call' \in [Calls -> CallType]
        BY <3>1, <3>f, <4>1, BecomesType DEF Start, me, Errors
      <4>3. QED
        BY <3>1, <4>2 DEF Start, TypeOK
    <3>2. CASE Known(c)
      <4>1. \A p \in Pids \cup {NoPid} : [me EXCEPT !.pc = "adopt", !.pid = p] \in CallType
        BY <3>0 DEF CallType
      <4>2. call' \in [Calls -> CallType]
        BY <3>2, <3>e, <3>p, <4>1, BecomesType DEF Known, me, Routes
      <4>3. QED
        BY <3>2, <4>2 DEF Known, TypeOK
    <3>3. CASE Adopt(c)
      <4>1. call' \in [Calls -> CallType]
        BY <3>3, <3>e, <3>p, BecomesType DEF Adopt, me, Routes
      <4>2. rc' \in ClientType
        BY <3>3 DEF Adopt, TypeOK, ClientType
      <4>3. QED
        BY <3>3, <4>1, <4>2 DEF Adopt, TypeOK
    <3>4. CASE Resolve(c)
      <4>1. /\ [me EXCEPT !.pc = "spawn", !.stage = "ColdStart"] \in CallType
            /\ \A p \in Pids \cup {NoPid} : [me EXCEPT !.pc = "handoff", !.pid = p] \in CallType
        BY <3>0, StageNames DEF CallType
      <4>2. call' \in [Calls -> CallType]
        BY <3>4, <3>f, <3>p, <4>1, BecomesType DEF Resolve, me, Errors
      <4>3. QED
        BY <3>4, <4>2 DEF Resolve, TypeOK
    <3>5. CASE HandOff(c)
      <4>1. [me EXCEPT !.pc = "pass", !.stage = "HandingOff", !.route = "ExistingClient"]
              \in CallType
        BY <3>0, StageNames DEF CallType, Routes
      <4>2. call' \in [Calls -> CallType]
        BY <3>5, <3>f, <4>1, BecomesType DEF HandOff, me, Errors
      <4>3. QED
        BY <3>5, <4>2 DEF HandOff, TypeOK
    <3>6. CASE ColdStart(c)
      <4>1. \A p \in Pids : [Acting(me) EXCEPT !.pc = "pass", !.pid = p, !.route = "ColdStart"]
                              \in CallType
        <5>1. ASSUME NEW acted \in CallType, NEW p \in Pids
              PROVE  [acted EXCEPT !.pc = "pass", !.pid = p, !.route = "ColdStart"] \in CallType
          BY DEF CallType, Routes
        <5>2. QED
          BY <3>0, <5>1, ActingType
      <4>2. call' \in [Calls -> CallType]
        BY <3>6, <3>f, <4>1, BecomesType DEF ColdStart, me, Errors
      <4>3. \A p \in Pids : Spawned(p) \subseteq ClientType
        BY DEF Spawned, Boot, TypeOK, ClientType
      <4>4. rc' \in ClientType /\ queued' \in BOOLEAN /\ game' \in BOOLEAN
        BY <3>6, <4>3 DEF ColdStart, TypeOK
      <4>5. QED
        BY <4>2, <4>4 DEF TypeOK
    <3>7. CASE Pass(c)
      <4>1. [me EXCEPT !.pc = "probe"] \in CallType
        BY <3>0 DEF CallType
      <4>2. ASSUME NEW d \in 0..ProbeTime
            PROVE  Ended(Later(me, d), "ok", me.route, me.pid) \in CallType
        <5>1. Later(me, d) \in CallType
          BY <3>0, LaterFields, TimeAssumption
        <5>2. QED
          BY <3>p, <5>1, EndedType
      <4>3. call' \in [Calls -> CallType]
        BY <3>7, <3>f, <4>1, <4>2, BecomesType DEF Pass, me, Errors
      <4>4. QED
        BY <3>7, <4>3 DEF Pass, TypeOK
    <3>8. CASE Probe(c)
      <4>1. \A d \in 0..ProbeTime : Later(me, d) \in CallType
        BY <3>0, LaterFields, TimeAssumption
      <4>2. call' \in [Calls -> CallType]
        BY <3>8, <4>1, AfterProbeType, BecomesType DEF Probe, me
      <4>3. QED
        BY <3>8, <4>2 DEF Probe, TypeOK
    <3>13. CASE ReadPid(c)
      <4>1. \A p \in Pids \cup {NoPid} : [me EXCEPT !.pc = "post", !.now = p] \in CallType
        BY <3>0 DEF CallType
      <4>2. call' \in [Calls -> CallType]
        BY <3>13, <3>p, <4>1, BecomesType DEF ReadPid, me
      <4>3. QED
        BY <3>13, <4>2 DEF ReadPid, TypeOK
    <3>9. CASE Post(c)
      <4>1. PICK x \in LaunchReplies, d \in 0..PostTime :
              /\ Becomes(c, AfterPost(Sent(Later(Acting(me), d), x.taken), AttemptOf(x.reply)))
              /\ rc' = IF x.taken THEN [rc EXCEPT !.launching = "reported"] ELSE rc
              /\ queued' = (queued \/ (x.taken /\ rc.launching # "no"))
        BY <3>9 DEF Post, me
      <4>2. Sent(Later(Acting(me), d), x.taken) \in CallType
        BY <3>0, ActingType, LaterFields, SentFields, RepliesType, TimeAssumption
      <4>3. call' \in [Calls -> CallType]
        BY <4>1, <4>2, AfterPostType, BecomesType
      <4>4. rc' \in ClientType
        BY <4>1 DEF TypeOK, ClientType
      <4>5. queued' \in BOOLEAN
        BY <4>1 DEF TypeOK
      <4>6. QED
        BY <3>9, <4>3, <4>4, <4>5 DEF Post, TypeOK
    <3>10. CASE Wake(c)
      <4>1. \A d \in 0..WakeTime : Later(Acting(me), d) \in CallType
        BY <3>0, ActingType, LaterFields, TimeAssumption
      <4>2. call' \in [Calls -> CallType]
        BY <3>10, <4>1, AfterWakeType, BecomesType DEF Wake, me
      <4>3. rc' \in ClientType
        BY <3>10 DEF Wake, TypeOK, ClientType
      <4>4. QED
        BY <3>10, <4>2, <4>3 DEF Wake, TypeOK
    <3>11. CASE Deadline(c)
      <4>1. [me EXCEPT !.pc = "pass", !.stage = "WaitingForClient", !.now = NoPid,
                       !.elapsed = @ + PollInterval] \in CallType
        <5>1. me.elapsed + PollInterval \in Nat
          BY <3>p, TimeAssumption
        <5>2. QED
          BY <3>0, <5>1, StageNames DEF CallType
      <4>2. call' \in [Calls -> CallType]
        BY <3>11, <3>f, <4>1, BecomesType DEF Deadline, me, Errors
      <4>3. QED
        BY <3>11, <4>2 DEF Deadline, TypeOK
    <3>12. QED
      BY <2>4, <3>1, <3>2, <3>3, <3>4, <3>5, <3>6, <3>7, <3>8, <3>9, <3>10, <3>11, <3>13
      DEF Step
  <2>5. QED
    BY <2>1, <2>2, <2>3, <2>4 DEF Next
<1>2. QED
  BY TypeInit, <1>1, PTL DEF Spec

----------------------------------------------------------------------------
(***************************************************************************)
(* What a call's place in its code says of what it holds.  Paced and       *)
(* Lagging make BoundedWait and StopLag inductive, Staged the contract: a  *)
(* bound on `elapsed' or `late' alone is not kept by a step that adds to   *)
(* it, unless the pass began below the bound.                              *)
(***************************************************************************)
Before == {"start", "known", "adopt", "resolve", "handoff", "spawn"}

InWait == {"pass", "probe", "pid", "post", "wake", "deadline"}

PassStart == BootTimeout + PollInterval

Bounded(me) ==
  \/ me.elapsed < PassStart + ProbeTime + PostTime
  \/ me.elapsed < PassStart + ProbeTime + WakeAttempts * WakeTime

Paced(me) ==
  /\ me.pc \in Before => me.elapsed = 0
  /\ me.pc \in {"pass", "probe"} => me.elapsed < PassStart
  /\ me.pc \in {"pid", "post"} => me.elapsed < PassStart + ProbeTime
  /\ me.pc = "wake" =>
       /\ me.attempt \in 1..WakeAttempts
       /\ me.elapsed < PassStart + ProbeTime + (me.attempt - 1) * WakeTime
  /\ Bounded(me)

LagBounded(me) ==
  /\ me.late <= 1 \/ (me.lastWake # Never /\ me.late <= me.attempt)
  /\ me.late > 0 => me.stop

Lagging(me) ==
  /\ me.pc \in Before \cup {"probe", "pid", "post"} => me.late = 0
  /\ me.pc = "wake" => me.lastWake # Never /\ me.late < me.attempt
  /\ LagBounded(me)

Staged(me) ==
  /\ me.result # "none" <=> me.pc = "done"
  /\ me.pc = "start" => me.stage = "none"
  /\ me.pc \in {"known", "adopt", "resolve", "handoff"} => me.stage = "Resolving"
  /\ me.pc = "spawn" => me.stage = "ColdStart"
  /\ me.pc \in InWait =>
       /\ me.stage \in {"ColdStart", "HandingOff", "WakingClient", "WaitingForClient"}
       /\ me.route \in {"ExistingClient", "ColdStart"}

Sound(me) == Paced(me) /\ Lagging(me) /\ Staged(me)

CallInv == \A c \in Calls : Sound(call[c])

\* The time of the attempts before an attempt, and of them all, add up.
LEMMA WakeTimes ==
  ASSUME NEW a \in 1..WakeAttempts
  PROVE  /\ (a - 1) * WakeTime \in Nat
         /\ (a - 1) * WakeTime + WakeTime = a * WakeTime
         /\ a * WakeTime <= WakeAttempts * WakeTime
<1>1. WakeTime \in Nat /\ WakeAttempts \in Nat /\ a \in Nat /\ a - 1 \in Nat
  BY TimeAssumption
<1>2. (a - 1) * WakeTime \in Nat /\ (a - 1) * WakeTime + WakeTime = a * WakeTime
  BY <1>1
<1>3. (WakeAttempts - a) \in Nat /\ WakeAttempts * WakeTime = a * WakeTime + (WakeAttempts - a) * WakeTime
  BY <1>1
<1>4. (WakeAttempts - a) * WakeTime \in Nat /\ a * WakeTime \in Nat /\ WakeAttempts * WakeTime \in Nat
  BY <1>1, <1>3
<1>5. QED
  BY <1>2, <1>3, <1>4

\* A call that ends within its bounds is sound.
LEMMA EndedSound ==
  ASSUME NEW me \in CallType, Bounded(me), LagBounded(me),
         NEW r \in Errors \cup {"ok"}, NEW route, NEW p
  PROVE  Sound(Ended(me, r, route, p))
<1> DEFINE end == Ended(me, r, route, p)
<1>1. /\ end.pc = "done" /\ end.result = r /\ r # "none"
      /\ end.elapsed = me.elapsed /\ end.late = me.late /\ end.stop = me.stop
      /\ end.lastWake = me.lastWake /\ end.attempt = me.attempt
  BY DEF Ended, CallType, Errors
<1> HIDE DEF end
<1>2. Bounded(end)
  BY <1>1 DEF Bounded
<1>3. Paced(end)
  BY <1>1, <1>2 DEF Paced, Before
<1>4. Lagging(end)
  BY <1>1 DEF Lagging, LagBounded, Before
<1>5. Staged(end)
  BY <1>1 DEF Staged, InWait
<1>6. QED
  BY <1>3, <1>4, <1>5 DEF Sound, end

\* A call that fails within its bounds is sound.
LEMMA FailedSound ==
  ASSUME NEW me \in CallType, Bounded(me), LagBounded(me), NEW e \in Errors
  PROVE  Sound(Failed(me, e))
  BY EndedSound DEF Failed

\* One more act: the fields, and why the lag stays within one wake.
LEMMA ActingFields ==
  ASSUME NEW me \in CallType
  PROVE  /\ Acting(me) \in CallType
         /\ Acting(me).late = IF me.stop THEN me.late + 1 ELSE me.late
         /\ \A f \in {"pc", "stop", "route", "pid", "now", "elapsed", "refusedSince", "lastWake",
                      "attempt", "stage", "result", "asked"} : Acting(me)[f] = me[f]
  BY ActingType DEF Acting, CallType

\* The first act after a stop is one act after the stop.
LEMMA ActingLag ==
  ASSUME NEW me \in CallType, me.late = 0
  PROVE  Acting(me).late <= 1 /\ LagBounded(Acting(me))
  BY ActingFields, TimeAssumption DEF CallType, LagBounded

\* A call whose clock is within a pass of its start is within its bounds.
LEMMA BoundedEarly ==
  ASSUME NEW me \in CallType, me.elapsed < PassStart + ProbeTime
  PROVE  Bounded(me)
  BY TimeAssumption DEF Bounded, PassStart, CallType

\* A sound call in the place of another leaves all calls sound.
LEMMA BecomesSound ==
  ASSUME TypeOK, CallInv, NEW c \in Calls, NEW me, Sound(me), Becomes(c, me)
  PROVE  CallInv'
  BY DEF TypeOK, CallInv, Becomes

\* The steps before the wait: no time passes on the call's clock.
LEMMA BeforeStep ==
  ASSUME NEW me \in CallType, Sound(me), me.pc \in Before
  PROVE  /\ \A e \in Errors : Sound(Failed(me, e)) /\ Sound(Failed(Acting(me), e))
         /\ \A route, p : /\ Sound(Ended(me, "ok", route, p))
                          /\ Sound(Ended(Acting(me), "ok", route, p))
<1>1. Bounded(me) /\ LagBounded(me) /\ me.late = 0
  BY DEF Sound, Paced, Lagging
<1>2. Acting(me) \in CallType /\ LagBounded(Acting(me))
  BY <1>1, ActingFields, ActingLag
<1>3. Bounded(Acting(me))
  BY <1>1, ActingFields DEF Bounded
<1>4. QED
  BY <1>1, <1>2, <1>3, EndedSound, FailedSound

\* A record that has only moved on, before the wait or into its first pass.
LEMMA MovedSound ==
  ASSUME NEW me \in CallType, Sound(me), me.pc \in Before,
         NEW you \in CallType, you.elapsed = 0, Staged(you),
         \/ you.pc \in Before /\ you.late = 0
         \/ you.pc = "pass" /\ LagBounded(you)
  PROVE  Sound(you)
<1>1. 0 < PassStart /\ PassStart \in Nat
  BY TimeAssumption DEF PassStart
<1>2. Bounded(you)
  BY <1>1, BoundedEarly, TimeAssumption
<1>3. Paced(you)
  BY <1>1, <1>2 DEF Paced, Before
<1>4. Lagging(you)
  BY TimeAssumption DEF Lagging, LagBounded, Before
<1>5. QED
  BY <1>3, <1>4 DEF Sound

\* The steps before the wait keep the calls sound.
LEMMA BeforeWait ==
  ASSUME TypeOK, CallInv, NEW c \in Calls,
         \/ Start(c) \/ Known(c) \/ Adopt(c) \/ Resolve(c) \/ HandOff(c) \/ ColdStart(c)
  PROVE  CallInv'
<1> DEFINE me == call[c]
<1>0. me \in CallType /\ Sound(me)
  BY DEF TypeOK, CallInv
<1>1. me.pc \in Before
  BY DEF Start, Known, Adopt, Resolve, HandOff, ColdStart, At, Before
<1>2. me.elapsed = 0 /\ me.late = 0 /\ Staged(me)
  BY <1>0, <1>1 DEF Sound, Paced, Lagging
<1>3. LiveLockfile \subseteq Pids \cup {NoPid}
  BY ReadsType
<1> HIDE DEF me
<1>4. /\ \A e \in Errors : Sound(Failed(me, e)) /\ Sound(Failed(Acting(me), e))
      /\ \A route, p : Sound(Ended(me, "ok", route, p)) /\ Sound(Ended(Acting(me), "ok", route, p))
  BY <1>0, <1>1, BeforeStep
<1>5. CASE Start(c)
  <2>1. ASSUME NEW pc \in {"known", "resolve"}
        PROVE  Sound([me EXCEPT !.pc = pc, !.stage = "Resolving"])
    <3> DEFINE you == [me EXCEPT !.pc = pc, !.stage = "Resolving"]
    <3>1. /\ you \in CallType /\ you.elapsed = 0 /\ you.late = 0 /\ you.pc \in Before
          /\ you.pc = pc /\ you.stage = "Resolving" /\ you.result = me.result
      BY <1>0, <1>2, StageNames DEF CallType, Before
    <3>2. me.pc = "start"
      BY <1>5 DEF Start, At, me
    <3> HIDE DEF you
    <3>3. Staged(you)
      BY <1>2, <3>1, <3>2 DEF Staged, InWait
    <3>4. QED
      BY <1>0, <1>1, <3>1, <3>3, MovedSound DEF you
  <2>2. QED
    BY <1>4, <1>5, <2>1, BecomesSound DEF Start, me, Errors
<1>6. CASE Known(c)
  <2>1. ASSUME NEW p \in Pids \cup {NoPid}
        PROVE  Sound([me EXCEPT !.pc = "adopt", !.pid = p])
    <3> DEFINE you == [me EXCEPT !.pc = "adopt", !.pid = p]
    <3>1. /\ you \in CallType /\ you.elapsed = 0 /\ you.late = 0 /\ you.pc \in Before
          /\ you.pc = "adopt" /\ you.stage = me.stage /\ you.result = me.result
      BY <1>0, <1>2 DEF CallType, Before
    <3>2. me.pc = "known"
      BY <1>6 DEF Known, At, me
    <3> HIDE DEF you
    <3>3. Staged(you)
      BY <1>2, <3>1, <3>2 DEF Staged, InWait
    <3>4. QED
      BY <1>0, <1>1, <3>1, <3>3, MovedSound DEF you
  <2>2. QED
    BY <1>3, <1>4, <1>6, <2>1, BecomesSound DEF Known, me
<1>7. CASE Adopt(c)
  BY <1>4, <1>7, BecomesSound DEF Adopt, me
<1>8. CASE Resolve(c)
  <2>1. me.pc = "resolve"
    BY <1>8 DEF Resolve, At, me
  <2>2. Sound([me EXCEPT !.pc = "spawn", !.stage = "ColdStart"])
    <3> DEFINE you == [me EXCEPT !.pc = "spawn", !.stage = "ColdStart"]
    <3>1. /\ you \in CallType /\ you.elapsed = 0 /\ you.late = 0 /\ you.pc \in Before
          /\ you.pc = "spawn" /\ you.stage = "ColdStart" /\ you.result = me.result
      BY <1>0, <1>2, StageNames DEF CallType, Before
    <3> HIDE DEF you
    <3>2. Staged(you)
      BY <1>2, <2>1, <3>1 DEF Staged, InWait
    <3>3. QED
      BY <1>0, <1>1, <3>1, <3>2, MovedSound DEF you
  <2>3. ASSUME NEW p \in Pids \cup {NoPid}
        PROVE  Sound([me EXCEPT !.pc = "handoff", !.pid = p])
    <3> DEFINE you == [me EXCEPT !.pc = "handoff", !.pid = p]
    <3>1. /\ you \in CallType /\ you.elapsed = 0 /\ you.late = 0 /\ you.pc \in Before
          /\ you.pc = "handoff" /\ you.stage = me.stage /\ you.result = me.result
      BY <1>0, <1>2 DEF CallType, Before
    <3> HIDE DEF you
    <3>2. Staged(you)
      BY <1>2, <2>1, <3>1 DEF Staged, InWait
    <3>3. QED
      BY <1>0, <1>1, <3>1, <3>2, MovedSound DEF you
  <2>4. QED
    BY <1>3, <1>4, <1>8, <2>2, <2>3, BecomesSound DEF Resolve, me, Errors
<1>9. CASE HandOff(c)
  <2>1. me.pc = "handoff"
    BY <1>9 DEF HandOff, At, me
  <2>2. Sound([me EXCEPT !.pc = "pass", !.stage = "HandingOff", !.route = "ExistingClient"])
    <3> DEFINE you == [me EXCEPT !.pc = "pass", !.stage = "HandingOff", !.route = "ExistingClient"]
    <3>1. /\ you \in CallType /\ you.elapsed = 0 /\ you.late = 0 /\ you.pc = "pass"
          /\ you.stage = "HandingOff" /\ you.route = "ExistingClient" /\ you.result = me.result
      BY <1>0, <1>2, StageNames DEF CallType, Routes
    <3> HIDE DEF you
    <3>2. Staged(you)
      BY <1>2, <2>1, <3>1 DEF Staged, InWait
    <3>3. LagBounded(you)
      BY <3>1, TimeAssumption DEF LagBounded
    <3>4. QED
      BY <1>0, <1>1, <3>1, <3>2, <3>3, MovedSound DEF you
  <2>3. QED
    BY <1>4, <1>9, <2>2, BecomesSound DEF HandOff, me, Errors
<1>10. CASE ColdStart(c)
  <2>1. me.pc = "spawn"
    BY <1>10 DEF ColdStart, At, me
  <2> DEFINE acted == Acting(me)
  <2>2. /\ acted \in CallType /\ acted.elapsed = 0 /\ LagBounded(acted)
        /\ acted.stage = me.stage /\ acted.result = me.result
    BY <1>0, <1>2, ActingFields, ActingLag
  <2> HIDE DEF acted
  <2>3. ASSUME NEW p \in Pids
        PROVE  Sound([acted EXCEPT !.pc = "pass", !.pid = p, !.route = "ColdStart"])
    <3> DEFINE you == [acted EXCEPT !.pc = "pass", !.pid = p, !.route = "ColdStart"]
    <3>1. /\ you \in CallType /\ you.elapsed = 0 /\ you.late = acted.late /\ you.pc = "pass"
          /\ you.stop = acted.stop /\ you.stage = me.stage /\ you.route = "ColdStart"
          /\ you.lastWake = acted.lastWake /\ you.attempt = acted.attempt
          /\ you.result = me.result
      BY <2>2 DEF CallType, Routes
    <3> HIDE DEF you
    <3>2. Staged(you)
      BY <1>2, <2>1, <3>1 DEF Staged, InWait
    <3>3. LagBounded(you)
      BY <2>2, <3>1 DEF LagBounded
    <3>4. QED
      BY <1>0, <1>1, <3>1, <3>2, <3>3, MovedSound DEF you
  <2>4. QED
    BY <1>4, <1>10, <2>3, BecomesSound DEF ColdStart, me, acted, Errors
<1>11. QED
  BY <1>5, <1>6, <1>7, <1>8, <1>9, <1>10

\* A step of the wait to a place where the stop has had its say.
LEMMA WaitSound ==
  ASSUME NEW me \in CallType, NEW you \in CallType, Staged(me), me.pc \in InWait,
         you.pc \in InWait, you.result = me.result, you.route = me.route,
         \/ you.stage = me.stage
         \/ you.stage \in {"WakingClient", "WaitingForClient"},
         Paced(you), Lagging(you)
  PROVE  Sound(you)
  BY DEF Sound, Staged, InWait

\* The head of a pass, which reads the clock and the stop, keeps the calls sound.
LEMMA PassSound ==
  ASSUME TypeOK, CallInv, NEW c \in Calls, Pass(c)
  PROVE  CallInv'
<1> DEFINE me == call[c]
<1>0. me \in CallType /\ Sound(me) /\ me.pc = "pass"
  BY DEF TypeOK, CallInv, Pass, At
<1> HIDE DEF me
<1>1. me.elapsed < PassStart /\ Bounded(me) /\ LagBounded(me)
  BY <1>0 DEF Sound, Paced, Lagging
<1>2. ~me.stop => Sound([me EXCEPT !.pc = "probe"])
  <2> SUFFICES ASSUME ~me.stop PROVE Sound([me EXCEPT !.pc = "probe"])
    OBVIOUS
  <2> DEFINE you == [me EXCEPT !.pc = "probe"]
  <2>1. /\ you \in CallType /\ you.pc = "probe" /\ you.elapsed = me.elapsed
        /\ you.late = me.late /\ you.stop = me.stop /\ you.stage = me.stage
        /\ you.route = me.route /\ you.result = me.result
    BY <1>0 DEF CallType
  <2>2. me.late = 0
    BY <1>0, <1>1 DEF LagBounded, CallType
  <2> HIDE DEF you
  <2>3. Paced(you)
    BY <1>1, <2>1 DEF Paced, Bounded, Before
  <2>4. Lagging(you)
    BY <1>1, <2>1, <2>2 DEF Lagging, LagBounded
  <2>5. QED
    BY <1>0, <2>1, <2>3, <2>4, WaitSound DEF Sound, InWait, you
<1>3. Sound(Failed(me, "Stopped"))
  BY <1>0, <1>1, FailedSound DEF Errors
<1>4. ASSUME NEW d \in 0..ProbeTime, NEW route, NEW p
      PROVE  Sound(Ended(Later(me, d), "ok", route, p))
  <2> DEFINE now == Later(me, d)
  <2>1. d \in Nat /\ d <= ProbeTime
    BY TimeAssumption
  <2>2. /\ now \in CallType /\ now.elapsed = me.elapsed + d /\ now.late = me.late
        /\ now.stop = me.stop /\ now.lastWake = me.lastWake /\ now.attempt = me.attempt
    BY <1>0, <2>1, LaterFields
  <2> HIDE DEF now
  <2>3. now.elapsed < PassStart + ProbeTime
    BY <1>0, <1>1, <2>1, <2>2, TimeAssumption DEF PassStart, CallType
  <2>4. Bounded(now) /\ LagBounded(now)
    BY <1>1, <2>2, <2>3, BoundedEarly DEF LagBounded
  <2>5. QED
    BY <2>2, <2>4, EndedSound DEF now
<1>5. QED
  BY <1>2, <1>3, <1>4, BecomesSound DEF Pass, me

\* The probe, which takes time, keeps the calls sound.
LEMMA ProbeSound ==
  ASSUME TypeOK, CallInv, NEW c \in Calls, Probe(c)
  PROVE  CallInv'
<1>1. PICK r \in PendingReplies, d \in 0..ProbeTime :
        Becomes(c, AfterProbe(Later(call[c], d), ReadinessOf(r)))
  BY DEF Probe
<1> DEFINE me == call[c]
           now == Later(me, d)
<1>2. me \in CallType /\ Sound(me) /\ me.pc = "probe"
  BY DEF TypeOK, CallInv, Probe, At
<1>3. d \in Nat /\ d <= ProbeTime
  BY TimeAssumption
<1> HIDE DEF me
<1>4. /\ now \in CallType /\ now.elapsed = me.elapsed + d /\ now.pc = "probe"
      /\ now.late = me.late /\ now.stop = me.stop /\ now.stage = me.stage
      /\ now.route = me.route /\ now.result = me.result
  BY <1>2, <1>3, LaterFields
<1> HIDE DEF now
<1>5. now.elapsed < PassStart + ProbeTime /\ now.late = 0
  BY <1>2, <1>3, <1>4, TimeAssumption DEF Sound, Paced, Lagging, PassStart, CallType
<1>6. Staged(now)
  BY <1>2, <1>4 DEF Sound, Staged, InWait
<1>7. ASSUME NEW you \in CallType, you.elapsed = now.elapsed, you.late = 0,
             you.result = now.result, you.route = now.route,
             \/ you.pc \in {"pid", "deadline"} /\ you.stage = now.stage
             \/ /\ you.pc = "wake" /\ you.attempt = 1 /\ you.stage = "WakingClient"
                /\ you.lastWake # Never
      PROVE  Sound(you)
  <2>1. Bounded(you)
    BY <1>5, <1>7, BoundedEarly
  <2>2. Paced(you)
    <3>1. you.pc = "wake" => (you.attempt - 1) * WakeTime = 0
      BY <1>7, TimeAssumption
    <3>2. 1 \in 1..WakeAttempts
      BY TimeAssumption
    <3>3. CASE you.pc = "wake"
      <4>1. you.elapsed < PassStart + ProbeTime + (you.attempt - 1) * WakeTime
        BY <1>5, <1>7, <3>1, <3>3, TimeAssumption DEF PassStart, CallType
      <4>2. QED
        BY <1>7, <2>1, <3>2, <3>3, <4>1 DEF Paced, Before
    <3>4. CASE you.pc # "wake"
      BY <1>5, <1>7, <2>1, <3>4 DEF Paced, Before
    <3>5. QED
      BY <3>3, <3>4
  <2>3. Lagging(you)
    BY <1>7, TimeAssumption DEF Lagging, LagBounded
  <2>4. QED
    BY <1>4, <1>6, <1>7, <2>2, <2>3, WaitSound DEF InWait
<1>8. Sound([now EXCEPT !.pc = "pid"]) /\ Sound([now EXCEPT !.pc = "deadline"])
  <2>1. ASSUME NEW pc \in {"pid", "deadline"} PROVE Sound([now EXCEPT !.pc = pc])
    <3> DEFINE you == [now EXCEPT !.pc = pc]
    <3>1. /\ you \in CallType /\ you.elapsed = now.elapsed /\ you.late = 0 /\ you.pc = pc
          /\ you.result = now.result /\ you.route = now.route /\ you.stage = now.stage
      BY <1>4, <1>5 DEF CallType
    <3> HIDE DEF you
    <3>2. QED
      BY <1>7, <3>1 DEF you
  <2>2. QED
    BY <2>1
<1>9. Sound([now EXCEPT !.pc = "wake", !.attempt = 1, !.lastWake = now.elapsed,
                        !.stage = "WakingClient"])
  <2> DEFINE you == [now EXCEPT !.pc = "wake", !.attempt = 1, !.lastWake = now.elapsed,
                                !.stage = "WakingClient"]
  <2>1. /\ you \in CallType /\ you.elapsed = now.elapsed /\ you.late = 0 /\ you.pc = "wake"
        /\ you.result = now.result /\ you.route = now.route /\ you.attempt = 1
        /\ you.stage = "WakingClient" /\ you.lastWake # Never
    <3>1. 1 \in 0..WakeAttempts /\ now.elapsed \in Times /\ now.elapsed # Never
      BY <1>4, TimeAssumption DEF CallType, Times, Never
    <3>2. QED
      BY <1>4, <1>5, <3>1, StageNames DEF CallType
  <2> HIDE DEF you
  <2>2. QED
    BY <1>7, <2>1 DEF you
<1>10. Sound(AfterProbe(now, ReadinessOf(r)))
  BY <1>8, <1>9 DEF AfterProbe
<1>11. QED
  BY <1>1, <1>10, BecomesSound DEF me, now

\* The reading of the client's pid keeps the calls sound.
LEMMA ReadPidSound ==
  ASSUME TypeOK, CallInv, NEW c \in Calls, ReadPid(c)
  PROVE  CallInv'
<1> DEFINE me == call[c]
<1>1. me \in CallType /\ Sound(me) /\ me.pc = "pid"
  BY DEF TypeOK, CallInv, ReadPid, At
<1> HIDE DEF me
<1>2. ASSUME NEW p \in Pids \cup {NoPid} PROVE Sound([me EXCEPT !.pc = "post", !.now = p])
  <2> DEFINE you == [me EXCEPT !.pc = "post", !.now = p]
  <2>1. /\ you \in CallType /\ you.pc = "post" /\ you.elapsed = me.elapsed
        /\ you.late = me.late /\ you.stop = me.stop /\ you.stage = me.stage
        /\ you.route = me.route /\ you.result = me.result
    BY <1>1 DEF CallType
  <2> HIDE DEF you
  <2>2. Paced(you)
    BY <1>1, <2>1 DEF Sound, Paced, Bounded, Before
  <2>3. Lagging(you)
    BY <1>1, <2>1 DEF Sound, Lagging, LagBounded
  <2>4. QED
    BY <1>1, <2>1, <2>2, <2>3, WaitSound DEF Sound, InWait, you
<1>3. me.pid \in Pids \cup {NoPid}
  BY <1>1 DEF CallType
<1>4. QED
  BY <1>2, <1>3, ReadsType, BecomesSound DEF ReadPid, me

\* The sleep between two passes keeps the calls sound.
LEMMA DeadlineSound ==
  ASSUME TypeOK, CallInv, NEW c \in Calls, Deadline(c)
  PROVE  CallInv'
<1> DEFINE me == call[c]
           you == [me EXCEPT !.pc = "pass", !.stage = "WaitingForClient",
                             !.now = NoPid, !.elapsed = @ + PollInterval]
<1>1. me \in CallType /\ Sound(me) /\ me.pc = "deadline"
  BY DEF TypeOK, CallInv, Deadline, At
<1> HIDE DEF me
<1>2. Bounded(me) /\ LagBounded(me) /\ Staged(me)
  BY <1>1 DEF Sound, Paced, Lagging
<1>3. Sound(Failed(me, "Unreachable"))
  BY <1>1, <1>2, FailedSound DEF Errors
<1>4. me.elapsed + PollInterval \in Nat
  BY <1>1, TimeAssumption DEF CallType
<1>5. /\ you \in CallType /\ you.pc = "pass" /\ you.elapsed = me.elapsed + PollInterval
      /\ you.late = me.late /\ you.stop = me.stop /\ you.stage = "WaitingForClient"
      /\ you.lastWake = me.lastWake /\ you.attempt = me.attempt /\ you.route = me.route /\ you.result = me.result
  BY <1>1, <1>4, StageNames DEF CallType
<1> HIDE DEF you
<1>6. me.elapsed < BootTimeout => Sound(you)
  <2> SUFFICES ASSUME me.elapsed < BootTimeout PROVE Sound(you)
    OBVIOUS
  <2>1. you.elapsed < PassStart /\ you.elapsed < PassStart + ProbeTime
    BY <1>1, <1>5, TimeAssumption DEF PassStart, CallType
  <2>2. Paced(you)
    BY <1>5, <2>1, BoundedEarly DEF Paced, Before
  <2>3. Lagging(you)
    BY <1>2, <1>5 DEF Lagging, LagBounded, Before
  <2>4. QED
    BY <1>1, <1>2, <1>5, <2>2, <2>3, WaitSound DEF InWait
<1>7. me.elapsed >= BootTimeout \/ me.elapsed < BootTimeout
  BY <1>1, TimeAssumption DEF CallType
<1>8. QED
  BY <1>3, <1>6, <1>7, BecomesSound DEF Deadline, me, you

\* On to the deadline check, within the bounds that hold at the end.
LEMMA ToDeadline ==
  ASSUME NEW me \in CallType, Bounded(me), LagBounded(me), Staged(me), me.pc \in InWait,
         NEW since \in Times
  PROVE  /\ Sound([me EXCEPT !.pc = "deadline"])
         /\ Sound([[me EXCEPT !.refusedSince = since] EXCEPT !.pc = "deadline"])
<1>1. ASSUME NEW you \in CallType, you.elapsed = me.elapsed, you.late = me.late,
             you.stop = me.stop, you.stage = me.stage, you.route = me.route,
             you.lastWake = me.lastWake, you.attempt = me.attempt,
             you.result = me.result, you.pc = "deadline"
      PROVE  Sound(you)
  <2>1. Paced(you)
    BY <1>1 DEF Paced, Bounded, Before
  <2>2. Lagging(you)
    BY <1>1 DEF Lagging, LagBounded, Before
  <2>3. QED
    BY <1>1, <2>1, <2>2, WaitSound DEF InWait
<1>2. ASSUME NEW you \in CallType, you.elapsed = me.elapsed, you.late = me.late,
             you.stop = me.stop, you.stage = me.stage, you.route = me.route,
             you.lastWake = me.lastWake, you.attempt = me.attempt,
             you.result = me.result
      PROVE  Sound([you EXCEPT !.pc = "deadline"])
  <2> DEFINE end == [you EXCEPT !.pc = "deadline"]
  <2>1. /\ end \in CallType /\ end.elapsed = me.elapsed /\ end.late = me.late
        /\ end.stop = me.stop /\ end.stage = me.stage /\ end.route = me.route
        /\ end.lastWake = me.lastWake /\ end.attempt = me.attempt /\ end.result = me.result /\ end.pc = "deadline"
    BY <1>2 DEF CallType
  <2> HIDE DEF end
  <2>2. QED
    BY <1>1, <2>1 DEF end
<1> DEFINE noted == [me EXCEPT !.refusedSince = since]
<1>3. /\ noted \in CallType /\ noted.elapsed = me.elapsed /\ noted.late = me.late
      /\ noted.stop = me.stop /\ noted.stage = me.stage /\ noted.route = me.route
      /\ noted.lastWake = me.lastWake /\ noted.attempt = me.attempt /\ noted.result = me.result
  BY DEF CallType
<1> HIDE DEF noted
<1>4. QED
  BY <1>2, <1>3 DEF noted

\* A call within its bounds is sound after its POST, whatever it was answered.
LEMMA AfterPostSound ==
  ASSUME NEW me \in CallType, Bounded(me), LagBounded(me), Staged(me), me.pc \in InWait,
         NEW what
  PROVE  Sound(AfterPost(me, what))
<1>1. Sound(Ended(me, "ok", me.route, me.now))
  BY EndedSound
<1>2. Sound(Failed(me, "Unreachable"))
  BY FailedSound DEF Errors
<1>3. Sound([me EXCEPT !.pc = "deadline"])
  BY ToDeadline DEF Times
<1>4. Sound(AfterRefusal(me))
  <2> DEFINE since == IF me.refusedSince = Never THEN me.elapsed ELSE me.refusedSince
             noted == [me EXCEPT !.refusedSince = since]
  <2>1. since \in Times
    BY DEF CallType, Times
  <2> HIDE DEF since
  <2>2. /\ noted \in CallType /\ noted.elapsed = me.elapsed /\ noted.late = me.late
        /\ noted.stop = me.stop /\ noted.lastWake = me.lastWake /\ noted.attempt = me.attempt
    BY <2>1 DEF CallType
  <2>3. Sound([noted EXCEPT !.pc = "deadline"])
    BY <2>1, ToDeadline
  <2> HIDE DEF noted
  <2>4. Bounded(noted) /\ LagBounded(noted)
    BY <2>2 DEF Bounded, LagBounded
  <2>5. Sound(Failed(noted, "Refused"))
    BY <2>2, <2>4, FailedSound DEF Errors
  <2>6. QED
    BY <2>3, <2>5 DEF AfterRefusal, since, noted
<1>5. QED
  BY <1>1, <1>2, <1>3, <1>4 DEF AfterPost

\* The POST, which takes time and acts on the machine, keeps the calls sound.
LEMMA PostSound ==
  ASSUME TypeOK, CallInv, NEW c \in Calls, Post(c)
  PROVE  CallInv'
<1> DEFINE me == call[c]
<1>1. PICK x \in LaunchReplies, d \in 0..PostTime :
        Becomes(c, AfterPost(Sent(Later(Acting(me), d), x.taken), AttemptOf(x.reply)))
  BY DEF Post
<1>2. me \in CallType /\ Sound(me) /\ me.pc = "post"
  BY DEF TypeOK, CallInv, Post, At
<1>3. d \in Nat /\ d <= PostTime /\ x.taken \in BOOLEAN
  BY RepliesType, TimeAssumption
<1> HIDE DEF me
<1>4. me.elapsed < PassStart + ProbeTime /\ me.late = 0 /\ Staged(me)
  BY <1>2 DEF Sound, Paced, Lagging
<1> DEFINE acted == Acting(me)
           later == Later(acted, d)
           sent == Sent(later, x.taken)
<1>5. /\ acted \in CallType /\ LagBounded(acted) /\ acted.elapsed = me.elapsed
      /\ acted.pc = "post" /\ acted.stage = me.stage /\ acted.route = me.route
      /\ acted.result = me.result
  BY <1>2, <1>4, ActingFields, ActingLag
<1> HIDE DEF acted
<1>6. /\ later \in CallType /\ later.elapsed = me.elapsed + d
      /\ \A f \in {"pc", "stop", "route", "lastWake", "attempt", "stage", "result", "late"} :
           later[f] = acted[f]
  BY <1>3, <1>5, LaterFields
<1> HIDE DEF later
<1>7. /\ sent \in CallType /\ sent.elapsed = me.elapsed + d /\ sent.pc = "post"
      /\ sent.late = acted.late /\ sent.stop = acted.stop /\ sent.stage = me.stage
      /\ sent.route = me.route /\ sent.result = me.result
      /\ sent.lastWake = acted.lastWake /\ sent.attempt = acted.attempt
  BY <1>3, <1>5, <1>6, SentFields
<1> HIDE DEF sent
<1>8. Bounded(sent)
  BY <1>2, <1>3, <1>4, <1>7, TimeAssumption DEF Bounded, PassStart, CallType
<1>9. LagBounded(sent)
  BY <1>5, <1>7 DEF LagBounded
<1>10. Staged(sent)
  BY <1>2, <1>4, <1>7 DEF Staged, InWait
<1>11. \A what : Sound(AfterPost(sent, what))
  BY <1>7, <1>8, <1>9, <1>10, AfterPostSound DEF InWait
<1>12. QED
  BY <1>1, <1>11, BecomesSound DEF sent, later, acted

\* An attempt to wake the client keeps the calls sound.
LEMMA WakeSound ==
  ASSUME TypeOK, CallInv, NEW c \in Calls, Wake(c)
  PROVE  CallInv'
<1> DEFINE me == call[c]
<1>1. PICK d \in 0..WakeTime :
        \E r : Becomes(c, AfterWake(Later(Acting(me), d), r))
  BY DEF Wake
<1>2. me \in CallType /\ Sound(me) /\ me.pc = "wake"
  BY DEF TypeOK, CallInv, Wake, At
<1>3. d \in Nat /\ d <= WakeTime
  BY TimeAssumption
<1> HIDE DEF me
<1> DEFINE acted == Acting(me)
           now == Later(acted, d)
           budget(a) == PassStart + ProbeTime + a * WakeTime
<1>4. /\ me.attempt \in 1..WakeAttempts /\ me.elapsed < budget(me.attempt - 1)
      /\ me.late < me.attempt /\ me.lastWake # Never /\ LagBounded(me) /\ Staged(me)
  BY <1>2 DEF Sound, Paced, Lagging
<1>5. /\ acted \in CallType /\ acted.elapsed = me.elapsed /\ acted.pc = "wake"
      /\ acted.stage = me.stage /\ acted.route = me.route /\ acted.result = me.result
      /\ acted.attempt = me.attempt /\ acted.stop = me.stop /\ acted.lastWake = me.lastWake
      /\ acted.late = IF me.stop THEN me.late + 1 ELSE me.late
  BY <1>2, ActingFields
<1> HIDE DEF acted
<1>6. /\ now \in CallType /\ now.elapsed = me.elapsed + d /\ now.pc = "wake"
      /\ now.stage = me.stage /\ now.route = me.route /\ now.result = me.result
      /\ now.attempt = me.attempt /\ now.stop = me.stop /\ now.late = acted.late
      /\ now.lastWake = me.lastWake
  BY <1>3, <1>5, LaterFields
<1> HIDE DEF now
<1>7. now.elapsed < budget(me.attempt) /\ now.elapsed < budget(WakeAttempts)
  BY <1>2, <1>3, <1>4, <1>6, WakeTimes, TimeAssumption DEF PassStart, CallType
<1>8. Bounded(now) /\ Staged(now)
  BY <1>2, <1>4, <1>6, <1>7 DEF Bounded, Staged, InWait
<1>9. now.late <= me.attempt /\ (now.late > 0 => now.stop) /\ LagBounded(now)
  BY <1>2, <1>4, <1>5, <1>6, TimeAssumption DEF LagBounded, CallType
<1>10. Sound([now EXCEPT !.pc = "deadline"])
  BY <1>6, <1>8, <1>9, ToDeadline DEF Times, InWait
<1>11. me.attempt < WakeAttempts => Sound([now EXCEPT !.attempt = @ + 1])
  <2> SUFFICES ASSUME me.attempt < WakeAttempts PROVE Sound([now EXCEPT !.attempt = @ + 1])
    OBVIOUS
  <2> DEFINE you == [now EXCEPT !.attempt = @ + 1]
  <2>1. /\ me.attempt + 1 \in 1..WakeAttempts /\ me.attempt + 1 \in Nat
        /\ (me.attempt + 1) - 1 = me.attempt
    <3>1. me.attempt \in Nat /\ 1 <= me.attempt
      BY <1>4
    <3>2. QED
      BY <3>1, TimeAssumption
  <2>2. /\ you \in CallType /\ you.attempt = me.attempt + 1 /\ you.elapsed = now.elapsed
        /\ you.late = now.late /\ you.stop = now.stop /\ you.stage = now.stage
        /\ you.route = now.route /\ you.result = now.result /\ you.pc = "wake"
        /\ you.lastWake = me.lastWake
    BY <1>6, <2>1 DEF CallType
  <2> HIDE DEF you
  <2>3. Bounded(you)
    BY <1>8, <2>2 DEF Bounded
  <2>4. Paced(you)
    BY <1>7, <2>1, <2>2, <2>3 DEF Paced, Before
  <2>5. you.late < you.attempt
    BY <1>4, <1>9, <2>2 DEF CallType
  <2>6. Lagging(you)
    <3>1. you.lastWake # Never /\ you.late <= you.attempt /\ (you.late > 0 => you.stop)
      BY <1>4, <1>9, <2>2, <2>5 DEF CallType
    <3>2. QED
      BY <2>2, <2>5, <3>1 DEF Lagging, LagBounded, Before
  <2>7. QED
    BY <1>6, <1>8, <2>2, <2>4, <2>6, WaitSound DEF InWait, you
<1>12. me.attempt >= WakeAttempts \/ me.attempt < WakeAttempts
  BY <1>4, TimeAssumption
<1>13. \A r : Sound(AfterWake(now, r))
  BY <1>6, <1>10, <1>11, <1>12 DEF AfterWake
<1>14. QED
  BY <1>1, <1>13, BecomesSound DEF now, acted

\* Every step keeps every call within its bounds and its lag.
LEMMA CallInvInductive == TypeOK /\ CallInv /\ [Next]_vars => CallInv'
<1> SUFFICES ASSUME TypeOK, CallInv, [Next]_vars PROVE CallInv'
  OBVIOUS
<1>1. CASE UNCHANGED call
  BY <1>1 DEF CallInv
<1>2. ASSUME NEW c \in Calls, Stop(c) PROVE CallInv'
  <2> DEFINE me == call[c]
             you == [me EXCEPT !.stop = TRUE]
  <2>1. me \in CallType /\ Sound(me)
    BY DEF TypeOK, CallInv
  <2> HIDE DEF me
  <2>2. /\ you.pc = me.pc /\ you.elapsed = me.elapsed /\ you.attempt = me.attempt
        /\ you.late = me.late /\ you.stage = me.stage /\ you.route = me.route
        /\ you.lastWake = me.lastWake /\ you.result = me.result /\ you.stop = TRUE
    BY <2>1 DEF CallType
  <2> HIDE DEF you
  <2>3. Paced(you) /\ Staged(you)
    BY <2>1, <2>2 DEF Sound, Paced, Bounded, Staged
  <2>4. Lagging(you)
    BY <2>1, <2>2 DEF Sound, Lagging, LagBounded
  <2>5. QED
    BY <1>2, <2>3, <2>4, BecomesSound DEF Stop, Sound, you, me
<1>3. ASSUME NEW c \in Calls, Step(c) PROVE CallInv'
  BY <1>3, BeforeWait, PassSound, ProbeSound, ReadPidSound, PostSound, WakeSound,
     DeadlineSound DEF Step
<1>4. QED
  BY <1>1, <1>2, <1>3 DEF Next, vars

\* Every call is sound in every state.
LEMMA CallInvHolds == Spec => []CallInv
<1>1. Init => CallInv
  <2> SUFFICES ASSUME Init, NEW c \in Calls PROVE Sound(call[c])
    BY DEF CallInv
  <2>1. call[c] = NewCall
    BY DEF Init
  <2>2. Bounded(NewCall)
    BY TimeAssumption DEF NewCall, Bounded, PassStart
  <2>3. QED
    BY <2>1, <2>2, TimeAssumption
       DEF Sound, Paced, Lagging, LagBounded, Staged, NewCall, Before, InWait
<1>2. QED
  BY <1>1, TypeCorrect, CallInvInductive, PTL DEF Spec

(***************************************************************************)
(* The wait outlives its budget by less than one pass, for every timing of *)
(* the requests (BoundedWait).                                             *)
(***************************************************************************)
THEOREM WaitIsBounded == Spec => []BoundedWait
<1>1. CallInv => BoundedWait
  BY DEF CallInv, Sound, Paced, Bounded, PassStart, BoundedWait
<1>2. QED
  BY <1>1, CallInvHolds, PTL

(***************************************************************************)
(* A stopped call makes one more act, or goes through the attempts of the  *)
(* wake it is in (StopLag), however the stop falls between its steps.      *)
(***************************************************************************)
THEOREM StopIsPrompt == Spec => []StopLag
<1>1. CallInv => StopLag
  BY DEF CallInv, Sound, Lagging, LagBounded, StopLag
<1>2. QED
  BY <1>1, CallInvHolds, PTL

----------------------------------------------------------------------------
(***************************************************************************)
(* Launch implements LaunchContract.                                       *)
(***************************************************************************)

\* A step that gives a call its result is a finish of the contract.
LEMMA ContractFinish ==
  ASSUME TypeOK, NEW c \in Calls, NEW me, Becomes(c, me), call[c].result = "none"
  PROVE  Contract!Finish(c, me.stage, me.result)
  BY DEF TypeOK, Becomes, Contract!Finish

\* A step that gives a call a stage and no result is a report of the contract.
LEMMA ContractReport ==
  ASSUME TypeOK, NEW c \in Calls, NEW me, Becomes(c, me),
         call[c].result = "none", me.result = "none"
  PROVE  Contract!Report(c, me.stage)
  BY DEF TypeOK, Becomes, Contract!Report

\* A step that changes neither stage nor result is none of the contract's.
LEMMA ContractStutter ==
  ASSUME TypeOK, NEW c \in Calls, NEW me, Becomes(c, me),
         me.stage = call[c].stage, me.result = call[c].result
  PROVE  UNCHANGED Contract!vars
  BY DEF TypeOK, Becomes, Contract!vars

\* A call that fails finishes in the stage of its error.
LEMMA ContractFailed ==
  ASSUME TypeOK, NEW c \in Calls, NEW me \in CallType, NEW e \in Errors,
         Becomes(c, Failed(me, e)), call[c].result = "none"
  PROVE  Contract!Finish(c, IF e = "Stopped" THEN "Stopped" ELSE "Error", e)
<1>1. /\ Failed(me, e).result = e
      /\ Failed(me, e).stage = IF e = "Stopped" THEN "Stopped" ELSE "Error"
  BY DEF Failed, Ended, TerminalStage, CallType, Errors
<1>2. QED
  BY <1>1, ContractFinish

\* A call that succeeds finishes in the stage of its route.
LEMMA ContractEnded ==
  ASSUME TypeOK, NEW c \in Calls, NEW me \in CallType, NEW route, NEW p,
         Becomes(c, Ended(me, "ok", route, p)), call[c].result = "none"
  PROVE  Contract!Finish(c, IF route \in {"AlreadyRunning", "Adopted"} THEN "AlreadyRunning"
                            ELSE "Launched", "ok")
<1>1. /\ Ended(me, "ok", route, p).result = "ok"
      /\ Ended(me, "ok", route, p).stage =
           IF route \in {"AlreadyRunning", "Adopted"} THEN "AlreadyRunning" ELSE "Launched"
  <2>1. TerminalStage("ok", route) =
          IF route \in {"AlreadyRunning", "Adopted"} THEN "AlreadyRunning" ELSE "Launched"
    BY DEF TerminalStage
  <2>2. QED
    BY <2>1 DEF Ended, CallType
<1>2. QED
  BY <1>1, ContractFinish

\* The steps before the wait are the contract's or stutters.
LEMMA ContractBefore ==
  ASSUME TypeOK, CallInv, NEW c \in Calls,
         \/ Start(c) \/ Known(c) \/ Adopt(c) \/ Resolve(c) \/ HandOff(c) \/ ColdStart(c)
  PROVE  Contract!Next \/ UNCHANGED Contract!vars
<1> DEFINE me == call[c]
           stage == [d \in Calls |-> call[d].stage]
<1>1. me \in CallType /\ Acting(me) \in CallType /\ Staged(me) /\ stage[c] = me.stage
  BY ActingType DEF TypeOK, CallInv, Sound
<1>2. me.result = "none" /\ me.pc \in Before
  BY <1>1 DEF Staged, Start, Known, Adopt, Resolve, HandOff, ColdStart, At, Before
<1> HIDE DEF me
<1>3. CASE Start(c)
  <2>1. me.stage = "none"
    BY <1>1, <1>3 DEF Staged, Start, At, me
  <2>2. CASE Becomes(c, Failed(me, "Stopped"))
    BY <1>1, <1>2, <2>1, <2>2, ContractFailed DEF Contract!Next, Contract!Cancel, Errors, me
  <2>3. CASE \E pc : Becomes(c, [me EXCEPT !.pc = pc, !.stage = "Resolving"])
    <3>1. PICK pc : Becomes(c, [me EXCEPT !.pc = pc, !.stage = "Resolving"])
      BY <2>3
    <3> DEFINE you == [me EXCEPT !.pc = pc, !.stage = "Resolving"]
    <3>2. you.stage = "Resolving" /\ you.result = "none"
      BY <1>1, <1>2 DEF CallType
    <3> HIDE DEF you
    <3>3. Contract!Report(c, "Resolving")
      BY <1>2, <3>1, <3>2, ContractReport DEF you, me
    <3>4. QED
      BY <1>1, <2>1, <3>3 DEF Contract!Next, Contract!Begin, me
  <2>4. QED
    BY <1>3, <2>2, <2>3 DEF Start, me
<1>4. CASE Known(c)
  <2>1. me.stage = "Resolving"
    BY <1>1, <1>4 DEF Staged, Known, At, me
  <2>2. CASE \E p : Becomes(c, Ended(me, "ok", "AlreadyRunning", p))
    BY <1>1, <1>2, <2>1, <2>2, ContractEnded DEF Contract!Next, Contract!Succeed, me
  <2>3. CASE \E p : Becomes(c, [me EXCEPT !.pc = "adopt", !.pid = p])
    <3>1. PICK p : Becomes(c, [me EXCEPT !.pc = "adopt", !.pid = p])
      BY <2>3
    <3> DEFINE you == [me EXCEPT !.pc = "adopt", !.pid = p]
    <3>2. you.stage = me.stage /\ you.result = me.result
      BY <1>1 DEF CallType
    <3> HIDE DEF you
    <3>3. QED
      BY <3>1, <3>2, ContractStutter DEF you, me
  <2>4. QED
    BY <1>4, <2>2, <2>3 DEF Known, me
<1>5. CASE Adopt(c)
  <2>1. me.stage = "Resolving"
    BY <1>1, <1>5 DEF Staged, Adopt, At, me
  <2>2. \E route \in {"AlreadyRunning", "Adopted"} :
          Becomes(c, Ended(Acting(me), "ok", route, me.pid))
    BY <1>5 DEF Adopt, me
  <2>3. QED
    BY <1>1, <1>2, <2>1, <2>2, ContractEnded DEF Contract!Next, Contract!Succeed, me
<1>6. CASE Resolve(c)
  <2>1. me.stage = "Resolving"
    BY <1>1, <1>6 DEF Staged, Resolve, At, me
  <2>2. CASE Becomes(c, Failed(me, "NotFound"))
    <3>1. Contract!Finish(c, "Error", "NotFound")
      BY <1>1, <1>2, <2>2, ContractFailed DEF Errors, me
    <3>2. QED
      BY <1>1, <2>1, <3>1 DEF Contract!Next, Contract!GiveUp
  <2>3. CASE Becomes(c, [me EXCEPT !.pc = "spawn", !.stage = "ColdStart"])
    <3> DEFINE you == [me EXCEPT !.pc = "spawn", !.stage = "ColdStart"]
    <3>1. you.stage = "ColdStart" /\ you.result = "none"
      BY <1>1, <1>2 DEF CallType
    <3> HIDE DEF you
    <3>2. Contract!Report(c, "ColdStart")
      BY <1>2, <2>3, <3>1, ContractReport DEF you, me
    <3>3. QED
      BY <1>1, <2>1, <3>2 DEF Contract!Next, Contract!TakeRoute, me
  <2>4. CASE \E p : Becomes(c, [me EXCEPT !.pc = "handoff", !.pid = p])
    <3>1. PICK p : Becomes(c, [me EXCEPT !.pc = "handoff", !.pid = p])
      BY <2>4
    <3> DEFINE you == [me EXCEPT !.pc = "handoff", !.pid = p]
    <3>2. you.stage = me.stage /\ you.result = me.result
      BY <1>1 DEF CallType
    <3> HIDE DEF you
    <3>3. QED
      BY <3>1, <3>2, ContractStutter DEF you, me
  <2>5. QED
    BY <1>6, <2>2, <2>3, <2>4 DEF Resolve, me
<1>7. CASE HandOff(c)
  <2>1. me.stage = "Resolving"
    BY <1>1, <1>7 DEF Staged, HandOff, At, me
  <2>2. CASE Becomes(c, Failed(me, "Unreachable"))
    <3>1. Contract!Finish(c, "Error", "Unreachable")
      BY <1>1, <1>2, <2>2, ContractFailed DEF Errors, me
    <3>2. QED
      BY <1>1, <2>1, <3>1 DEF Contract!Next, Contract!GiveUp
  <2> DEFINE you == [me EXCEPT !.pc = "pass", !.stage = "HandingOff", !.route = "ExistingClient"]
  <2>3. CASE Becomes(c, you)
    <3>1. you.stage = "HandingOff" /\ you.result = "none"
      BY <1>1, <1>2 DEF CallType
    <3> HIDE DEF you
    <3>2. Contract!Report(c, "HandingOff")
      BY <1>2, <2>3, <3>1, ContractReport DEF me
    <3>3. QED
      BY <1>1, <2>1, <3>2 DEF Contract!Next, Contract!TakeRoute, me
  <2>4. QED
    BY <1>7, <2>2, <2>3 DEF HandOff, me
<1>8. CASE ColdStart(c)
  <2>1. me.stage = "ColdStart" /\ "ColdStart" \in Contract!Waiting
    BY <1>1, <1>8 DEF Staged, ColdStart, At, me, Contract!Waiting
  <2>2. ASSUME NEW e \in {"SpawnFailed", "Unreachable"}, Becomes(c, Failed(Acting(me), e))
        PROVE  Contract!Next
    <3>1. Contract!Finish(c, "Error", e)
      BY <1>1, <1>2, <2>2, ContractFailed DEF Errors, me
    <3>2. QED
      BY <1>1, <2>1, <2>2, <3>1 DEF Contract!Next, Contract!GiveUp
  <2>3. CASE \E p : Becomes(c, [Acting(me) EXCEPT !.pc = "pass", !.pid = p, !.route = "ColdStart"])
    <3>1. PICK p : Becomes(c, [Acting(me) EXCEPT !.pc = "pass", !.pid = p, !.route = "ColdStart"])
      BY <2>3
    <3> DEFINE acted == Acting(me)
               you == [acted EXCEPT !.pc = "pass", !.pid = p, !.route = "ColdStart"]
    <3>2. acted \in CallType /\ acted.stage = me.stage /\ acted.result = me.result
      BY <1>1, ActingFields
    <3> HIDE DEF acted
    <3>3. you.stage = me.stage /\ you.result = me.result
      BY <3>2 DEF CallType
    <3> HIDE DEF you
    <3>4. QED
      BY <3>1, <3>3, ContractStutter DEF you, acted, me
  <2>4. QED
    BY <1>8, <2>2, <2>3 DEF ColdStart, me
<1>9. QED
  BY <1>3, <1>4, <1>5, <1>6, <1>7, <1>8

\* The steps of the wait are the contract's or stutters.
LEMMA ContractWait ==
  ASSUME TypeOK, CallInv, NEW c \in Calls,
         Pass(c) \/ Probe(c) \/ ReadPid(c) \/ Post(c) \/ Wake(c) \/ Deadline(c)
  PROVE  Contract!Next \/ UNCHANGED Contract!vars
<1> DEFINE me == call[c]
           stage == [d \in Calls |-> call[d].stage]
<1>1. /\ me \in CallType /\ Acting(me) \in CallType /\ Staged(me) /\ stage[c] = me.stage
      /\ me.pc \in InWait
  BY ActingType
     DEF TypeOK, CallInv, Sound, Pass, Probe, ReadPid, Post, Wake, Deadline, At, InWait
<1> HIDE DEF me
<1>2. /\ me.result = "none" /\ me.stage \in Contract!Waiting
      /\ me.route \notin {"AlreadyRunning", "Adopted"}
  BY <1>1 DEF Staged, InWait, Contract!Waiting
\* The ways a step of the wait can leave the record its caller sees.
<1>3. ASSUME NEW you \in CallType, NEW e \in {"Stopped", "Refused", "Unreachable"},
             Becomes(c, Failed(you, e))
      PROVE  Contract!Next
  <2>1. Contract!Finish(c, IF e = "Stopped" THEN "Stopped" ELSE "Error", e)
    BY <1>2, <1>3, ContractFailed DEF Errors, me
  <2>2. QED
    BY <1>1, <1>2, <2>1 DEF Contract!Next, Contract!GiveUp, Contract!Cancel
<1>4. ASSUME NEW you \in CallType, NEW p, Becomes(c, Ended(you, "ok", me.route, p)),
             you.asked \/ game
      PROVE  Contract!Next
  <2>1. Contract!Finish(c, "Launched", "ok")
    BY <1>2, <1>4, ContractEnded DEF me
  <2>2. you.asked => [d \in Calls |-> call'[d].asked][c]
    <3>1. Ended(you, "ok", me.route, p).asked = you.asked
      BY DEF Ended, CallType
    <3>2. call'[c] = Ended(you, "ok", me.route, p)
      BY <1>4 DEF TypeOK, Becomes
    <3>3. QED
      BY <3>1, <3>2
  <2>3. QED
    BY <1>1, <1>2, <1>4, <2>1, <2>2 DEF Contract!Next, Contract!Succeed
<1>5. ASSUME NEW you, Becomes(c, you), you.result = me.result, you.stage = me.stage
      PROVE  UNCHANGED Contract!vars
  BY <1>5, ContractStutter DEF me
<1>6. ASSUME NEW you, Becomes(c, you), you.result = me.result,
             you.stage \in {"WakingClient", "WaitingForClient"}
      PROVE  Contract!Next
  <2>1. Contract!Report(c, you.stage)
    BY <1>2, <1>6, ContractReport DEF me
  <2>2. QED
    BY <1>1, <1>2, <1>6, <2>1 DEF Contract!Next, Contract!Wait
<1>7. CASE Pass(c)
  <2>1. [me EXCEPT !.pc = "probe"].result = me.result
        /\ [me EXCEPT !.pc = "probe"].stage = me.stage
    BY <1>1 DEF CallType
  <2>2. ASSUME NEW d \in 0..ProbeTime, game,
               Becomes(c, Ended(Later(me, d), "ok", me.route, me.pid))
        PROVE  Contract!Next
    <3>1. Later(me, d) \in CallType
      BY <1>1, LaterFields, TimeAssumption
    <3>2. QED
      BY <1>4, <2>2, <3>1
  <2>3. GameScan \subseteq {game, FALSE}
    BY DEF GameScan
  <2>4. \/ Becomes(c, Failed(me, "Stopped"))
        \/ Becomes(c, [me EXCEPT !.pc = "probe"])
        \/ \E d \in 0..ProbeTime :
             game /\ Becomes(c, Ended(Later(me, d), "ok", me.route, me.pid))
    BY <1>7, <2>3 DEF Pass, me
  <2>5. QED
    BY <1>1, <1>3, <1>5, <2>1, <2>2, <2>4
<1>8. CASE Probe(c)
  <2>1. PICK r \in PendingReplies, d \in 0..ProbeTime :
          Becomes(c, AfterProbe(Later(me, d), ReadinessOf(r)))
    BY <1>8 DEF Probe, me
  <2> DEFINE now == Later(me, d)
  <2>2. now \in CallType /\ now.result = me.result /\ now.stage = me.stage
    BY <1>1, LaterFields, TimeAssumption
  <2> HIDE DEF now
  <2> DEFINE you == AfterProbe(now, ReadinessOf(r))
  <2>3. you.result = me.result /\ you.stage \in {me.stage, "WakingClient"}
    BY <2>2 DEF AfterProbe, CallType
  <2> HIDE DEF you
  <2>4. Becomes(c, you)
    BY <2>1 DEF you, now
  <2>5. QED
    BY <1>5, <1>6, <2>3, <2>4
<1>13. CASE ReadPid(c)
  <2>1. PICK p : Becomes(c, [me EXCEPT !.pc = "post", !.now = p])
    BY <1>13 DEF ReadPid, me
  <2> DEFINE you == [me EXCEPT !.pc = "post", !.now = p]
  <2>2. you.result = me.result /\ you.stage = me.stage
    BY <1>1 DEF CallType
  <2> HIDE DEF you
  <2>3. QED
    BY <1>5, <2>1, <2>2 DEF you
<1>9. CASE Post(c)
  <2>1. PICK x \in LaunchReplies, d \in 0..PostTime :
          Becomes(c, AfterPost(Sent(Later(Acting(me), d), x.taken), AttemptOf(x.reply)))
    BY <1>9 DEF Post, me
  <2> DEFINE acted == Acting(me)
             later == Later(acted, d)
             sent == Sent(later, x.taken)
  <2>2. d \in Nat /\ x.taken \in BOOLEAN
    BY RepliesType, TimeAssumption
  <2>3. /\ acted \in CallType /\ acted.result = me.result /\ acted.stage = me.stage
        /\ acted.route = me.route
    BY <1>1, ActingFields
  <2> HIDE DEF acted
  <2>4. /\ later \in CallType /\ later.result = me.result /\ later.stage = me.stage
        /\ later.route = me.route
    BY <2>2, <2>3, LaterFields
  <2> HIDE DEF later
  <2>5. /\ sent \in CallType /\ sent.result = me.result /\ sent.stage = me.stage
        /\ sent.route = me.route /\ (x.taken => sent.asked)
    BY <2>2, <2>4, SentFields
  <2> HIDE DEF sent
  <2>6. Becomes(c, AfterPost(sent, AttemptOf(x.reply)))
    BY <2>1 DEF sent, later, acted
  <2> DEFINE what == AttemptOf(x.reply)
  <2> HIDE DEF what
  <2>7. CASE what = "Launched"
    <3>1. x.taken
      BY <2>7, RepliesType DEF what
    <3>2. QED
      BY <1>4, <2>5, <2>6, <2>7, <3>1 DEF AfterPost, what
  <2>8. CASE what = "Unreachable"
    BY <1>3, <2>5, <2>6, <2>8 DEF AfterPost, what
  <2>9. CASE what = "Refused"
    <3> DEFINE since == IF sent.refusedSince = Never THEN sent.elapsed ELSE sent.refusedSince
               noted == [sent EXCEPT !.refusedSince = since]
    <3>1. noted \in CallType /\ noted.result = me.result /\ noted.stage = me.stage
      <4>1. since \in Times
        BY <2>5 DEF CallType, Times
      <4> HIDE DEF since
      <4>2. QED
        BY <2>5, <4>1 DEF CallType
    <3>2. Becomes(c, AfterRefusal(sent))
      BY <2>6, <2>9 DEF AfterPost, what
    <3>3. \/ Becomes(c, Failed(noted, "Refused"))
          \/ Becomes(c, [noted EXCEPT !.pc = "deadline"])
      BY <3>2 DEF AfterRefusal
    <3> HIDE DEF noted
    <3>4. /\ [noted EXCEPT !.pc = "deadline"].result = me.result
          /\ [noted EXCEPT !.pc = "deadline"].stage = me.stage
      BY <3>1 DEF CallType
    <3>5. QED
      BY <1>3, <1>5, <3>1, <3>3, <3>4
  <2>10. CASE what \notin {"Launched", "Unreachable", "Refused"}
    <3>1. Becomes(c, [sent EXCEPT !.pc = "deadline"])
      BY <2>6, <2>10 DEF AfterPost, what
    <3>2. /\ [sent EXCEPT !.pc = "deadline"].result = me.result
          /\ [sent EXCEPT !.pc = "deadline"].stage = me.stage
      BY <2>5 DEF CallType
    <3>3. QED
      BY <1>5, <3>1, <3>2
  <2>11. QED
    BY <2>7, <2>8, <2>9, <2>10
<1>10. CASE Wake(c)
  <2>1. PICK d, r :
          d \in 0..WakeTime /\ Becomes(c, AfterWake(Later(Acting(me), d), r))
    BY <1>10 DEF Wake, me
  <2> DEFINE acted == Acting(me)
             now == Later(acted, d)
             you == AfterWake(now, r)
  <2>2. acted \in CallType /\ acted.result = me.result /\ acted.stage = me.stage
    BY <1>1, ActingFields
  <2> HIDE DEF acted
  <2>3. now \in CallType /\ now.result = me.result /\ now.stage = me.stage
    BY <2>1, <2>2, LaterFields, TimeAssumption
  <2> HIDE DEF now
  <2>4. you.result = me.result /\ you.stage = me.stage
    BY <2>3 DEF AfterWake, CallType
  <2>5. QED
    BY <1>5, <2>1, <2>4 DEF now, acted
<1>11. CASE Deadline(c)
  <2> DEFINE you == [me EXCEPT !.pc = "pass", !.stage = "WaitingForClient",
                               !.now = NoPid, !.elapsed = @ + PollInterval]
  <2>1. you.result = me.result /\ you.stage = "WaitingForClient"
    BY <1>1 DEF CallType
  <2>2. Becomes(c, Failed(me, "Unreachable")) \/ Becomes(c, you)
    BY <1>11 DEF Deadline, me
  <2> HIDE DEF you
  <2>3. QED
    BY <1>1, <1>3, <1>6, <2>1, <2>2
<1>12. QED
  BY <1>7, <1>8, <1>9, <1>10, <1>11, <1>13

(***************************************************************************)
(* Whatever the machine, the replies and the timing do, the observer and   *)
(* the caller of launch_with_stop see what LaunchContract promises: one    *)
(* terminal stage, last, which agrees with the result; Launched only out   *)
(* of a wait, with a launch of the call's own taken or the game up.        *)
(***************************************************************************)
THEOREM ContractIsKept == Spec => KeepsContract
<1>1. Init => Contract!Init
  BY DEF Init, NewCall, Contract!Init
<1>2. TypeOK /\ CallInv /\ [Next]_vars => [Contract!Next]_(Contract!vars)
  <2> SUFFICES ASSUME TypeOK, CallInv, [Next]_vars
               PROVE  Contract!Next \/ UNCHANGED Contract!vars
    BY Zenon
  <2>1. CASE UNCHANGED call
    BY <2>1 DEF Contract!vars
  <2>2. ASSUME NEW c \in Calls, Stop(c) PROVE UNCHANGED Contract!vars
    <3> DEFINE you == [call[c] EXCEPT !.stop = TRUE]
    <3>1. you.stage = call[c].stage /\ you.result = call[c].result
      BY DEF TypeOK, CallType
    <3>2. QED
      BY <2>2, <3>1, ContractStutter DEF Stop
  <2>3. ASSUME NEW c \in Calls, Step(c) PROVE Contract!Next \/ UNCHANGED Contract!vars
    BY <2>3, ContractBefore, ContractWait DEF Step
  <2>4. QED
    BY <2>1, <2>2, <2>3 DEF Next, vars
<1>3. QED
  BY <1>1, <1>2, TypeCorrect, CallInvHolds, PTL DEF Spec, KeepsContract, Contract!Spec

----------------------------------------------------------------------------
(***************************************************************************)
(* No second launch is queued, for one call on a machine on which nobody   *)
(* else launches and a launch in flight is reported until the game is up.  *)
(* A call about to POST was told that nothing is pending; what it was told *)
(* cannot have changed since, because only its own POST changes it.        *)
(***************************************************************************)
OneCall == \A c, d \in Calls : c = d

HonestMachine == Outside \cap {"play", "hidden", "odd"} = {}

Clear ==
  /\ rc.launching # "hidden"
  /\ \A c \in Calls : call[c].pc \in {"pid", "post"} => rc.launching = "no"
  /\ NoQueuedLaunch

\* Only a client that serves, with nothing in flight it reports, reads as serving.
LEMMA ServingMeansClear ==
  ASSUME TypeOK, HonestMachine, NEW r \in PendingReplies, ReadinessOf(r) = "Serving",
         rc.launching # "hidden"
  PROVE  rc.launching = "no"
<1>1. CASE ~Locked
  BY <1>1 DEF PendingReplies, NoReply, Answer, ReadinessOf
<1>2. CASE Locked /\ rc.state # "serving"
  <2>1. r \in {NoReply, Answer("404", "rpcError"), Answer("5xx", "other"), Answer("404", "notFound")}
    BY <1>2 DEF PendingReplies, UnservedReplies
  <2>2. QED
    BY <2>1 DEF NoReply, Answer, ReadinessOf, Presence
<1>3. CASE Locked /\ rc.state = "serving"
  <2>1. r \in {NoReply, Answer("5xx", "other"),
               Answer("2xx", IF rc.launching = "reported" THEN "true" ELSE "false")}
    BY <1>3 DEF PendingReplies, HonestMachine, On
  <2>2. r # NoReply /\ r # Answer("5xx", "other")
    BY DEF NoReply, Answer, ReadinessOf, Presence
  <2>3. rc.launching # "reported"
    BY <2>1, <2>2 DEF Answer, ReadinessOf, Presence
  <2>4. QED
    BY <2>3 DEF TypeOK, ClientType
<1>4. QED
  BY <1>1, <1>2, <1>3

\* A call that has ended or failed is done, with its result.
LEMMA EndedPlace ==
  ASSUME NEW me \in CallType
  PROVE  /\ \A e : Failed(me, e).pc = "done" /\ Failed(me, e).result = e
         /\ \A r, route, p : Ended(me, r, route, p).pc = "done" /\ Ended(me, r, route, p).result = r
  BY DEF Failed, Ended, CallType

\* A call does not POST again before its next pass.
LEMMA AfterPostPlace ==
  ASSUME NEW me \in CallType, NEW what
  PROVE  AfterPost(me, what).pc \notin {"pid", "post"}
<1> DEFINE since == IF me.refusedSince = Never THEN me.elapsed ELSE me.refusedSince
           noted == [me EXCEPT !.refusedSince = since]
<1>1. noted \in CallType
  BY DEF CallType, Times
<1> HIDE DEF noted
<1>2. Failed(noted, "Refused").pc = "done" /\ [noted EXCEPT !.pc = "deadline"].pc = "deadline"
  BY <1>1, EndedPlace DEF CallType
<1>3. AfterRefusal(me).pc \notin {"pid", "post"}
  BY <1>2 DEF AfterRefusal, noted
<1>4. [me EXCEPT !.pc = "deadline"].pc = "deadline"
  BY DEF CallType
<1>5. QED
  BY <1>3, <1>4, EndedPlace DEF AfterPost

\* The call that is replaced is what it becomes.
LEMMA BecomesPlace ==
  ASSUME TypeOK, NEW c \in Calls, NEW me, Becomes(c, me)
  PROVE  call'[c] = me
  BY DEF TypeOK, Becomes

\* A POST leaves the place where it was sent from.
LEMMA PostLeaves ==
  ASSUME TypeOK, NEW c \in Calls, Post(c)
  PROVE  call'[c].pc \notin {"pid", "post"}
<1> DEFINE me == call[c]
<1>1. PICK x \in LaunchReplies, d \in 0..PostTime :
        Becomes(c, AfterPost(Sent(Later(Acting(me), d), x.taken), AttemptOf(x.reply)))
  BY DEF Post
<1>2. Sent(Later(Acting(me), d), x.taken) \in CallType
  BY ActingType, LaterFields, SentFields, RepliesType, TimeAssumption DEF TypeOK
<1>3. QED
  BY <1>1, <1>2, AfterPostPlace, BecomesPlace

\* Only a probe sends a call on to read the pid and POST, and only if it read that
\* it may.
LEMMA OnlyProbePosts ==
  ASSUME TypeOK, NEW c \in Calls, Step(c), call'[c].pc \in {"pid", "post"}
  PROVE  ReadPid(c) \/ \E r \in PendingReplies : ReadinessOf(r) = "Serving"
<1> DEFINE me == call[c]
<1>1. me \in CallType /\ Acting(me) \in CallType
  BY ActingType DEF TypeOK
<1> HIDE DEF me
<1>2. /\ \A e : Failed(me, e).pc = "done" /\ Failed(Acting(me), e).pc = "done"
      /\ \A r, route, p : /\ Ended(me, r, route, p).pc = "done"
                          /\ Ended(Acting(me), r, route, p).pc = "done"
  BY <1>1, EndedPlace
<1>3. CASE Start(c) \/ Known(c) \/ Adopt(c) \/ Resolve(c) \/ HandOff(c)
  <2>1. /\ \A pc : [me EXCEPT !.pc = pc, !.stage = "Resolving"].pc = pc
        /\ \A p : [me EXCEPT !.pc = "adopt", !.pid = p].pc = "adopt"
        /\ \A p : [me EXCEPT !.pc = "handoff", !.pid = p].pc = "handoff"
        /\ [me EXCEPT !.pc = "spawn", !.stage = "ColdStart"].pc = "spawn"
        /\ [me EXCEPT !.pc = "pass", !.stage = "HandingOff", !.route = "ExistingClient"].pc = "pass"
    BY <1>1 DEF CallType
  <2>2. \A you : Becomes(c, you) => you.pc \in {"pid", "post"}
    BY BecomesPlace
  <2>3. ~Start(c)
    <3>1. Start(c) =>
            \/ Becomes(c, Failed(me, "Stopped"))
            \/ \E pc \in {"known", "resolve"} :
                 Becomes(c, [me EXCEPT !.pc = pc, !.stage = "Resolving"])
      BY DEF Start, me
    <3>2. QED
      BY <1>2, <2>1, <2>2, <3>1
  <2>4. ~Known(c)
    BY <1>2, <2>1, <2>2 DEF Known, me
  <2>5. ~Adopt(c)
    BY <1>2, <2>2 DEF Adopt, me
  <2>6. ~Resolve(c)
    BY <1>2, <2>1, <2>2 DEF Resolve, me
  <2>7. ~HandOff(c)
    BY <1>2, <2>1, <2>2 DEF HandOff, me
  <2>8. QED
    BY <1>3, <2>3, <2>4, <2>5, <2>6, <2>7
<1>4. CASE ColdStart(c)
  <2>1. \A acted \in CallType : \A p :
          [acted EXCEPT !.pc = "pass", !.pid = p, !.route = "ColdStart"].pc = "pass"
    BY DEF CallType
  <2>2. \E you : Becomes(c, you) /\ you.pc \notin {"pid", "post"}
    BY <1>1, <1>2, <1>4, <2>1 DEF ColdStart, me
  <2>3. QED
    BY <2>2, BecomesPlace
<1>5. CASE Pass(c) \/ Deadline(c)
  <2> DEFINE again == [me EXCEPT !.pc = "pass", !.stage = "WaitingForClient",
                                 !.now = NoPid, !.elapsed = @ + PollInterval]
             on == [me EXCEPT !.pc = "probe"]
  <2>1. on.pc = "probe" /\ again.pc = "pass"
    BY <1>1 DEF CallType
  <2>2. ASSUME Pass(c) PROVE \E you : Becomes(c, you) /\ you.pc \notin {"pid", "post"}
    <3>1. \A d \in 0..ProbeTime : Later(me, d) \in CallType
      BY <1>1, LaterFields, TimeAssumption
    <3>2. \/ Becomes(c, Failed(me, "Stopped")) \/ Becomes(c, on)
          \/ \E d \in 0..ProbeTime : Becomes(c, Ended(Later(me, d), "ok", me.route, me.pid))
      BY <2>2 DEF Pass, me
    <3> HIDE DEF on
    <3>3. QED
      BY <1>2, <2>1, <3>1, <3>2, EndedPlace
  <2>3. ASSUME Deadline(c) PROVE \E you : Becomes(c, you) /\ you.pc \notin {"pid", "post"}
    <3>1. Becomes(c, Failed(me, "Unreachable")) \/ Becomes(c, again)
      BY <2>3 DEF Deadline, me
    <3> HIDE DEF again
    <3>2. QED
      BY <1>2, <2>1, <3>1
  <2>4. QED
    BY <1>5, <2>2, <2>3, BecomesPlace
<1>6. CASE Probe(c)
  <2>1. PICK r \in PendingReplies, d \in 0..ProbeTime :
          Becomes(c, AfterProbe(Later(me, d), ReadinessOf(r)))
    BY <1>6 DEF Probe, me
  <2> DEFINE now == Later(me, d)
  <2>2. now \in CallType
    BY <1>1, LaterFields, TimeAssumption
  <2> HIDE DEF now
  <2>3. AfterProbe(now, ReadinessOf(r)).pc \in {"pid", "post"}
    BY <2>1, BecomesPlace DEF now
  <2>4. ReadinessOf(r) = "Serving"
    BY <2>2, <2>3 DEF AfterProbe, CallType
  <2>5. QED
    BY <2>4
<1>7. CASE Post(c)
  BY <1>7, PostLeaves
<1>8. CASE Wake(c)
  <2>1. PICK d, r :
          d \in 0..WakeTime /\ At(c, "wake") /\ Becomes(c, AfterWake(Later(Acting(me), d), r))
    BY <1>8 DEF Wake, me
  <2> DEFINE acted == Acting(me)
             now == Later(acted, d)
  <2>2. acted \in CallType /\ acted.pc = "wake"
    BY <1>1, <2>1, ActingFields DEF At, me
  <2> HIDE DEF acted
  <2>3. now \in CallType /\ now.pc = "wake"
    <3>1. d \in Nat
      BY <2>1, TimeAssumption
    <3>2. QED
      BY <2>2, <3>1, LaterFields
  <2> HIDE DEF now
  <2>4. AfterWake(now, r).pc \in {"wake", "deadline"}
    BY <2>3 DEF AfterWake, CallType
  <2>5. QED
    BY <2>1, <2>4, BecomesPlace DEF now, acted
<1>9. QED
  BY <1>3, <1>4, <1>5, <1>6, <1>7, <1>8 DEF Step

\* With one call and an honest machine, nothing is in flight before a POST.
LEMMA ClearInductive ==
  ASSUME OneCall, HonestMachine
  PROVE  TypeOK /\ Clear /\ [Next]_vars => Clear'
<1> SUFFICES ASSUME TypeOK, Clear, [Next]_vars PROVE Clear'
  OBVIOUS
<1>1. CASE UNCHANGED vars
  BY <1>1 DEF vars, Clear, At, NoQueuedLaunch
<1>2. CASE Machine /\ UNCHANGED <<call, queued>>
  <2>1. rc.launching = "no" => rc'.launching = "no"
    BY <1>2 DEF TypeOK, ClientType, HonestMachine, On, Machine, Boot, PlayerOpensClient,
       WritesLockfile, StartsServing, GoesToTray, ClientExits, PlayerPlays, DropsLaunch,
       StopsReporting, GameStarts, GameRunsUnknown, GameExits
  <2>2. rc'.launching # "hidden"
    BY <1>2 DEF Clear, TypeOK, ClientType, HonestMachine, On, Machine, Boot, PlayerOpensClient,
       WritesLockfile, StartsServing, GoesToTray, ClientExits, PlayerPlays, DropsLaunch,
       StopsReporting, GameStarts, GameRunsUnknown, GameExits
  <2>3. QED
    BY <1>2, <2>1, <2>2 DEF Clear, At, NoQueuedLaunch
<1>3. ASSUME NEW c \in Calls, Stop(c) PROVE Clear'
  <2>1. call'[c].pc = call[c].pc
    BY <1>3, BecomesPlace DEF Stop, TypeOK, CallType
  <2>2. \A d \in Calls : d = c
    BY DEF OneCall
  <2>3. QED
    BY <1>3, <2>1, <2>2 DEF Stop, Clear, At, NoQueuedLaunch
<1>4. ASSUME NEW c \in Calls, Step(c) PROVE Clear'
  <2>1. \A d \in Calls : d = c
    BY DEF OneCall
  <2>2. rc'.launching # "hidden"
    BY <1>4 DEF Step, Start, Known, Adopt, Resolve, HandOff, ColdStart, Pass, Probe, ReadPid,
       Post, Wake, Deadline, Spawned, Boot, Clear, TypeOK, ClientType
  <2>3. call'[c].pc \in {"pid", "post"} => rc'.launching = "no"
    <3> SUFFICES ASSUME call'[c].pc \in {"pid", "post"} PROVE rc'.launching = "no"
      OBVIOUS
    <3>1. rc.launching = "no"
      <4>1. ReadPid(c) => rc.launching = "no"
        BY DEF ReadPid, At, Clear
      <4>2. QED
        BY <1>4, <4>1, OnlyProbePosts, ServingMeansClear DEF Clear
    <3>2. CASE Post(c)
      BY <3>2, PostLeaves
    <3>3. CASE ~Post(c)
      BY <1>4, <3>1, <3>3 DEF Step, Start, Known, Adopt, Resolve, HandOff, ColdStart, Pass,
         Probe, ReadPid, Wake, Deadline, Spawned, Boot, TypeOK, ClientType
    <3>4. QED
      BY <3>2, <3>3
  <2>4. NoQueuedLaunch'
    <3>1. CASE Post(c)
      <4>1. rc.launching = "no"
        BY <3>1 DEF Post, At, Clear
      <4>2. PICK x : queued' = (queued \/ (x.taken /\ rc.launching # "no"))
        BY <3>1 DEF Post
      <4>3. QED
        BY <4>1, <4>2 DEF Clear, NoQueuedLaunch
    <3>2. CASE UNCHANGED queued
      BY <3>2 DEF Clear, NoQueuedLaunch
    <3>3. QED
      BY <1>4, <3>1, <3>2 DEF Step, Start, Known, Adopt, Resolve, HandOff, ColdStart, Pass,
         Probe, ReadPid, Wake, Deadline
  <2>5. QED
    BY <2>1, <2>2, <2>3, <2>4 DEF Clear, At
<1>5. QED
  BY <1>1, <1>2, <1>3, <1>4 DEF Next

(***************************************************************************)
(* With one call, and a client that nobody else makes launch and that      *)
(* reports its launch until the game is up, no launch is ever queued       *)
(* behind another, whichever replies are lost (NoQueuedLaunch).            *)
(***************************************************************************)
THEOREM NothingIsQueued ==
  ASSUME OneCall, HonestMachine
  PROVE  Spec => []NoQueuedLaunch
<1>1. Init => Clear
  BY DEF Init, MachineInit, NewCall, Clear, At, NoQueuedLaunch
<1>2. TypeOK /\ Clear /\ [Next]_vars => Clear'
  BY ClearInductive
<1>3. Clear => NoQueuedLaunch
  BY DEF Clear
<1>4. QED
  BY <1>1, <1>2, <1>3, TypeCorrect, PTL DEF Spec

\* A refusal is returned by a POST only.
LEMMA OnlyPostRefuses ==
  ASSUME TypeOK, NEW c \in Calls, Step(c), call[c].result # "Refused",
         call'[c].result = "Refused"
  PROVE  At(c, "post")
<1> DEFINE me == call[c]
<1>1. /\ me \in CallType /\ Acting(me) \in CallType
      /\ me.result # "Refused" /\ Acting(me).result # "Refused"
  BY ActingFields DEF TypeOK
<1> HIDE DEF me
<1>2. \A you : Becomes(c, you) => you.result = "Refused"
  BY BecomesPlace
<1>3. /\ \A e : Failed(me, e).result = e /\ Failed(Acting(me), e).result = e
      /\ \A r, route, p : /\ Ended(me, r, route, p).result = r
                          /\ Ended(Acting(me), r, route, p).result = r
  BY <1>1, EndedPlace
<1>4. ~Start(c)
  <2>1. ASSUME NEW pc, Becomes(c, [me EXCEPT !.pc = pc, !.stage = "Resolving"]) PROVE FALSE
    <3> DEFINE you == [me EXCEPT !.pc = pc, !.stage = "Resolving"]
    <3>1. Becomes(c, you) /\ you.result = me.result
      BY <1>1, <2>1 DEF CallType
    <3> HIDE DEF you
    <3>2. QED
      BY <1>1, <1>2, <2>1, <3>1
  <2>2. Start(c) =>
          \/ Becomes(c, Failed(me, "Stopped"))
          \/ \E pc \in {"known", "resolve"} :
               Becomes(c, [me EXCEPT !.pc = pc, !.stage = "Resolving"])
    BY DEF Start, me
  <2>3. QED
    BY <1>2, <1>3, <2>1, <2>2
<1>5. ~Known(c)
  <2>1. ASSUME NEW p, Becomes(c, [me EXCEPT !.pc = "adopt", !.pid = p]) PROVE FALSE
    <3> DEFINE you == [me EXCEPT !.pc = "adopt", !.pid = p]
    <3>1. Becomes(c, you) /\ you.result = me.result
      BY <1>1, <2>1 DEF CallType
    <3> HIDE DEF you
    <3>2. QED
      BY <1>1, <1>2, <2>1, <3>1
  <2>2. QED
    <3>1. Known(c) => \E p :
            \/ Becomes(c, Ended(me, "ok", "AlreadyRunning", p))
            \/ Becomes(c, [me EXCEPT !.pc = "adopt", !.pid = p])
      BY DEF Known, me
    <3>2. \A p : ~Becomes(c, Ended(me, "ok", "AlreadyRunning", p))
      BY <1>2, <1>3
    <3>3. QED
      BY <2>1, <3>1, <3>2
<1>6. ~Adopt(c)
  BY <1>2, <1>3 DEF Adopt, me
<1>7. ~Resolve(c)
  <2>1. ASSUME NEW p, Becomes(c, [me EXCEPT !.pc = "handoff", !.pid = p]) PROVE FALSE
    <3> DEFINE you == [me EXCEPT !.pc = "handoff", !.pid = p]
    <3>1. Becomes(c, you) /\ you.result = me.result
      BY <1>1, <2>1 DEF CallType
    <3> HIDE DEF you
    <3>2. QED
      BY <1>1, <1>2, <2>1, <3>1
  <2>2. ASSUME Becomes(c, [me EXCEPT !.pc = "spawn", !.stage = "ColdStart"]) PROVE FALSE
    <3> DEFINE you == [me EXCEPT !.pc = "spawn", !.stage = "ColdStart"]
    <3>1. Becomes(c, you) /\ you.result = me.result
      BY <1>1, <2>2 DEF CallType
    <3> HIDE DEF you
    <3>2. QED
      BY <1>1, <1>2, <2>2, <3>1
  <2>3. QED
    BY <1>2, <1>3, <2>1, <2>2 DEF Resolve, me
<1>8. ~HandOff(c)
  <2>1. ASSUME Becomes(c, [me EXCEPT !.pc = "pass", !.stage = "HandingOff", !.route = "ExistingClient"]) PROVE FALSE
    <3> DEFINE you == [me EXCEPT !.pc = "pass", !.stage = "HandingOff", !.route = "ExistingClient"]
    <3>1. Becomes(c, you) /\ you.result = me.result
      BY <1>1, <2>1 DEF CallType
    <3> HIDE DEF you
    <3>2. QED
      BY <1>1, <1>2, <2>1, <3>1
  <2>2. QED
    BY <1>2, <1>3, <2>1 DEF HandOff, me
<1>9. ~ColdStart(c)
  <2>1. ASSUME NEW acted \in CallType, acted.result # "Refused", NEW p,
               Becomes(c, [acted EXCEPT !.pc = "pass", !.pid = p, !.route = "ColdStart"])
        PROVE  FALSE
    <3> DEFINE you == [acted EXCEPT !.pc = "pass", !.pid = p, !.route = "ColdStart"]
    <3>1. Becomes(c, you) /\ you.result = acted.result
      BY <1>1, <2>1 DEF CallType
    <3> HIDE DEF you
    <3>2. QED
      BY <1>1, <1>2, <2>1, <3>1
  <2>2. QED
    BY <1>1, <1>2, <1>3, <2>1 DEF ColdStart, me
<1>10. ~Pass(c)
  <2>1. ASSUME Becomes(c, [me EXCEPT !.pc = "probe"]) PROVE FALSE
    <3> DEFINE you == [me EXCEPT !.pc = "probe"]
    <3>1. Becomes(c, you) /\ you.result = me.result
      BY <1>1, <2>1 DEF CallType
    <3> HIDE DEF you
    <3>2. QED
      BY <1>1, <1>2, <2>1, <3>1
  <2>2. \A d \in 0..ProbeTime : \A p : ~Becomes(c, Ended(Later(me, d), "ok", me.route, p))
    BY <1>1, <1>2, EndedPlace, LaterFields, TimeAssumption
  <2>3. QED
    BY <1>2, <1>3, <2>1, <2>2 DEF Pass, me
<1>11. ~Probe(c)
  <2> SUFFICES ASSUME Probe(c) PROVE FALSE
    OBVIOUS
  <2>1. PICK r \in PendingReplies, d \in 0..ProbeTime :
          Becomes(c, AfterProbe(Later(me, d), ReadinessOf(r)))
    BY DEF Probe, me
  <2> DEFINE now == Later(me, d)
  <2>2. now \in CallType /\ now.result = me.result
    BY <1>1, LaterFields, TimeAssumption
  <2> HIDE DEF now
  <2>3. AfterProbe(now, ReadinessOf(r)).result = me.result
    BY <2>2 DEF AfterProbe, CallType
  <2>4. QED
    BY <1>1, <1>2, <2>1, <2>3 DEF now
<1>12. ~Wake(c)
  <2> SUFFICES ASSUME Wake(c) PROVE FALSE
    OBVIOUS
  <2>1. PICK d, r :
          d \in 0..WakeTime /\ Becomes(c, AfterWake(Later(Acting(me), d), r))
    BY DEF Wake, me
  <2> DEFINE acted == Acting(me)
             now == Later(acted, d)
  <2>2. acted \in CallType /\ acted.result # "Refused"
    BY <1>1
  <2> HIDE DEF acted
  <2>3. now \in CallType /\ now.result = acted.result
    BY <2>1, <2>2, LaterFields, TimeAssumption
  <2> HIDE DEF now
  <2>4. AfterWake(now, r).result = acted.result
    BY <2>3 DEF AfterWake, CallType
  <2>5. QED
    BY <1>2, <2>1, <2>2, <2>4 DEF now, acted
<1>13. ~Deadline(c)
  <2> DEFINE again == [me EXCEPT !.pc = "pass", !.stage = "WaitingForClient",
                                 !.now = NoPid, !.elapsed = @ + PollInterval]
  <2>1. again.result = me.result
    BY <1>1 DEF CallType
  <2>2. Deadline(c) => Becomes(c, Failed(me, "Unreachable")) \/ Becomes(c, again)
    BY DEF Deadline, me
  <2> HIDE DEF again
  <2>3. QED
    BY <1>1, <1>2, <1>3, <2>1, <2>2
<1>14. ~ReadPid(c)
  <2>1. ASSUME NEW p, Becomes(c, [me EXCEPT !.pc = "post", !.now = p]) PROVE FALSE
    <3> DEFINE you == [me EXCEPT !.pc = "post", !.now = p]
    <3>1. Becomes(c, you) /\ you.result = me.result
      BY <1>1, <2>1 DEF CallType
    <3> HIDE DEF you
    <3>2. QED
      BY <1>1, <1>2, <3>1
  <2>2. QED
    BY <2>1 DEF ReadPid, me
<1>15. QED
  BY <1>4, <1>5, <1>6, <1>7, <1>8, <1>9, <1>10, <1>11, <1>12, <1>13, <1>14 DEF Step, Post

(***************************************************************************)
(* In the same setting a call returns Refused only with no launch in       *)
(* flight, its own lost ones included (RefusedMeansNothingInFlight).       *)
(***************************************************************************)
THEOREM RefusalIsFinal ==
  ASSUME OneCall, HonestMachine
  PROVE  Spec => RefusedMeansNothingInFlight
<1>1. Init => Clear
  BY DEF Init, MachineInit, NewCall, Clear, At, NoQueuedLaunch
<1>2. TypeOK /\ Clear /\ [Next]_vars => Clear'
  BY ClearInductive
<1>3. TypeOK /\ Clear /\ [Next]_vars =>
        [\A c \in Calls : (call[c].result = "none" /\ call'[c].result = "Refused")
                             => rc.launching = "no"]_vars
  <2> SUFFICES ASSUME TypeOK, Clear, [Next]_vars, NEW c \in Calls,
                      call[c].result = "none", call'[c].result = "Refused"
               PROVE  rc.launching = "no"
    OBVIOUS
  <2>1. CASE UNCHANGED call
    BY <2>1
  <2>2. ASSUME NEW d \in Calls, Stop(d) PROVE FALSE
    <3>1. d = c
      BY DEF OneCall
    <3>2. call'[c].result = call[c].result
      BY <2>2, <3>1, BecomesPlace DEF Stop, TypeOK, CallType
    <3>3. QED
      BY <3>2
  <2>3. ASSUME NEW d \in Calls, Step(d) PROVE rc.launching = "no"
    <3>1. d = c
      BY DEF OneCall
    <3>2. QED
      BY <2>3, <3>1, OnlyPostRefuses DEF Clear, At
  <2>4. QED
    BY <2>1, <2>2, <2>3 DEF Next, vars
<1>4. QED
  BY <1>1, <1>2, <1>3, TypeCorrect, PTL DEF Spec, RefusedMeansNothingInFlight

=============================================================================
