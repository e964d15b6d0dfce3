-------------------------- MODULE EnvironmentProofs -------------------------
(***************************************************************************)
(* Theorems about the environment objects over the router, for any number  *)
(* of agents and concurrent calls and every limit of steps, attempts and   *)
(* lost replies.                                                           *)
(***************************************************************************)
EXTENDS Environment, RouterProofs

\* The objects' own variables.
ObjectTypeOK == env \in [Client -> Env] /\ lost \in 0 .. MaxLost

\* The router is never shut down here.
EnvControl == PoolInv /\ ControlInv /\ serving /\ ~closed /\ ObjectTypeOK

-----------------------------------------------------------------------------
(* The objects' own state.                                                 *)

LEMMA OutcomeTypes ==
  ASSUME NEW e \in Env
  PROVE  /\ AfterError(e) \in Env
         /\ AfterReset(e) \in Env
         /\ AfterRefusal(e) \in Env
         /\ \A early \in BOOLEAN : AfterStep(e, early) \in Env
<1>1. e.attempt \in 0 .. MaxRetries - 1 /\ MaxRetries \in Nat \ {0}
  BY EnvironmentAssumption DEF Env
<1>2. AttemptFailed(e) \in Env
  <2>1. CASE e.attempt < MaxRetries - 1
    <3>1. e.attempt + 1 \in 0 .. MaxRetries - 1
      BY <1>1, <2>1
    <3>2. QED
      BY <2>1, <3>1 DEF AttemptFailed, Env
  <2>2. CASE ~(e.attempt < MaxRetries - 1)
    BY <2>2 DEF AttemptFailed, Env
  <2>3. QED
    BY <2>1, <2>2
<1>3. [e EXCEPT !.pc = "closed"] \in Env /\ [e EXCEPT !.pc = "ready"] \in Env
  BY DEF Env
<1>4. AfterError(e) \in Env
  BY <1>2, <1>3 DEF AfterError
<1>5. AfterReset(e) \in Env
  <2>1. 0 \in 0 .. MAX_STEPS
    BY EnvironmentAssumption
  <2>2. QED
    BY <2>1 DEF AfterReset, Env
<1>6. ASSUME NEW early \in BOOLEAN
      PROVE  AfterStep(e, early) \in Env
  <2>1. [e EXCEPT !.pc = "done", !.done = TRUE] \in Env
    BY DEF Env
  <2>2. QED
    BY <1>3, <2>1 DEF AfterStep
<1>7. QED
  BY <1>3, <1>4, <1>5, <1>6 DEF AfterRefusal

LEMMA NewEnvType == NewEnv \in Env
  BY EnvironmentAssumption DEF NewEnv, Env

\* An object that makes a call, or is renewed.
LEMMA EnvStepType ==
  ASSUME ObjectTypeOK, NEW c \in Client, EnvStep(c)
  PROVE  ObjectTypeOK'
<1>1. env \in [Client -> Env] /\ env[c] \in Env
  BY DEF ObjectTypeOK
<1>2. ASSUME NEW e \in Env, Become(c, e)
      PROVE  ObjectTypeOK'
  BY <1>1, <1>2 DEF Become, ObjectTypeOK
<1>3. ASSUME NEW h \in Handler, Reset(c, h)
      PROVE  ObjectTypeOK'
  <2>1. 0 \in 0 .. MaxRetries - 1
    BY EnvironmentAssumption
  <2>2. [env[c] EXCEPT !.pc = "reset", !.attempt = 0] \in Env
    BY <1>1, <2>1 DEF Env
  <2>3. QED
    BY <1>2, <1>3, <2>2 DEF Reset
<1>4. ASSUME NEW h \in Handler, Step(c, h)
      PROVE  ObjectTypeOK'
  <2>1. env[c].step_count \in 0 .. MAX_STEPS /\ MAX_STEPS \in Nat
    BY <1>1, EnvironmentAssumption DEF Env
  <2> DEFINE n == IF env[c].step_count < MAX_STEPS
                  THEN env[c].step_count + 1 ELSE env[c].step_count
  <2>2. n \in 0 .. MAX_STEPS
    BY <2>1
  <2>3. Become(c, [env[c] EXCEPT !.pc = "step", !.step_count = n])
    BY <1>1, <1>4 DEF Step, Env
  <2> HIDE DEF n
  <2>4. [env[c] EXCEPT !.pc = "step", !.step_count = n] \in Env
    BY <1>1, <2>2 DEF Env
  <2>5. QED
    BY <1>2, <2>3, <2>4
<1>5. ASSUME NEW pc \in {"reset", "done_close", "close", "closed"}
      PROVE  [env[c] EXCEPT !.pc = pc] \in Env
  BY <1>1 DEF Env
<1>6. QED
  BY <1>2, <1>3, <1>4, <1>5, NewEnvType
  DEF EnvStep, Continue, ResetAgain, DoneClose, CloseEnv, CloseUnused, Renew

LEMMA EnvNextType ==
  ASSUME ObjectTypeOK, [EnvNext]_envVars
  PROVE  ObjectTypeOK'
<1>1. env \in [Client -> Env]
  BY DEF ObjectTypeOK
<1>2. CASE UNCHANGED <<env, lost>>
  BY <1>2 DEF ObjectTypeOK
<1>3. ASSUME NEW h \in Handler, Returns(h) \/ ReplyLost(h)
      PROVE  env' \in [Client -> Env]
  <2>1. CASE Resume(h, AfterError)
    BY <1>1, <2>1, OutcomeTypes DEF Resume
  <2>2. CASE Resume(h, AfterReset)
    BY <1>1, <2>2, OutcomeTypes DEF Resume
  <2>3. CASE Resume(h, AfterRefusal)
    BY <1>1, <2>3, OutcomeTypes DEF Resume
  <2>4. ASSUME NEW early \in BOOLEAN, StepAnswered(h, early)
        PROVE  env' \in [Client -> Env]
    <3>1. env' = [c \in Client |->
                    IF c = call[h].caller THEN AfterStep(env[c], early) ELSE env[c]]
      BY <2>4 DEF StepAnswered, Resume
    <3>2. QED
      BY <1>1, <3>1, OutcomeTypes
  <2>5. QED
    BY <1>3, <2>1, <2>2, <2>3, <2>4
    DEF Returns, ReplyLost, ResetSucceeds, ResetRefused, CallEnds
<1>4. ASSUME NEW h \in Handler, Returns(h) \/ ReplyLost(h)
      PROVE  lost' \in 0 .. MaxLost
  BY <1>4, EnvironmentAssumption DEF Returns, ReplyLost, ObjectTypeOK
<1>5. QED
  BY <1>2, <1>3, <1>4, EnvStepType
  DEF EnvNext, envVars, HandlerWorks, RouterStep, ObjectTypeOK

-----------------------------------------------------------------------------
(* The router under the objects.                                           *)

\* An answer without Done and an error leave the router in the same state.
LEMMA StepAnsweredIsError ==
  ASSUME NEW h \in Handler, StepReply(h, FALSE)
  PROVE  StepError(h)
  BY DEF StepReply, StepError

\* What an object does is what a client of the router may do, but for the Close
\* of an episode that is done: the object keeps the session id it has closed.
LEMMA EnvNextRouter ==
  ASSUME ~closed, [EnvNext]_envVars
  PROVE  [Next]_vars \/ \E c \in Client, h \in Handler : DoneClose(c, h)
<1>1. CASE UNCHANGED vars
  BY <1>1
<1>2. ASSUME NEW c \in Client, NEW h \in Handler,
             Reset(c, h) \/ Step(c, h) \/ CloseEnv(c, h) \/ ResetAgain(c, h)
      PROVE  Next
  BY <1>2 DEF Reset, Step, CloseEnv, ResetAgain, Next, ClientStep
<1>3. ASSUME NEW h \in Handler, HandlerWorks(h)
      PROVE  HandlerStep(h)
  BY <1>3 DEF HandlerWorks, HandlerStep
<1>4. ASSUME NEW h \in Handler, Returns(h)
      PROVE  HandlerStep(h)
  <2>1. CASE ResetSucceeds(h) \/ ResetRefused(h)
    BY <2>1 DEF ResetSucceeds, ResetRefused, HandlerStep
  <2>2. ASSUME NEW early \in BOOLEAN, StepAnswered(h, early)
        PROVE  HandlerStep(h)
    BY <2>2, StepAnsweredIsError DEF StepAnswered, HandlerStep
  <2>3. CASE CallEnds(h)
    BY <2>3 DEF CallEnds, HandlerStep
  <2>4. QED
    BY <1>4, <2>1, <2>2, <2>3 DEF Returns
<1>5. ASSUME NEW h \in Handler, ReplyLost(h)
      PROVE  Next
  BY <1>5 DEF ReplyLost, Next
<1>6. CASE RouterStep
  BY <1>6 DEF RouterStep, Next
<1>7. ASSUME NEW h \in Handler, HandlerStep(h)
      PROVE  Next
  BY <1>7 DEF Next
<1>8. QED
  BY <1>1, <1>2, <1>3, <1>4, <1>5, <1>6, <1>7
  DEF EnvNext, EnvStep, Continue, CloseUnused, Renew, envVars

LEMMA EnvNextRuns ==
  ASSUME serving, ~closed, [EnvNext]_envVars
  PROVE  serving' /\ ~closed'
<1>1. ASSUME NEW c \in Client, EnvStep(c)
      PROVE  UNCHANGED <<serving, closed>>
  BY <1>1 DEF EnvStep, Continue, Reset, ResetAgain, Step, DoneClose, CloseEnv,
              CloseUnused, Renew, SendReset, SendStep, SendClose, Send, vars,
              routerVars, poolVars
<1>2. ASSUME NEW h \in Handler, HandlerWorks(h)
      PROVE  UNCHANGED <<serving, closed>>
  BY <1>2 DEF HandlerWorks, ResetLock, ResetTouch, StepFind, StepTouch,
              LockFreeAgent, TouchAgent, poolVars
<1>3. ASSUME NEW h \in Handler, Returns(h) \/ ReplyLost(h)
      PROVE  UNCHANGED <<serving, closed>>
  BY <1>3 DEF Returns, ReplyLost, ResetSucceeds, ResetRefused, StepAnswered,
              CallEnds, GiveUp, ResetReject, ResetError, ResetReply, StepReject,
              StepError, StepReply, CloseSession, CloseReject, FreeAgent, poolVars
<1>4. ASSUME RouterStep
      PROVE  UNCHANGED <<serving, closed>>
  BY <1>4 DEF RouterStep, Cleanup, EndpointAdded, EndpointsListed, TimePasses,
              AddAgent, AgentReturns, AgentDialled, DialFails,
              CleanupStaleAgents, RemoveAgentsNotIn, Tick, routerVars,
              poolVars
<1>5. ASSUME UNCHANGED envVars
      PROVE  UNCHANGED <<serving, closed>>
  BY <1>5 DEF envVars, vars, routerVars, poolVars
<1>6. UNCHANGED <<serving, closed>>
  BY <1>1, <1>2, <1>3, <1>4, <1>5, Zenon DEF EnvNext
<1>7. serving' = serving /\ closed' = closed
  BY <1>6
<1>8. QED
  BY <1>7, Zenon

LEMMA EnvNextPool ==
  ASSUME EnvControl, [EnvNext]_envVars
  PROVE  [PoolNext]_poolVars
<1>1. ~closed /\ ControlInv
  BY DEF EnvControl
<1>2. CASE [Next]_vars
  BY <1>1, <1>2, NextPool
<1>3. CASE \E c \in Client, h \in Handler : DoneClose(c, h)
  BY <1>3 DEF DoneClose, Send
<1>4. QED
  BY <1>1, <1>2, <1>3, EnvNextRouter

LEMMA EnvNextControl == EnvControl /\ [EnvNext]_envVars => EnvControl'
<1> SUFFICES ASSUME EnvControl, [EnvNext]_envVars
             PROVE  EnvControl'
  OBVIOUS
<1>1. PoolInv /\ ControlInv /\ serving /\ ~closed /\ ObjectTypeOK
  BY DEF EnvControl
<1>2. PoolInv'
  BY <1>1, EnvNextPool, PoolNextInv
<1>3. ASSUME NEW c \in Client, NEW h \in Handler, DoneClose(c, h)
      PROVE  ControlInv'
  <2>1. session[c] \in Addr \union {NoSession} /\ UNCHANGED session
    BY <1>1, <1>3 DEF DoneClose, ControlInv, CallTypeOK
  <2>2. session' \in [Client -> Addr \union {NoSession}]
    BY <1>1, <2>1 DEF ControlInv, CallTypeOK
  <2>3. QED
    BY <1>1, <1>3, <2>1, <2>2, SendControl DEF DoneClose
<1>4. ControlInv'
  BY <1>1, <1>3, EnvNextRouter, NextControl
<1>5. ObjectTypeOK'
  BY <1>1, EnvNextType
<1>6. QED
  BY <1>1, <1>2, <1>4, <1>5, EnvNextRuns DEF EnvControl

LEMMA EnvInitControl == EnvInit => EnvControl
<1> SUFFICES ASSUME EnvInit
             PROVE  EnvControl
  OBVIOUS
<1>1. PoolInv /\ ControlInv
  BY PoolInitInv, InitControl DEF EnvInit, Init
<1>2. serving /\ ~closed
  BY DEF EnvInit, Init, PoolInit
<1>3. ObjectTypeOK
  BY NewEnvType, EnvironmentAssumption DEF EnvInit, ObjectTypeOK
<1>4. QED
  BY <1>1, <1>2, <1>3 DEF EnvControl

\* The state of the objects and of the router under them is well formed: no
\* attempt is made beyond the last one, no step counted beyond MAX_STEPS
\* (socket_tuner_environment.py:79, 144).
THEOREM EnvironmentTypeCorrect == EnvSpec => []EnvTypeOK
<1>1. EnvControl => EnvTypeOK
  BY DEF EnvControl, EnvTypeOK, ObjectTypeOK, TypeOK, PoolInv, ControlInv, CallTypeOK
<1>2. QED
  BY <1>1, EnvInitControl, EnvNextControl, PTL DEF EnvSpec

\* Objects that keep closed session ids are no danger to the pool itself: it
\* sees a sequence of calls of its methods (pool.go), so that PendingIsBusy,
\* ConnsMatchEntries and the agents' life cycle hold under them as well.
THEOREM EnvironmentUsesPool == EnvSpec => PoolSpec
<1>1. EnvInit => PoolInit
  BY DEF EnvInit, Init
<1>2. EnvControl /\ [EnvNext]_envVars => [PoolNext]_poolVars
  BY EnvNextPool
<1>3. QED
  BY <1>1, <1>2, EnvInitControl, EnvNextControl, PTL DEF EnvSpec, PoolSpec

-----------------------------------------------------------------------------
(* One object: its episode keeps the agent.                                *)

\* Every call has somebody who waits for it.
Answered ==
  \A h \in Handler : call[h].pc # "idle" => call[h].caller # NoClient

\* An object closes the session of an episode after it is done.
DoneIsOver == \A c \in Client : env[c].pc = "done" => env[c].done

\* A Close is on its way for an object that has no episode any more.
ClosingIsOver ==
  \A h \in Handler : call[h].pc = "close" => ~InEpisode(call[h].caller)

\* A handler that sets agent a up.
SetsUp(h, a) == call[h].pc \in {"locked", "resetting"} /\ call[h].addr = a

\* An agent that is being set up is held, and is not that of an episode, so that
\* releasing it after a failure does no harm.
SetupIsHeld ==
  \A h \in Handler, a \in Addr :
    SetsUp(h, a) =>
      Held(a) /\ \A c \in Client : InEpisode(c) => session[c] # a

\* EpisodeKeepsAgent, with the agent out of the cleanup's reach.
EpisodeIsHeld ==
  \A c \in Client, a \in Addr : InEpisode(c) /\ session[c] = a => Held(a)

AnsweredInv == Answered /\ ClosingIsOver /\ SetupIsHeld /\ EpisodeIsHeld

EnvInv == EnvControl /\ DoneIsOver /\ (lost = 0 => AnsweredInv)

\* No episode starts, and the ones that go on keep their session.
NoNewEpisode ==
  \A c \in Client : InEpisode(c)' => InEpisode(c) /\ session'[c] = session[c]

LEMMA WaitsInClient ==
  ASSUME ControlInv, NEW h \in Handler, call[h].caller # NoClient
  PROVE  call[h].caller \in Client
  BY DEF ControlInv, CallTypeOK, Call

\* One object has one call, and there is no other.
LEMMA OneHandlerWorks ==
  ASSUME \A c, d \in Client : c = d,
         ControlInv, Answered,
         NEW g \in Handler, NEW h \in Handler,
         call[g].pc # "idle", call[h].pc # "idle"
  PROVE  g = h
<1>1. call[g].caller \in Client /\ call[h].caller \in Client
  BY WaitsInClient DEF Answered
<1>2. call[g].caller = call[h].caller
  BY <1>1
<1>3. QED
  BY <1>1, <1>2, RouterAssumption DEF ControlInv, OneCall

\* A step that starts no call, no episode and no set-up, and under which the
\* agents that matter are still held.
LEMMA OngoingAnswered ==
  ASSUME ControlInv, AnsweredInv, NoNewEpisode,
         \A g \in Handler :
           /\ call'[g].caller = call[g].caller
           /\ call'[g].pc # "idle" => call[g].pc # "idle"
           /\ call'[g].pc = "close" => call[g].pc = "close"
           /\ \A a \in Addr : SetsUp(g, a)' => SetsUp(g, a),
         \A a \in Addr :
           /\ Held(a)
           /\ \/ \E c \in Client : session[c] = a
              \/ \E g \in Handler : SetsUp(g, a)
           => Held(a)'
  PROVE  AnsweredInv'
<1>1. Answered'
  BY DEF AnsweredInv, Answered
<1>2. ASSUME NEW g \in Handler, call'[g].pc = "close"
      PROVE  ~InEpisode(call[g].caller)'
  <2>1. call[g].pc = "close" /\ call[g].caller \in Client
    BY <1>2, WaitsInClient DEF AnsweredInv, Answered
  <2>2. ~InEpisode(call[g].caller)
    BY <2>1 DEF AnsweredInv, ClosingIsOver
  <2>3. PICK k \in Client : k = call[g].caller
    BY <2>1
  <2>4. ~InEpisode(k)'
    BY <2>2, <2>3 DEF NoNewEpisode
  <2>5. call'[g].caller = k
    BY <2>3
  <2>6. QED
    BY <2>4, <2>5 DEF InEpisode
<1>3. ClosingIsOver'
  BY <1>2 DEF ClosingIsOver
<1>4. SetupIsHeld'
  BY DEF AnsweredInv, SetupIsHeld, NoNewEpisode
<1>5. EpisodeIsHeld'
  BY DEF AnsweredInv, EpisodeIsHeld, NoNewEpisode
<1>6. QED
  BY <1>1, <1>3, <1>4, <1>5 DEF AnsweredInv

\* An object sends a request.
LEMMA SendAnswered ==
  ASSUME ControlInv, AnsweredInv, NoNewEpisode, NEW c \in Client, NEW h \in Handler,
         NEW pc \in {"reset", "step", "close"}, NEW addr,
         Send(c, h, pc, addr),
         pc = "close" => ~InEpisode(c)'
  PROVE  AnsweredInv'
<1>1. /\ call'[h].pc = pc
      /\ call'[h].caller = c
      /\ \A g \in Handler \ {h} : call'[g] = call[g]
  BY DEF Send, ControlInv, CallTypeOK
<1>2. \A a \in Addr : Held(a) => Held(a)'
  BY DEF Send, poolVars, Held
<1>3. Answered'
  BY <1>1, RouterAssumption DEF AnsweredInv, Answered
<1>4. ASSUME NEW g \in Handler, call'[g].pc = "close"
      PROVE  ~InEpisode(call[g].caller)'
  <2>1. CASE g = h
    BY <1>1, <1>4, <2>1 DEF InEpisode
  <2>2. CASE g # h
    <3>1. call[g].pc = "close" /\ call'[g].caller = call[g].caller
      BY <1>1, <1>4, <2>2
    <3>2. PICK k \in Client : k = call[g].caller
      BY <3>1, WaitsInClient DEF AnsweredInv, Answered
    <3>3. ~InEpisode(k)
      BY <3>1, <3>2 DEF AnsweredInv, ClosingIsOver
    <3>4. ~InEpisode(k)'
      BY <3>3 DEF NoNewEpisode
    <3>5. QED
      BY <3>1, <3>2, <3>4 DEF InEpisode
  <2>3. QED
    BY <2>1, <2>2
<1>5. ClosingIsOver'
  BY <1>4 DEF ClosingIsOver
<1>6. \A g \in Handler, a \in Addr : SetsUp(g, a)' => SetsUp(g, a)
  BY <1>1 DEF SetsUp
<1>7. SetupIsHeld'
  BY <1>2, <1>6 DEF AnsweredInv, SetupIsHeld, NoNewEpisode
<1>8. EpisodeIsHeld'
  BY <1>2 DEF AnsweredInv, EpisodeIsHeld, NoNewEpisode
<1>9. QED
  BY <1>3, <1>5, <1>7, <1>8 DEF AnsweredInv

\* A call returns.  No other is left, and it is enough that the episodes that go
\* on have their agents.
LEMMA ReturnAnswered ==
  ASSUME \A c, d \in Client : c = d,
         ControlInv, AnsweredInv, NEW h \in Handler, call[h].pc # "idle",
         call' = Sever([call EXCEPT ![h] = Idle]),
         EpisodeIsHeld'
  PROVE  AnsweredInv'
<1>1. \A g \in Handler : call'[g].pc = "idle"
  <2>1. call'[h].pc = "idle"
    BY ReturnFacts DEF ControlInv
  <2>2. \A g \in Handler \ {h} : call'[g].pc = call[g].pc
    BY ReturnFacts DEF ControlInv
  <2>3. \A g \in Handler \ {h} : call[g].pc = "idle"
    BY OneHandlerWorks DEF AnsweredInv
  <2>4. QED
    BY <2>1, <2>2, <2>3
<1>2. Answered' /\ ClosingIsOver' /\ SetupIsHeld'
  BY <1>1 DEF Answered, ClosingIsOver, SetupIsHeld, SetsUp
<1>3. QED
  BY <1>2 DEF AnsweredInv

\* What the outcomes do to an object's place and its episode.
LEMMA OutcomeFacts ==
  ASSUME NEW e \in Env
  PROVE  /\ AfterError(e).pc # "done"
         /\ AfterReset(e).pc # "done"
         /\ AfterRefusal(e).pc # "done"
         /\ ~AfterError(e).done => ~e.done
         /\ ~AfterRefusal(e).done => ~e.done
         /\ \A early \in BOOLEAN :
              /\ AfterStep(e, early).pc = "done" => AfterStep(e, early).done
              /\ ~AfterStep(e, early).done => ~e.done
<1>1. AttemptFailed(e).pc \in {"retry", "ready"} /\ AttemptFailed(e).done = e.done
  BY DEF AttemptFailed, Env
<1>2. ASSUME NEW pc \in {"ready", "closed"}
      PROVE  [e EXCEPT !.pc = pc].pc = pc /\ [e EXCEPT !.pc = pc].done = e.done
  BY DEF Env
<1>3. AfterError(e).pc # "done" /\ AfterError(e).done = e.done
  BY <1>1, <1>2 DEF AfterError
<1>4. AfterReset(e).pc = "ready"
  BY DEF AfterReset, Env
<1>5. ASSUME NEW early \in BOOLEAN
      PROVE  /\ AfterStep(e, early).pc = "done" => AfterStep(e, early).done
             /\ ~AfterStep(e, early).done => ~e.done
  <2>1. CASE early \/ e.step_count >= MAX_STEPS
    <3>1. AfterStep(e, early) = [e EXCEPT !.pc = "done", !.done = TRUE]
      BY <2>1 DEF AfterStep
    <3>2. AfterStep(e, early).done = TRUE
      BY <3>1 DEF Env
    <3>3. QED
      BY <3>2
  <2>2. CASE ~(early \/ e.step_count >= MAX_STEPS)
    <3>1. AfterStep(e, early) = [e EXCEPT !.pc = "ready"]
      BY <2>2 DEF AfterStep
    <3>2. QED
      BY <1>2, <3>1
  <2>3. QED
    BY <2>1, <2>2
<1>6. QED
  BY <1>2, <1>3, <1>4, <1>5 DEF AfterRefusal

\* An object goes on without an episode more than before.
LEMMA BecomeNoNew ==
  ASSUME env \in [Client -> Env], NEW c \in Client, NEW e, Become(c, e),
         ~e.done => ~env[c].done,
         \A d \in Client : session'[d] \in {session[d], NoSession}
  PROVE  NoNewEpisode
<1> SUFFICES ASSUME NEW d \in Client, InEpisode(d)'
             PROVE  InEpisode(d) /\ session'[d] = session[d]
  BY DEF NoNewEpisode
<1>1. session'[d] # NoSession /\ ~env'[d].done
  BY DEF InEpisode
<1>2. session'[d] = session[d]
  BY <1>1
<1>3. env'[d] = IF d = c THEN e ELSE env[d]
  BY DEF Become
<1>4. ~env[d].done
  BY <1>1, <1>3
<1>5. QED
  BY <1>1, <1>2, <1>4 DEF InEpisode

LEMMA EnvStepAnswered ==
  ASSUME EnvControl, DoneIsOver, AnsweredInv, NEW c \in Client, EnvStep(c)
  PROVE  AnsweredInv'
<1>1. env \in [Client -> Env] /\ env[c] \in Env /\ ControlInv
  BY DEF EnvControl, ObjectTypeOK
<1>2. \A pc \in {"reset", "done_close", "close", "closed"} :
        [env[c] EXCEPT !.pc = pc].done = env[c].done
  BY <1>1 DEF Env
<1>3. ASSUME NEW h \in Handler, Reset(c, h) \/ ResetAgain(c, h)
      PROVE  AnsweredInv'
  <2>1. [env[c] EXCEPT !.pc = "reset", !.attempt = 0].done = env[c].done
    BY <1>1 DEF Env
  <2>2. UNCHANGED session
    BY <1>3 DEF Reset, ResetAgain, SendReset
  <2>3. PICK e : Become(c, e) /\ e.done = env[c].done
    BY <1>2, <1>3, <2>1 DEF Reset, ResetAgain
  <2>4. NoNewEpisode
    BY <1>1, <2>2, <2>3, BecomeNoNew
  <2>5. Send(c, h, "reset", NoSession)
    BY <1>3 DEF Reset, ResetAgain, SendReset
  <2>6. QED
    BY <1>1, <2>4, <2>5, SendAnswered
<1>4. ASSUME NEW h \in Handler, Step(c, h)
      PROVE  AnsweredInv'
  <2> DEFINE e == [env[c] EXCEPT !.pc = "step",
                                 !.step_count = IF @ < MAX_STEPS THEN @ + 1 ELSE @]
  <2>1. e.done = env[c].done
    BY <1>1 DEF Env
  <2>2. Become(c, e) /\ UNCHANGED session /\ Send(c, h, "step", session[c])
    BY <1>4 DEF Step, SendStep
  <2> HIDE DEF e
  <2>3. NoNewEpisode
    BY <1>1, <2>1, <2>2, BecomeNoNew
  <2>4. QED
    BY <1>1, <2>2, <2>3, SendAnswered
<1>5. ASSUME NEW h \in Handler, DoneClose(c, h)
      PROVE  AnsweredInv'
  <2>1. Become(c, [env[c] EXCEPT !.pc = "done_close"]) /\ UNCHANGED session
    BY <1>5 DEF DoneClose
  <2>2. NoNewEpisode
    BY <1>1, <1>2, <2>1, BecomeNoNew
  <2>3. ~InEpisode(c)
    BY <1>5 DEF DoneClose, DoneIsOver, InEpisode
  <2>4. ~InEpisode(c)'
    BY <2>2, <2>3 DEF NoNewEpisode
  <2>5. Send(c, h, "close", session[c])
    BY <1>5 DEF DoneClose
  <2>6. QED
    BY <1>1, <2>2, <2>4, <2>5, SendAnswered
<1>6. ASSUME NEW h \in Handler, CloseEnv(c, h)
      PROVE  AnsweredInv'
  <2>1. session' = [session EXCEPT ![c] = NoSession]
    BY <1>6 DEF CloseEnv, SendClose
  <2>2. /\ session'[c] = NoSession
        /\ \A d \in Client : session'[d] \in {session[d], NoSession}
    BY <1>1, <2>1 DEF ControlInv, CallTypeOK
  <2>3. Become(c, [env[c] EXCEPT !.pc = "close"])
    BY <1>6 DEF CloseEnv
  <2>4. NoNewEpisode
    BY <1>1, <1>2, <2>2, <2>3, BecomeNoNew
  <2>5. ~InEpisode(c)'
    BY <2>2 DEF InEpisode
  <2>6. Send(c, h, "close", session[c])
    BY <1>6 DEF CloseEnv, SendClose
  <2>7. QED
    BY <1>1, <2>4, <2>5, <2>6, SendAnswered
<1>7. CASE CloseUnused(c) \/ Renew(c)
  <2>1. PICK e : Become(c, e) /\ (~e.done => ~env[c].done)
    <3>1. NewEnv.done = TRUE
      BY DEF NewEnv
    <3>2. CASE Renew(c)
      BY <3>1, <3>2 DEF Renew
    <3>3. CASE CloseUnused(c)
      <4>1. [env[c] EXCEPT !.pc = "closed"].done = env[c].done
        BY <1>2
      <4>2. QED
        BY <3>3, <4>1 DEF CloseUnused
    <3>4. QED
      BY <1>7, <3>2, <3>3
  <2>2. UNCHANGED <<poolVars, call, session>>
    BY <1>7 DEF CloseUnused, Renew, vars, routerVars
  <2>3. NoNewEpisode
    BY <1>1, <2>1, <2>2, BecomeNoNew
  <2>4. \A a \in Addr : Held(a) => Held(a)'
    BY <2>2 DEF Held, poolVars
  <2>5. \A g \in Handler, a \in Addr : SetsUp(g, a)' => SetsUp(g, a)
    BY <2>2 DEF SetsUp
  <2>6. QED
    BY <1>1, <2>2, <2>3, <2>4, <2>5, OngoingAnswered
<1>8. QED
  BY <1>3, <1>4, <1>5, <1>6, <1>7 DEF EnvStep, Continue

\* A step that leaves the objects and their sessions alone.
LEMMA SameNoNew ==
  ASSUME UNCHANGED <<env, session>>
  PROVE  NoNewEpisode
  BY DEF NoNewEpisode, InEpisode

LEMMA HandlerWorksAnswered ==
  ASSUME \A c, d \in Client : c = d,
         EnvControl, AnsweredInv, NEW h \in Handler, HandlerWorks(h)
  PROVE  AnsweredInv'
<1>1. PoolInv /\ ControlInv /\ call \in [Handler -> Call]
  BY DEF EnvControl, ControlInv, CallTypeOK
<1>2. UNCHANGED <<env, session>>
  BY DEF HandlerWorks, ResetLock, ResetTouch, StepFind, StepTouch
<1>3. NoNewEpisode
  BY <1>2, SameNoNew
<1>4. CASE ResetTouch(h) \/ StepTouch(h) \/ StepFind(h)
  <2>1. \A g \in Handler : /\ call'[g].addr = call[g].addr
                           /\ call'[g].caller = call[g].caller
    BY <1>1, <1>4 DEF ResetTouch, StepTouch, StepFind, Goto, Call
  <2>2. \/ call[h].pc = "locked" /\ call'[h].pc = "resetting"
        \/ call[h].pc = "found" /\ call'[h].pc = "stepping"
        \/ call[h].pc = "step" /\ call'[h].pc = "found"
    BY <1>1, <1>4 DEF ResetTouch, StepTouch, StepFind, Goto, Call
  <2>3. \A g \in Handler \ {h} : call'[g].pc = call[g].pc
    BY <1>1, <1>4 DEF ResetTouch, StepTouch, StepFind, Goto, Call
  <2>4. \A g \in Handler, a \in Addr : SetsUp(g, a)' => SetsUp(g, a)
    BY <2>1, <2>2, <2>3 DEF SetsUp
  <2>5. CASE StepFind(h)
    <3>1. \A a \in Addr : Held(a) => Held(a)'
      BY <2>5 DEF StepFind, Held, poolVars
    <3>2. QED
      BY <1>1, <1>3, <2>1, <2>2, <2>3, <2>4, <3>1, OngoingAnswered
  <2>6. CASE ResetTouch(h) \/ StepTouch(h)
    <3>1. call[h].addr \in Addr /\ TouchAgent(call[h].addr)
      BY <1>1, <2>6 DEF ResetTouch, StepTouch, Captured, ControlInv, CallsInv
    <3>2. \A a \in Addr : Held(a) => Held(a)'
      BY <1>1, <3>1, TouchKeepsHeld
    <3>3. QED
      BY <1>1, <1>3, <2>1, <2>2, <2>3, <2>4, <3>2, OngoingAnswered
  <2>7. QED
    BY <1>4, <2>5, <2>6
<1>5. ASSUME NEW b \in Addr, ResetLock(h, b)
      PROVE  AnsweredInv'
  <2>1. /\ call[h].pc = "reset"
        /\ call'[h].pc = "locked"
        /\ call'[h].addr = b
        /\ call'[h].caller = call[h].caller
        /\ \A g \in Handler \ {h} : call'[g] = call[g]
    BY <1>1, <1>5 DEF ResetLock
  <2>2. b \notin busy
    BY <1>5 DEF ResetLock, LockFreeAgent, Free
  <2>3. Held(b)'
    BY <1>1, <1>5, PoolAssumption DEF ResetLock, LockFreeAgent, Held, PoolInv, PoolTypeOK
  <2>4. \A a \in Addr : Held(a) => Held(a)'
    BY <1>1, <1>5, PoolAssumption DEF ResetLock, LockFreeAgent, Held, PoolInv, PoolTypeOK
  <2>5. \A g \in Handler \ {h} : call[g].pc = "idle"
    BY <1>1, <2>1, OneHandlerWorks DEF AnsweredInv
  <2>6. Answered'
    BY <2>1 DEF AnsweredInv, Answered
  <2>7. ClosingIsOver'
    BY <2>1, <2>5 DEF ClosingIsOver
  <2>8. \A c \in Client : InEpisode(c) => session[c] # b
    BY <2>2 DEF AnsweredInv, EpisodeIsHeld, Held
  <2>9. SetupIsHeld'
    BY <1>3, <2>1, <2>3, <2>5, <2>8 DEF SetupIsHeld, SetsUp, NoNewEpisode
  <2>10. EpisodeIsHeld'
    BY <1>3, <2>4 DEF AnsweredInv, EpisodeIsHeld, NoNewEpisode
  <2>11. QED
    BY <2>6, <2>7, <2>9, <2>10 DEF AnsweredInv
<1>6. QED
  BY <1>4, <1>5 DEF HandlerWorks

\* A call ends and no episode starts.
LEMMA PlainReturnNoNew ==
  ASSUME env \in [Client -> Env], NEW h \in Handler, UNCHANGED session,
         \/ Resume(h, AfterError)
         \/ Resume(h, AfterRefusal)
         \/ \E early \in BOOLEAN : StepAnswered(h, early)
  PROVE  NoNewEpisode
<1> SUFFICES ASSUME NEW c \in Client, ~env'[c].done
             PROVE  ~env[c].done
  BY DEF NoNewEpisode, InEpisode
<1>1. env[c] \in Env
  OBVIOUS
<1>2. CASE Resume(h, AfterError)
  BY <1>1, <1>2, OutcomeFacts DEF Resume
<1>3. CASE Resume(h, AfterRefusal)
  BY <1>1, <1>3, OutcomeFacts DEF Resume
<1>4. ASSUME NEW early \in BOOLEAN, StepAnswered(h, early)
      PROVE  ~env[c].done
  <2>1. env' = [d \in Client |->
                  IF d = call[h].caller THEN AfterStep(env[d], early) ELSE env[d]]
    BY <1>4 DEF StepAnswered, Resume
  <2>2. QED
    BY <1>1, <2>1, OutcomeFacts
<1>5. QED
  BY <1>2, <1>3, <1>4

\* The session that starts is with the agent that was set up; a release is of an
\* agent that was being set up in vain, or whose episode is over.
LEMMA ReturnsAnswered ==
  ASSUME \A c, d \in Client : c = d,
         EnvControl, AnsweredInv, NEW h \in Handler, Returns(h)
  PROVE  AnsweredInv'
<1>1. ControlInv /\ env \in [Client -> Env] /\ call[h] \in Call
  BY DEF EnvControl, ObjectTypeOK, ControlInv, CallTypeOK
<1>2. call[h].pc # "idle" /\ call' = Sever([call EXCEPT ![h] = Idle])
  BY DEF Returns, ResetSucceeds, ResetRefused, StepAnswered, CallEnds, ResetReply,
         StepReply, ResetReject, ResetError, StepReject, StepError, CloseSession,
         CloseReject, Return, ReturnKeeping
<1>3. CASE ResetSucceeds(h)
  <2>1. /\ call[h].pc = "resetting"
        /\ UNCHANGED poolVars
        /\ session' = [c \in Client |->
                         IF c = call[h].caller THEN call[h].addr ELSE session[c]]
    BY <1>3 DEF ResetSucceeds, ResetReply, Return
  <2>2. call[h].caller \in Client
    BY <1>1, <1>2, WaitsInClient DEF AnsweredInv, Answered
  <2>3. \A c \in Client : session'[c] = call[h].addr
    BY <2>1, <2>2
  <2>4. call[h].addr \in Addr
    BY <1>1, <2>1 DEF ControlInv, CallsInv, Captured
  <2>5. Held(call[h].addr)
    BY <2>1, <2>4 DEF AnsweredInv, SetupIsHeld, SetsUp
  <2>6. \A a \in Addr : Held(a) => Held(a)'
    BY <2>1 DEF Held, poolVars
  <2>7. EpisodeIsHeld'
    BY <2>3, <2>4, <2>5, <2>6 DEF EpisodeIsHeld
  <2>8. QED
    BY <1>1, <1>2, <2>7, ReturnAnswered
<1>4. CASE ResetRefused(h) \/ CallEnds(h) \/ \E early \in BOOLEAN : StepAnswered(h, early)
  <2>1. UNCHANGED session
    BY <1>4
    DEF ResetRefused, StepAnswered, CallEnds, ResetReply, StepReply, ResetReject,
        ResetError, StepReject, StepError, CloseSession, CloseReject, ReturnKeeping
  <2>2. NoNewEpisode
    BY <1>1, <1>4, <2>1, PlainReturnNoNew DEF ResetRefused, CallEnds
  <2>3. ASSUME NEW c \in Client, NEW a \in Addr, InEpisode(c), session[c] = a
        PROVE  Held(a)'
    <3>1. Held(a)
      BY <2>3 DEF AnsweredInv, EpisodeIsHeld
    <3>2. CASE ResetError(h)
      <4>1. call[h].addr \in Addr /\ SetsUp(h, call[h].addr)
        BY <1>1, <3>2 DEF ResetError, ControlInv, CallsInv, Captured, SetsUp
      <4>2. call[h].addr # a
        BY <2>3, <4>1 DEF AnsweredInv, SetupIsHeld
      <4>3. QED
        BY <3>1, <3>2, <4>2, ReleaseKeepsHeld DEF ResetError, FreeAgent
    <3>3. CASE CloseSession(h)
      <4>1. call[h].pc = "close"
        BY <3>3 DEF CloseSession
      <4>2. call[h].caller \in Client
        BY <1>1, <1>2, WaitsInClient DEF AnsweredInv, Answered
      <4>3. call[h].caller = c
        BY <4>2
      <4>4. QED
        BY <2>3, <4>1, <4>3 DEF AnsweredInv, ClosingIsOver
    <3>4. CASE UNCHANGED poolVars
      BY <3>1, <3>4 DEF Held, poolVars
    <3>5. QED
      BY <1>4, <3>2, <3>3, <3>4
      DEF ResetRefused, StepAnswered, CallEnds, ResetReply, StepReply, ResetReject,
          StepReject, StepError, CloseReject
  <2>4. EpisodeIsHeld'
    BY <2>2, <2>3 DEF EpisodeIsHeld, NoNewEpisode
  <2>5. QED
    BY <1>1, <1>2, <2>4, ReturnAnswered
<1>5. QED
  BY <1>3, <1>4 DEF Returns

\* The other goroutines of the router leave a held agent alone, and with Prompt
\* no agent in use gets old.
LEMMA RouterStepAnswered ==
  ASSUME Prompt, EnvControl, AnsweredInv, RouterStep
  PROVE  AnsweredInv'
<1>1. PoolInv /\ ControlInv
  BY DEF EnvControl
<1>2. UNCHANGED <<env, session>>
  BY DEF RouterStep, Cleanup, EndpointAdded, EndpointsListed, TimePasses, routerVars
<1>3. NoNewEpisode
  BY <1>2, SameNoNew
<1>4. \A g \in Handler : /\ call'[g].pc = call[g].pc
                         /\ call'[g].addr = call[g].addr
                         /\ call'[g].caller = call[g].caller
  BY <1>1, SeverFacts
  DEF RouterStep, Cleanup, EndpointAdded, EndpointsListed, TimePasses, routerVars,
      ControlInv
<1>5. \A g \in Handler, a \in Addr : SetsUp(g, a)' => SetsUp(g, a)
  BY <1>4 DEF SetsUp
<1>6. ASSUME NEW a \in Addr, Held(a),
             \/ \E c \in Client : session[c] = a
             \/ \E g \in Handler : SetsUp(g, a)
      PROVE  Held(a)'
  <2>1. CASE Cleanup
    <3>1. a \notin Stale
      BY <1>1, <1>6, PoolAssumption DEF Held, Stale, PoolInv, PoolTypeOK
    <3>2. QED
      BY <1>6, <2>1, <3>1, ReleaseKeepsHeld DEF Cleanup, CleanupStaleAgents
  <2>2. ASSUME NEW b \in Addr, EndpointAdded(b)
        PROVE  Held(a)'
    BY <1>1, <1>6, <2>2, AddAgentKeepsHeld DEF EndpointAdded
  <2>3. ASSUME NEW liveAddrs \in SUBSET Addr, EndpointsListed(liveAddrs)
        PROVE  Held(a)'
    BY <1>6, <2>3, RetireKeepsHeld DEF EndpointsListed, RemoveAgentsNotIn
  <2>4. CASE TimePasses
    <3>1. a \in busy \intersect InUse
      BY <1>6 DEF InUse, SetsUp, Held
    <3>2. age[a] < SessionTimeout
      BY <2>4, <3>1 DEF TimePasses
    <3>3. age[a] \in Nat
      BY <1>1, PoolAssumption DEF PoolInv, PoolTypeOK
    <3>4. QED
      BY <1>6, <2>4, <3>2, <3>3, PoolAssumption DEF TimePasses, Tick, Held
  <2>5. QED
    BY <2>1, <2>2, <2>3, <2>4 DEF RouterStep
<1>7. QED
  BY <1>1, <1>3, <1>4, <1>5, <1>6, OngoingAnswered

LEMMA NextDoneIsOver ==
  ASSUME env \in [Client -> Env], DoneIsOver, [EnvNext]_envVars
  PROVE  DoneIsOver'
<1> SUFFICES ASSUME NEW d \in Client, env'[d].pc = "done"
             PROVE  env'[d].done
  BY DEF DoneIsOver
<1>1. env[d] \in Env
  OBVIOUS
<1>2. CASE env'[d] = env[d]
  BY <1>2 DEF DoneIsOver
<1>3. ASSUME NEW c \in Client, EnvStep(c)
      PROVE  env'[d].done
  <2>1. PICK e : Become(c, e) /\ e.pc # "done"
    <3>1. env[c] \in Env
      OBVIOUS
    <3>2. \A pc \in {"reset", "done_close", "close", "closed"} :
            [env[c] EXCEPT !.pc = pc].pc = pc
      BY <3>1 DEF Env
    <3>3. [env[c] EXCEPT !.pc = "reset", !.attempt = 0].pc = "reset"
      BY <3>1 DEF Env
    <3>4. [env[c] EXCEPT !.pc = "step",
                         !.step_count = IF @ < MAX_STEPS THEN @ + 1 ELSE @].pc = "step"
      BY <3>1 DEF Env
    <3>5. NewEnv.pc = "ready"
      BY DEF NewEnv
    <3>6. CASE \E h \in Handler : Reset(c, h)
      BY <3>3, <3>6 DEF Reset
    <3>7. CASE \E h \in Handler : Step(c, h)
      BY <3>4, <3>7 DEF Step
    <3>8. CASE Renew(c)
      BY <3>5, <3>8 DEF Renew
    <3>9. CASE \/ \E h \in Handler : \/ ResetAgain(c, h)
                                     \/ DoneClose(c, h)
                                     \/ CloseEnv(c, h)
               \/ CloseUnused(c)
      BY <3>2, <3>9 DEF ResetAgain, DoneClose, CloseEnv, CloseUnused
    <3>10. QED
      BY <1>3, <3>6, <3>7, <3>8, <3>9 DEF EnvStep, Continue
  <2>2. env'[d] = IF d = c THEN e ELSE env[d]
    BY <2>1 DEF Become
  <2>3. QED
    BY <1>2, <2>1, <2>2
<1>4. ASSUME NEW h \in Handler, Returns(h) \/ ReplyLost(h), env'[d] # env[d]
      PROVE  env'[d].done
  <2>1. CASE Resume(h, AfterError)
    BY <1>1, <1>4, <2>1, OutcomeFacts DEF Resume
  <2>2. CASE Resume(h, AfterReset)
    BY <1>1, <1>4, <2>2, OutcomeFacts DEF Resume
  <2>3. CASE Resume(h, AfterRefusal)
    BY <1>1, <1>4, <2>3, OutcomeFacts DEF Resume
  <2>4. ASSUME NEW early \in BOOLEAN, StepAnswered(h, early)
        PROVE  env'[d].done
    <3>1. env' = [c \in Client |->
                    IF c = call[h].caller THEN AfterStep(env[c], early) ELSE env[c]]
      BY <2>4 DEF StepAnswered, Resume
    <3>2. env'[d] = AfterStep(env[d], early)
      BY <1>4, <3>1
    <3>3. QED
      BY <1>1, <3>2, OutcomeFacts
  <2>5. QED
    BY <1>4, <2>1, <2>2, <2>3, <2>4
    DEF Returns, ReplyLost, ResetSucceeds, ResetRefused, CallEnds
<1>5. CASE UNCHANGED env
  BY <1>2, <1>5
<1>6. QED
  BY <1>2, <1>3, <1>4, <1>5 DEF EnvNext, HandlerWorks, RouterStep, envVars

LEMMA NextAnswered ==
  ASSUME Prompt, \A c, d \in Client : c = d,
         EnvInv, [EnvNext]_envVars, lost' = 0
  PROVE  AnsweredInv'
<1>1. EnvControl /\ DoneIsOver /\ lost \in Nat
  BY DEF EnvInv, EnvControl, ObjectTypeOK
<1>2. CASE UNCHANGED envVars
  <2>1. AnsweredInv
    BY <1>2 DEF EnvInv, envVars
  <2>2. QED
    BY <1>2, <2>1
    DEF envVars, vars, poolVars, routerVars, AnsweredInv, Answered, ClosingIsOver,
        SetupIsHeld, EpisodeIsHeld, SetsUp, Held, InEpisode
<1>3. ASSUME NEW c \in Client, EnvStep(c)
      PROVE  AnsweredInv'
  <2>1. UNCHANGED lost
    BY <1>3 DEF EnvStep, Continue, Reset, ResetAgain, Step, DoneClose, CloseEnv,
                CloseUnused, Renew, Become
  <2>2. QED
    BY <1>1, <1>3, <2>1, EnvStepAnswered DEF EnvInv
<1>4. ASSUME NEW h \in Handler, HandlerWorks(h) \/ Returns(h)
      PROVE  AnsweredInv'
  <2>1. UNCHANGED lost
    BY <1>4 DEF HandlerWorks, Returns
  <2>2. QED
    BY <1>1, <1>4, <2>1, HandlerWorksAnswered, ReturnsAnswered DEF EnvInv
<1>5. ASSUME NEW h \in Handler, ReplyLost(h)
      PROVE  FALSE
  BY <1>1, <1>5 DEF ReplyLost
<1>6. CASE RouterStep
  <2>1. UNCHANGED lost
    BY <1>6 DEF RouterStep
  <2>2. QED
    BY <1>1, <1>6, <2>1, RouterStepAnswered DEF EnvInv
<1>7. QED
  BY <1>2, <1>3, <1>4, <1>5, <1>6 DEF EnvNext

\* An object that has the router to itself, and whose calls are all answered,
\* keeps its agent from the reset that started the episode to the step that ends
\* it (socket_tuner_environment.py:79, server.go:55), whatever it calls in which
\* order, however its resets fail and are retried, and whatever the watcher and
\* the cleanup do.  With a second object it does not (run
\* environment_concurrent): the session id of an episode that is done is kept,
\* and closed again.
THEOREM EnvironmentEpisodeKeepsAgent ==
  ASSUME Prompt, \A c, d \in Client : c = d
  PROVE  EnvSpec => []EpisodeKeepsAgent
<1>1. EnvInit => EnvInv
  <2> SUFFICES ASSUME EnvInit
               PROVE  EnvInv
    OBVIOUS
  <2>1. /\ \A c \in Client : session[c] = NoSession /\ env[c].pc = "ready"
        /\ \A h \in Handler : call[h].pc = "idle"
    BY DEF EnvInit, Init, NewEnv, Idle
  <2>2. DoneIsOver
    BY <2>1 DEF DoneIsOver
  <2>3. AnsweredInv
    BY <2>1
    DEF AnsweredInv, Answered, ClosingIsOver, SetupIsHeld, EpisodeIsHeld, SetsUp,
        InEpisode
  <2>4. QED
    BY <2>2, <2>3, EnvInitControl DEF EnvInv
<1>2. EnvInv /\ [EnvNext]_envVars => EnvInv'
  <2> SUFFICES ASSUME EnvInv, [EnvNext]_envVars
               PROVE  EnvInv'
    OBVIOUS
  <2>1. EnvControl'
    BY EnvNextControl DEF EnvInv
  <2>2. DoneIsOver'
    BY NextDoneIsOver DEF EnvInv, EnvControl, ObjectTypeOK
  <2>3. lost' = 0 => AnsweredInv'
    BY NextAnswered
  <2>4. QED
    BY <2>1, <2>2, <2>3 DEF EnvInv
<1>3. EnvInv => EpisodeKeepsAgent
  <2> SUFFICES ASSUME EnvInv, NEW c \in Client, lost = 0, InEpisode(c)
               PROVE  session[c] \in busy
    BY DEF EpisodeKeepsAgent
  <2>1. session[c] \in Addr
    BY DEF InEpisode, EnvInv, EnvControl, ControlInv, CallTypeOK
  <2>2. QED
    BY <2>1 DEF EnvInv, AnsweredInv, EpisodeIsHeld, Held
<1>4. QED
  BY <1>1, <1>2, <1>3, PTL DEF EnvSpec
=============================================================================
