----------------------------- MODULE Environment ----------------------------
(***************************************************************************)
(* SocketTunerEnvironment (server/socket_tuner_environment.py) over the    *)
(* router.  A client of the module Router is here one environment object;  *)
(* session[c] is its _session_id.  The web server uses an object from one  *)
(* request at a time and may call reset, step and close in any order.      *)
(*                                                                         *)
(* The retry of a reply that says "busy" or "no free agent" is left out:   *)
(* the router reports a full pool as an RPC error, and no message of an    *)
(* agent contains these words.                                             *)
(***************************************************************************)
EXTENDS Router

CONSTANTS
  MAX_STEPS,       \* steps of an episode
  MaxRetries,      \* max_retries of reset
  MaxLost          \* bounds the replies that are lost

ASSUME EnvironmentAssumption ==
  /\ MAX_STEPS \in Nat \ {0}
  /\ MaxRetries \in Nat \ {0}
  /\ MaxLost \in Nat

VARIABLES
  env,             \* where each object is, and its counters
  lost             \* number of calls that failed while the router worked on them

envVars == <<vars, env, lost>>

Env == [pc : {"ready", "reset", "retry", "step", "done", "done_close",
              "close", "closed"},
        attempt : 0 .. MaxRetries - 1,
        step_count : 0 .. MAX_STEPS,
        done : BOOLEAN]             \* the episode was reported done

NewEnv == [pc |-> "ready", attempt |-> 0, step_count |-> 0, done |-> TRUE]

EnvTypeOK ==
  /\ TypeOK
  /\ env \in [Client -> Env]
  /\ lost \in 0 .. MaxLost

EnvInit ==
  /\ Init
  /\ env = [c \in Client |-> NewEnv]
  /\ lost = 0

-----------------------------------------------------------------------------
(* What the object does with the outcome of a call.                        *)

\* Faulty AttemptFailed: one attempt too many.
AttemptFailedLate(e) ==
  IF e.attempt < MaxRetries
  THEN [e EXCEPT !.pc = "retry", !.attempt = @ + 1]
  ELSE [e EXCEPT !.pc = "ready"]

\* Faulty AttemptFailed: attempts are not counted.
AttemptUncounted(e) == [e EXCEPT !.pc = "retry"]

\* The attempt of reset fails with an RpcError: sleep and retry, or raise.
AttemptFailed(e) ==
  IF e.attempt < MaxRetries - 1
  THEN [e EXCEPT !.pc = "retry", !.attempt = @ + 1]
  ELSE [e EXCEPT !.pc = "ready"]

\* A call fails.  step raises; both calls of Close swallow the exception.
AfterError(e) ==
  CASE e.pc = "reset" -> AttemptFailed(e)
    [] e.pc = "close" -> [e EXCEPT !.pc = "closed"]
    [] OTHER          -> [e EXCEPT !.pc = "ready"]

\* Reset answers with success: a new episode.
AfterReset(e) == [e EXCEPT !.pc = "ready", !.step_count = 0, !.done = FALSE]

\* Reset answers without success: RuntimeError, unless the message says "busy".
AfterRefusal(e) == [e EXCEPT !.pc = "ready"]

\* Step answers.  early: the run took at most half of the baseline's time.
AfterStep(e, early) ==
  IF early \/ e.step_count >= MAX_STEPS
  THEN [e EXCEPT !.pc = "done", !.done = TRUE]
  ELSE [e EXCEPT !.pc = "ready"]

\* The object that waits for handler h goes on with After; an orphaned call
\* has none.
Resume(h, After(_)) ==
  env' = [c \in Client |-> IF c = call[h].caller THEN After(env[c]) ELSE env[c]]

\* Object c goes on as e.
Become(c, e) ==
  /\ env' = [env EXCEPT ![c] = e]
  /\ UNCHANGED lost

-----------------------------------------------------------------------------
(* The object's methods.                                                   *)

\* reset: the first attempt.  The session of an unfinished episode is not closed.
Reset(c, h) ==
  /\ env[c].pc = "ready"
  /\ SendReset(c, h)
  /\ Become(c, [env[c] EXCEPT !.pc = "reset", !.attempt = 0])

\* reset: the next attempt.
ResetAgain(c, h) ==
  /\ env[c].pc = "retry"
  /\ SendReset(c, h)
  /\ Become(c, [env[c] EXCEPT !.pc = "reset"])

\* step counts the step before it is taken; counts above MAX_STEPS compare alike.
Step(c, h) ==
  /\ env[c].pc = "ready"
  /\ SendStep(c, h)
  /\ Become(c, [env[c] EXCEPT !.pc = "step",
                              !.step_count = IF @ < MAX_STEPS THEN @ + 1 ELSE @])

\* step closes the session of an episode that is done, and keeps _session_id.
DoneClose(c, h) ==
  /\ env[c].pc = "done"
  /\ Send(c, h, "close", session[c])
  /\ Become(c, [env[c] EXCEPT !.pc = "done_close"])
  /\ UNCHANGED session

\* close with a session.
CloseEnv(c, h) ==
  /\ env[c].pc = "ready"
  /\ session[c] # NoSession
  /\ SendClose(c, h)
  /\ Become(c, [env[c] EXCEPT !.pc = "close"])

\* close without one.
CloseUnused(c) ==
  /\ env[c].pc = "ready"
  /\ session[c] = NoSession
  /\ Become(c, [env[c] EXCEPT !.pc = "closed"])
  /\ UNCHANGED vars

\* The web server makes a new object for a new user.
Renew(c) ==
  /\ env[c].pc = "closed"
  /\ Become(c, NewEnv)
  /\ UNCHANGED vars

-----------------------------------------------------------------------------
(* Outcomes.                                                               *)

\* Steps of a handler before it returns.
HandlerWorks(h) ==
  /\ \/ \E a \in Addr : ResetLock(h, a)
     \/ ResetTouch(h)
     \/ StepFind(h)
     \/ StepTouch(h)
  /\ UNCHANGED <<env, lost>>

ResetSucceeds(h) == ResetReply(h, TRUE) /\ Resume(h, AfterReset)

\* A message that contains "busy", as that of a failed exec may ("text file
\* busy"), is a reason to try again, like an RpcError.
ResetRefused(h) ==
  /\ ResetReply(h, FALSE)
  /\ Resume(h, AfterRefusal) \/ Resume(h, AfterError)

StepAnswered(h, early) ==
  /\ StepReply(h, FALSE)
  /\ Resume(h, LAMBDA e : AfterStep(e, early))

\* The answer to a Close ends the call like an error does.
CallEnds(h) ==
  /\ \/ ResetReject(h)
     \/ ResetError(h)
     \/ StepReject(h)
     \/ StepError(h)
     \/ CloseSession(h)
     \/ CloseReject(h)
  /\ Resume(h, AfterError)

ReplyLost(h) ==
  /\ lost < MaxLost
  /\ GiveUp(h)
  /\ lost' = lost + 1
  /\ Resume(h, AfterError)

Returns(h) ==
  /\ \/ ResetSucceeds(h)
     \/ ResetRefused(h)
     \/ \E early \in BOOLEAN : StepAnswered(h, early)
     \/ CallEnds(h)
  /\ UNCHANGED lost

-----------------------------------------------------------------------------

\* The calls an object makes without being asked to.
Continue(c) == \E h \in Handler : ResetAgain(c, h) \/ DoneClose(c, h)

EnvStep(c) ==
  \/ \E h \in Handler : Reset(c, h) \/ Step(c, h) \/ CloseEnv(c, h)
  \/ Continue(c)
  \/ CloseUnused(c)
  \/ Renew(c)

RouterStep ==
  /\ \/ Cleanup
     \/ \E a \in Addr : EndpointAdded(a)
     \/ \E liveAddrs \in SUBSET Addr : EndpointsListed(liveAddrs)
     \/ TimePasses
  /\ UNCHANGED <<env, lost>>

EnvNext ==
  \/ \E c \in Client : EnvStep(c)
  \/ \E h \in Handler : HandlerWorks(h) \/ Returns(h) \/ ReplyLost(h)
  \/ RouterStep

EnvSpec == EnvInit /\ [][EnvNext]_envVars

\* Handlers return (see Router), and an object that has slept or has to close
\* its session makes its next call.
EnvFairness ==
  /\ \A h \in Handler : WF_envVars(HandlerWorks(h) \/ Returns(h))
  /\ \A c \in Client : WF_envVars(Continue(c))

EnvFairSpec == EnvSpec /\ EnvFairness

-----------------------------------------------------------------------------
(* Properties.                                                             *)

\* An object in the middle of an episode.
InEpisode(c) == session[c] # NoSession /\ ~env[c].done

\* An episode has its agent to itself until it is done: the agent is locked,
\* and no other object is in an episode on it (socket_tuner_environment.py:79,
\* server.go:55).  A Close that arrives after its caller has given up on it can
\* break that, so it is stated for calls that were all answered.
EpisodeKeepsAgent ==
  \A c \in Client :
    lost = 0 /\ InEpisode(c) =>
      /\ session[c] \in busy
      /\ \A d \in Client : InEpisode(d) /\ session[d] = session[c] => c = d

\* Every method returns: reset gives up after its last attempt, and step and
\* close do not wait for ever (socket_tuner_environment.py:117, 144, 266).
MethodsReturn ==
  \A c \in Client : env[c].pc # "ready" ~> env[c].pc \in {"ready", "closed"}
=============================================================================
