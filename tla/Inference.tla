------------------------------ MODULE Inference -----------------------------
(***************************************************************************)
(* The driver, main of inference.py, and the environment object it drives  *)
(* through SocketTunerEnv, with the numbers of                             *)
(* server/socket_tuner_environment.py.                                     *)
(*                                                                         *)
(* A call of the driver is one step: the object serves one call at a time. *)
(* What comes back from the router and the agent is any outcome they can   *)
(* have; how the router reaches it is the subject of Environment.  The     *)
(* k-th successful reset of episode e is session <<e, k>>.                 *)
(***************************************************************************)
EXTENDS Reward, FiniteSets

CONSTANTS
  NumTasks,        \* num_tasks: the episodes of a run
  MAX_STEPS,       \* of inference.py
  EnvMaxSteps,     \* MAX_STEPS of socket_tuner_environment.py
  MaxRetries,      \* max_retries and max_step_retries
  Threshold,       \* SUCCESS_SCORE_THRESHOLD, in thousandths
  Durations,       \* duration_us of an observation; 0 without a measurement
  NoSession

ASSUME InferenceAssumption ==
  /\ {NumTasks, MAX_STEPS, EnvMaxSteps, MaxRetries} \subseteq Nat \ {0}
  /\ Threshold \in Nat
  /\ Durations \subseteq Nat /\ 0 \in Durations
  /\ NoSession \notin Nat \X Nat

VARIABLES
  dpc,             \* the call or the statement the driver executes next
  episode,         \* number of the episode
  attempt,         \* attempt of the call, from 0
  history,         \* episode_history: duration and reward of each step
  raised,          \* the episode was ended by an exception
  score,           \* ep_score, 0 before it is computed
  session,         \* _session_id
  target,          \* _target_ip is not empty
  baseline,        \* _baseline_duration
  step_count,      \* _state.step_count
  locked,          \* sessions that have not been closed
  undelivered      \* sessions whose Close failed

driverVars == <<dpc, episode, attempt, history, raised, score>>
objectVars == <<session, target, baseline, step_count, locked, undelivered>>
vars == <<driverVars, objectVars>>

Session == (1 .. NumTasks) \X {1, 2}

TypeOK ==
  /\ dpc \in {"reset", "reset_again", "step", "score", "end", "exit", "finished"}
  /\ episode \in 1 .. NumTasks
  /\ attempt \in 0 .. MaxRetries - 1
  /\ history \in Seq([duration : Durations, reward : 1 .. 99])
  /\ Len(history) <= MAX_STEPS
  /\ raised \in BOOLEAN
  /\ score \in {0} \union 10 .. 990
  /\ session \in Session \union {NoSession}
  /\ target \in BOOLEAN
  /\ baseline \in Durations
  /\ step_count \in 0 .. EnvMaxSteps
  /\ locked \subseteq Session
  /\ undelivered \subseteq locked

\* A new connection: SocketTunerEnvironment.__init__, then the first episode.
Init ==
  /\ dpc = "reset"
  /\ episode = 1
  /\ attempt = 0
  /\ history = <<>>
  /\ raised = FALSE
  /\ score = 0
  /\ session = NoSession
  /\ target = FALSE
  /\ baseline = 0
  /\ step_count = 0
  /\ locked = {}
  /\ undelivered = {}

-----------------------------------------------------------------------------
(* The object.                                                             *)

\* reset succeeds.  The last session is not closed.  An observation may be
\* missing, and one of a connection that was not measured has no duration.
ObjectReset(s, t, b) ==
  /\ b > 0 => t
  /\ session' = s
  /\ target' = t
  /\ baseline' = b
  /\ step_count' = 0
  /\ locked' = locked \union {s}
  /\ UNCHANGED undelivered

\* Steps are counted before they are taken; counts above the limit compare alike.
Counted == IF step_count < EnvMaxSteps THEN step_count + 1 ELSE step_count

\* A step raises: nothing but the count changes.
ObjectStepFails ==
  /\ step_count' = Counted
  /\ UNCHANGED <<session, target, baseline, locked, undelivered>>

\* Close is sent for the session, whose id is kept; a failure is swallowed.
CloseSession ==
  \/ locked' = locked \ {session} /\ undelivered' = undelivered \ {session}
  \/ UNCHANGED locked /\ undelivered' = undelivered \union (locked \intersect {session})

\* Faulty Done: one step too many.
DoneLate(d) == DoneEarly(baseline, d) \/ step_count >= EnvMaxSteps

\* What step reports in done.  response.done is false in every answer of an
\* agent, which sets it only together with an error.
Done(d) == DoneEarly(baseline, d) \/ Counted >= EnvMaxSteps

\* A step that measured d.
ObjectStep(d) ==
  /\ step_count' = Counted
  /\ IF Done(d) THEN CloseSession ELSE UNCHANGED <<locked, undelivered>>
  /\ UNCHANGED <<session, target, baseline>>

-----------------------------------------------------------------------------
(* Exceptions.                                                             *)

\* The exception reaches the handler of the episode.
Raise ==
  /\ dpc' = "score"
  /\ attempt' = 0
  /\ raised' = TRUE
  /\ UNCHANGED <<episode, history, score>>

\* Faulty RetryOrRaise: the last attempt is followed by a first one.
RetryForEver ==
  /\ attempt' = (attempt + 1) % MaxRetries
  /\ UNCHANGED <<dpc, episode, history, raised, score>>

\* Faulty RetryOrRaise: one attempt too many.
RetryOnceMore ==
  IF attempt < MaxRetries
  THEN attempt' = attempt + 1 /\ UNCHANGED <<dpc, episode, history, raised, score>>
  ELSE Raise

\* An error that the driver retries, after a sleep, up to its last attempt.
RetryOrRaise ==
  IF attempt < MaxRetries - 1
  THEN attempt' = attempt + 1 /\ UNCHANGED <<dpc, episode, history, raised, score>>
  ELSE Raise

-----------------------------------------------------------------------------
(* Resets.                                                                 *)

ResetSucceeds(t, b) ==
  /\ dpc = "reset"
  /\ ObjectReset(<<episode, 1>>, t, b)
  /\ dpc' = IF t THEN "step" ELSE "reset_again"
  /\ attempt' = 0
  /\ UNCHANGED <<episode, history, raised, score>>

\* "no free agents": the object has used up its own attempts.
ResetBusy ==
  /\ dpc = "reset"
  /\ RetryOrRaise
  /\ UNCHANGED objectVars

\* Faulty ResetFails: the steps are tried all the same.
ResetFailsSilently ==
  /\ dpc = "reset"
  /\ dpc' = "step"
  /\ UNCHANGED <<episode, attempt, history, raised, score, objectVars>>

\* Any other error.
ResetFails ==
  /\ dpc = "reset"
  /\ Raise
  /\ UNCHANGED objectVars

\* The second reset, whose observation is taken as it is.
ResetAgainSucceeds(t, b) ==
  /\ dpc = "reset_again"
  /\ ObjectReset(<<episode, 2>>, t, b)
  /\ dpc' = "step"
  /\ UNCHANGED <<episode, attempt, history, raised, score>>

ResetAgainFails ==
  /\ dpc = "reset_again"
  /\ Raise
  /\ UNCHANGED objectVars

-----------------------------------------------------------------------------
(* Steps.                                                                  *)

\* An agent takes a Step only for an address.
StepSucceeds(d, r) ==
  /\ dpc = "step"
  /\ target
  /\ r \in Rewards(baseline, d)
  /\ ObjectStep(d)
  /\ history' = Append(history, [duration |-> d, reward |-> r])
  /\ dpc' = IF Done(d) \/ Len(history') = MAX_STEPS THEN "score" ELSE "step"
  /\ attempt' = 0
  /\ UNCHANGED <<episode, raised, score>>

\* "no metric found" or "invalid ipv4".
StepTransient ==
  /\ dpc = "step"
  /\ ObjectStepFails
  /\ RetryOrRaise

\* Any other error.
StepFails ==
  /\ dpc = "step"
  /\ ObjectStepFails
  /\ Raise

-----------------------------------------------------------------------------
(* The end of an episode and of the run.                                   *)

RewardsOf(h) == [i \in 1 .. Len(h) |-> h[i].reward]

\* With or without an exception the score is that of the steps taken so far.
ComputeScore(s) ==
  /\ dpc = "score"
  /\ s \in Scores(RewardsOf(history), MAX_STEPS)
  /\ score' = s
  /\ dpc' = "end"
  /\ UNCHANGED <<episode, attempt, history, raised, objectVars>>

\* ep_success
Success == score >= Threshold

\* log_end, then the next episode or the end of the async with block.
LogEnd ==
  /\ dpc = "end"
  /\ IF episode < NumTasks
     THEN dpc' = "reset" /\ episode' = episode + 1
     ELSE dpc' = "exit" /\ UNCHANGED episode
  /\ history' = <<>>
  /\ raised' = FALSE
  /\ score' = 0
  /\ UNCHANGED <<attempt, objectVars>>

\* The connection is closed and the server closes the object.
Exit ==
  /\ dpc = "exit"
  /\ IF session = NoSession
     THEN UNCHANGED <<locked, undelivered>>
     ELSE CloseSession
  /\ session' = NoSession
  /\ dpc' = "finished"
  /\ UNCHANGED <<episode, attempt, history, raised, score, target, baseline,
                 step_count>>

-----------------------------------------------------------------------------

Next ==
  \/ \E t \in BOOLEAN, b \in Durations :
       ResetSucceeds(t, b) \/ ResetAgainSucceeds(t, b)
  \/ ResetBusy
  \/ ResetFails
  \/ ResetAgainFails
  \/ \E d \in Durations : \E r \in Rewards(baseline, d) : StepSucceeds(d, r)
  \/ StepTransient
  \/ StepFails
  \/ \E s \in Scores(RewardsOf(history), MAX_STEPS) : ComputeScore(s)
  \/ LogEnd
  \/ Exit

Spec == Init /\ [][Next]_vars

\* The driver runs, and every call it waits for returns or raises (see
\* MethodsReturn in Environment).
FairSpec == Spec /\ WF_vars(Next)

-----------------------------------------------------------------------------
(* Properties.                                                             *)

\* The driver takes steps only in a session of its own episode that is open.  A
\* failed reset leaves the object with the session, the target and the baseline
\* of an earlier episode, and a step of an episode that is done would act on an
\* agent that may belong to somebody else (inference.py:198-206, 230, 270;
\* socket_tuner_environment.py:227-232).
StepsInOwnSession ==
  dpc = "step" => session \in locked /\ session[1] = episode

\* An episode that ends without an exception gives the agent of its session back:
\* the step that is the driver's last one is the one that the object closes the
\* session in, also when failed attempts have moved the two counts apart.  The
\* limit of the driver must not be below that of the object.  The agent of a
\* session that the driver's second reset has replaced is left to the router's
\* cleanup (inference.py:229; socket_tuner_environment.py:225).
EndReleasesAgent ==
  dpc = "end" /\ ~raised => session \notin locked \ undelivered

\* "Any step which reduced time by >=25% gets >=0.5"
\* (socket_tuner_environment.py:212): one such step is enough for the episode to
\* be a success, even if an exception ends it (inference.py:275-284).
GoodStepSucceeds ==
  \A i \in 1 .. Len(history) :
    /\ dpc = "end"
    /\ Comparable(baseline, history[i].duration)
    /\ AtMost(history[i].duration, baseline, 3, 4)
    => Success

\* A success is earned: some step was measured and was faster than a measured
\* baseline.  Rewards of 0.01 for steps that were not do not add up to it
\* (socket_tuner_environment.py:204-218; inference.py:275).
SuccessIsEarned ==
  dpc = "end" /\ Success =>
    \E i \in 1 .. Len(history) :
      Comparable(baseline, history[i].duration) /\ history[i].duration < baseline

\* Every episode gets to its [END] line and the run to its end, whatever fails
\* on the way (inference.py:30, 206, 285).
DriverFinishes == <>(dpc = "finished" /\ episode = NumTasks)
=============================================================================
