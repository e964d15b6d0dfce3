# socket-tuner: TLA+ models and proofs

This directory holds TLA+ specifications of socket-tuner, translated from its
source, the TLC configurations that check them on small instances, and TLAPS
proofs of the results that matter most for every size of the system. Paths below
are relative to the repository's root (`src/`); `PROJECT.json` maps every
definition to the lines it stands for.

## The system

socket-tuner is a reinforcement-learning environment. A user (an LLM driver or the
web page) resets an *episode*, which runs a network command once as a baseline,
and then takes *steps*: each one tunes the sockets to one address and runs the
command again. The parts:

| Component | Source | State | Operations |
| --- | --- | --- | --- |
| environment | `server/socket_tuner_environment.py` | `_session_id`, step counter, baseline | `reset` (up to 3 attempts), `step` (closes the session when the episode is done), `close` |
| router server | `env-router/internal/grpcserver` | none of its own: one goroutine per call | `Reset`, `Step`, `Close`, each several pool calls around one call to an agent |
| agent pool | `env-router/internal/pool` | map address -> connection, `Busy`, `pendingRemoval`, `LastActivity`, under one mutex | `AddAgent`, `RemoveAgent`, `LockFreeAgent`, `FreeAgent`, `TouchAgent`, `CleanupStaleAgents`, `RemoveAgentsNotIn`, `Close`, the counters |
| router process | `env-router/main.go` | the tickers, the signal channel | periodic cleanup, SIGTERM, `GracefulStop`, deferred `Close` |
| endpoint watcher | `env-router/internal/k8s/watcher.go` | the current watch, the current sync | `run`, `watchLoop`, `syncEndpoints`, `Stop` |
| autoscaler | `env-router/internal/k8s/scaler.go` | the warm pool size; what a `reconcile` has read | `reconcile`, `SetWarmPoolSize`, `Start`, `Stop` |
| agent server | `env-ebpf-agent/internal/grpcserver` | one goroutine per call | `Reset`, `Step` |
| executor | `env-ebpf-agent/internal/executor` | `lastCommand`, unprotected | `SetCommand`, `Run` |
| eBPF manager | `env-ebpf-agent/internal/ebpfmgr` | handles of the maps | `SetAction`, `GetMetricForPid` |
| sockops program | `env-ebpf-agent/ebpf/socket_tuner.c` | `action_map`, `metrics_map`, `cookie_pid_map`, never cleaned | connect, established and state callbacks |
| inference driver | `inference.py` | episode, attempt, rewards so far | three episodes of `reset` and `step` with retries, score |
| models, client, web page | `client.py`, `models.py`, `server/app.py` | none | conversions |

How they interact. The environment calls the router over gRPC; the router
forwards `Reset` and `Step` to one agent. The session id *is the agent's
address*: `Reset` locks an agent and returns its address, and `Step` and `Close`
look the address up. The pool is shared by all handlers, the watcher, the cleanup
goroutine and the autoscaler. The agent's handlers share the executor and, through
the maps, the kernel with every other process of the node.

What is hard here:

* *Interleaving*: a handler gives the pool's mutex back between any two pool calls
  and while the agent works; meanwhile the watcher may remove its agent, the
  cleanup may release it, and another session may get it.
* *Lost answers, crashes, retries*: a `Reset` whose answer is lost leaves a locked
  agent that nobody knows; `reset` tries again; the client may die.
* *Ordering*: endpoints change between the watcher's Get and its Watch; a watch
  breaks and loses events; a sync is many pool calls.
* *Timeouts*: the cleanup decides from the time of the last call that a session is
  dead.
* *Decisions on old counts*: the autoscaler reads the pool twice and the Deployment
  once, and writes the Deployment last; each may have changed by then.
* *Numbers*: reward, early end and success come from a quotient of two durations, each
  of which may be missing, through a clamp and two roundings.
* *State that is never cleaned*: tuning parameters, metrics keyed by process id,
  maps with a limit; `lastCommand` is written and read without a lock.

## Modules

| Module | Models | Composes |
| --- | --- | --- |
| `AgentLifecycle` | what the pool promises for each address: absent, idle, leased, draining, and the arrows between them | |
| `Pool` | `pool.go`, one action per method (each holds the mutex throughout) | shown to implement `AgentLifecycle` |
| `PoolProofs` | theorems about `Pool` | `Pool`, TLAPS |
| `Router` | the gRPC server's handlers, the cleanup goroutine, shutdown, clients | extends `Pool` |
| `RouterProofs` | theorems about `Router` | `Router`, `PoolProofs` |
| `Dispatch` | the router with its agents: which command an agent holds, restarts of agents, Resets that are late | extends `Router` |
| `DispatchProofs` | theorems about `Dispatch` | `Dispatch`, `RouterProofs` |
| `Environment` | the Python environment object | extends `Router` |
| `EnvironmentProofs` | theorems about `Environment` | `Environment`, `RouterProofs` |
| `Reward` | reward, early end and score, as operators | |
| `Inference` | the driver and the object as the driver sees it | extends `Reward` |
| `InferenceProofs` | theorems about `Reward` and `Inference` | `Inference`, TLAPS |
| `Scaler` | the autoscaler, the Deployment and its pods | extends `Pool` |
| `ScalerProofs` | theorems about `Scaler` | `Scaler`, `PoolProofs` |
| `Watcher` | the endpoint watcher and the API server it talks to | extends `Pool` |
| `WatcherProofs` | theorems about `Watcher` | `Watcher`, `PoolProofs` |
| `Agent` | agent server, executor, eBPF manager, sockops program, processes of the node | |
| `AgentProofs` | theorems about `Agent` | `Agent`, TLAPS |
| `MCDispatch`, `MCAgent`, `MCScaler` | symmetry sets and values of constants for TLC | |

A definition that is introduced by "Faulty ..." is a plausible mistake in the
definition below it. No specification uses it; it exists to show that the property
it is paired with in `PROJECT.json` can fail.

### Pool

The Go map is the set `agents` of its keys plus, for each Boolean field, the set of
keys whose entry has it set. `LastActivity` is an `age` in ticks; ages above
`SessionTimeout` all compare alike with the timeout, so they saturate just above it
and nothing is lost. `conns[a]` counts the open `grpc.ClientConn`s to an address; the
code has no such counter, but every `grpc.Dial` and `Conn.Close` changes it.
`LockFreeAgent(a)` may pick any free agent since Go's map iteration order is random.
`Release` and `Retire` are the loop bodies that `FreeAgent`/`CleanupStaleAgents` and
`RemoveAgent`/`RemoveAgentsNotIn` share. `Close` leaves the entries in the map and is
the last thing the process does, so nothing follows it.

### Router

`call[h]` is one goroutine of the server: where it is (`pc`), the address and
connection it holds (`addr`, `open`) and who waits for it (`caller`). Every pool call
and the return of the call to the agent is a step. `session[c]` is the session id a
client holds. `GiveUp` is a deadline or a broken connection between client and router;
the handler goes on without a client. `Crash` replaces a client by one that knows no
session. The watcher appears as arbitrary `AddAgent` and `RemoveAgentsNotIn` calls,
which covers everything the module `Watcher` can do.

Three assumptions can be switched on where a property needs them. `Prompt`: time does
not carry a session that is in use past the timeout (a `Step` is limited to 30
seconds by the executor, and the timeout's default is minutes; a user may of course be
slower, and then loses the agent by design). Clients keep to `agent.proto`'s protocol:
one call at a time, no use of a session after its `Close`. `DoneReplies`: what an agent
may report in `Done`; this repository's agent always reports `false`.

### Dispatch

`Router` says who may talk to which agent; `Dispatch` adds what the agent then does.
`command[a]` is `lastCommand` of the agent at `a`, and `asked[h]` the command of the
Reset that handler `h` works on, so that "the episode runs its own command" becomes a
statement about client, router and agent together. An agent may restart under its
address at any time: it has no command then, a Step fails with "no command set", and
the Resets it was working on fail. A Reset that the router has given up on may still be
on its way (`late`): gRPC cancels it, but `SetCommand` does not look at the context, so
it may still store its command in an agent that has a new episode. The variable
`overwritten` marks such agents until their next Reset. Baseline runs are atomic here;
that two Resets can interleave *inside* one agent is the subject of `Agent`.

### Scaler

`reconcile` is four steps: `ReadFreeCount`, `ReadTotalCount`, `GetScale` (with the
decision) and `UpdateScale`, since the pool's mutex is given back between the reads and
the API server is asked twice. `unmodified` is the API server's resource version, reduced
to what it decides: an update is accepted only if the scale is still the one that was
read. GetScale and UpdateScale may fail at any time, UpdateScale also by conflicts with
writes that leave the replicas alone (the status of the Deployment). Pods start and stop
with the replicas, may be lost, and somebody may scale by hand. The watcher appears as
what `Watcher` shows of it: it adds running pods and removes the others.

A miscount is possible and harmless for `NeverToZero`: an agent that leaves between the
reads makes `busyCount` too small, even negative. `WarmPoolConverges` needs the premise
that this stops happening. Without it TLC finds an endless oscillation: each scale-down
stops a pod just between the two reads of the next tick, the miscount leads to the next
wrong scale, and so on. It takes the same coincidence in every tick, and no document
excludes it. The second observation is in `WarmPoolIsRight`: an agent whose pod is gone
in the middle of an episode counts as busy, so the Deployment has one idle agent more
than the target until that episode ends.

### Watcher

`endpoints` is what the API server has, `stream` the events on their way to the open
watch. `watchLoop` is the program counter `wpc`: Get, sync (one `AddAgent` per step,
then `RemoveAgentsNotIn`), Watch, receive. Gets and Watches may fail at any time, the
stream may break after any prefix and may carry error events; `EpisodeStarts` and
`EpisodeEnds` let the pool change during a sync. A watch opened without a resource
version starts with the object as it is, as the Kubernetes API does.

### Agent

A handler goes through `SetCommand` (two stores, in either order, since a Go string is
two words and nothing locks it), `SetAction`, `Run` and the look-up of its metrics. A
process connects, is tuned in the established callback from `action_map`, and is
measured in the state callback; every process of the node goes through the same
callbacks. The maps have limits, and an update of a full map fails without a trace.
`run` and `applied` of an entry record what it was measured on, for the properties
only. So does `overtaken` of a call: another Step for the same address has installed its
action since this one did. `Restart` is a restart of the container under the same address.

### Environment

A client of `Router` becomes an environment object with its methods: `reset` with its
attempts, `step` with its counter and the `Close` it sends at the end of an episode,
`close`. It keeps `_session_id` after that `Close`, as the code does, so it is *not* a
client that keeps to the protocol; that is why the module states its own exclusion
property and does not inherit the router's.

### Reward and Inference

`Reward` keeps the numbers exact: rewards are hundredths, scores thousandths, quotients
are compared by cross-multiplication, and `round` is any nearest integer. (Division and
rounding of floating-point numbers are monotone, so that a quotient of at least 1/4 stays
at least 1/4; a tie may go either way, and does in the model.)

`Inference` is `main` of `inference.py`, one action per outcome of a call, together with
the object's side of the call: the session id, whether a target is known, the baseline
and the step count, which the driver does not see. An outcome of the router or the agent
is a free choice. `locked` is the set of sessions that were not closed, `undelivered`
the part of it whose Close was tried and failed (`step` swallows that).

## Runs

| Run | Instance | What it shows |
| --- | --- | --- |
| `dispatch` | 1 address and one that cannot be dialled, 2 clients, 3 handlers, 2 commands, 1 late Reset | `DedicatedAgent`: an agent serves one episode; `EpisodeKeepsConnection`: its connection is not closed under it; `EpisodeRunsItsCommand`: it runs that episode's command or none; below them `PendingIsBusy`, `ConnsMatchEntries` and the refinement of `AgentLifecycle` (`ImplementsLifecycle`) hold of the pool |
| `router_live` | 1 address, 2 clients, 2 handlers, no `Prompt`, `Done` allowed | `LeaksAreReclaimed`: an agent locked for nobody is released; `ShutdownCompletes`: SIGTERM ends the process |
| `router_failed_setup` | 1 of each | finding 1 |
| `watcher` | 2 addresses, 2 events on their way | `QuietMeansCurrent`: a watcher with nothing to read has an up-to-date pool; `ListedAgentStays`: failed Gets, broken watches and ERROR events cost no agent that stays listed (DELETED is finding 2); `PoolConverges`: the pool catches up |
| `watcher_deleted` | 1 address | finding 2 |
| `scaler` | 3 addresses, target 1 or 2 and a refused one, 1 manual change or lost pod | `NeverToZero`; `NoScaleLost`: a scale set between Get and Update is not overwritten; `WarmPoolConverges`: a pool at rest gets its idle agents |
| `agent` | 2 handlers, 2 addresses, 2 actions, 2 process ids, 3 processes, room for one entry in each map | `ObservationIsOfThisRun`: overlapping calls do not mix their observations up; `StepMeasuresItsAction`: what a Step reports about its address was measured under its own parameters unless another Step overtook it, with full maps, failing commands, foreign processes and restarts; `TypeOK`: only words of commands that passed the hash test are stored and run |
| `agent_command` | 2 handlers, 2 process ids, 2 processes | finding 3 |
| `agent_baseline` | 1 handler, 3 processes | finding 4 |
| `environment` | 2 addresses, 1 object, 2 handlers, 2 steps, 2 attempts, 1 lost reply | `EpisodeKeepsAgent`: an episode keeps its agent until it is done; `MethodsReturn`: no method waits for ever |
| `environment_concurrent` | 1 address, 2 objects | finding 5 |
| `inference` | 2 episodes, 5 steps, 3 attempts, durations 0, 2, 3, 4, threshold 0.1 | `StepsInOwnSession`: no step in a session of another episode or a closed one; `EndReleasesAgent`: an episode that ends normally gives the agent of its session back although failed attempts count in the object and not in the driver (an agent whose session a second reset replaced is left to the cleanup); `GoodStepSucceeds` and `SuccessIsEarned`: what a success means; `DriverFinishes` |

### Bounds

* One dialable address is where clients compete; no pool method looks at more than one
  entry at a time. One agent is all TLC can do for `EpisodeRunsItsCommand`, as two with
  their commands are too many states. For the safety properties of all modules the
  theorems below remove the bounds; they matter for liveness. Three handlers for two clients
  allow an abandoned call next to a call of each client. A timeout of one tick has a
  fresh, an old and a stale session. Two commands tell "mine" from "another one";
  `MaxLate` bounds the late Resets on their way, not their number.
* Two events on their way allow an outdated one in front of a current one; a sync in
  progress is a third place where an old list survives.
* `MaxActions = MaxMetrics = MaxCookies = 1` with two addresses, two process ids and three
  processes make every map overflow. `MaxRuns` bounds the processes; a baseline, a step
  and a foreign process fit.
* `MaxEdits` bounds what happens to the Deployment from outside; the autoscaler's own
  steps, the episodes and the pods are not bounded. Three addresses hold
  a busy agent, an idle one and one whose pod is gone.
* `Inference` has the code's `MAX_STEPS` (5, in both files), attempts (3) and threshold:
  they are the boundary that matters, one reward of 0.50 in five steps being a score of
  exactly 0.1. The durations give reductions of 0, 25, 33 and 50 percent, slower runs and
  missing measurements. `EndReleasesAgent` depends on the driver's limit not being below
  the object's. Two episodes have a first and a last one.
* `MaxLost` bounds the lost replies of `Environment`; `MAX_STEPS` and `MaxRetries` keep
  their names and are smaller than in the code (the properties do not depend on them
  beyond 2).
* The runs of `Router` and `Dispatch` allow deadlock: the process may end.

### Fairness

* `Router`: the cleanup ticker fires, the clock advances, every handler goes on (pool
  calls do not block, and the agent ends its command after 30 seconds, so that a call to
  it ends with an answer or an error), and `main` returns once `GracefulStop` does.
  Nothing is assumed of clients, endpoints or the watcher.
* `Watcher`: the goroutine runs and the retry timer fires (weak fairness); an API server
  that is asked again and again answers at last (strong fairness of `GetEndpoints` and
  `OpenWatch`).
* `Scaler`: the goroutine runs and its ticker fires, the deployment controller and the
  watcher do their work (weak fairness); GetScale and UpdateScale, tried at every tick,
  succeed at last (strong fairness). Nothing is assumed of episodes and of people.
* `Inference`: the driver goes on, since every call it waits for returns or raises, which
  is `MethodsReturn` of `Environment`.
* `Environment`: handlers return, and an object that has slept, or has an episode to
  close, makes its next call. Users need not do anything.

### Findings

1. A failed setup does not free the node. The comment at
   `env-router/internal/grpcserver/server.go:39` says "If setup fails, immediately free
   the node", but an agent that refuses or fails the command answers with
   `Success=false` and no error, and the node stays locked until the session timeout.
2. A DELETED event only logs. `watcher.go:103` says "Service deleted — remove all
   agents."
3. `lastCommand` is shared by overlapping Resets: a baseline can run the other one's
   command, or a string made of both (`executor.go:27`).
4. A baseline can be tuned: `Reset` does not clear `action_map`, so that a later episode
   to the same address starts from an earlier episode's parameters
   (`env-ebpf-agent/internal/grpcserver/server.go:36`).
5. The environment sends a second `Close` for a finished episode: `step` keeps
   `_session_id` after its `Close`. By then the agent may belong to another environment,
   and loses it in the middle of its episode (`socket_tuner_environment.py:79, 227`).

The autoscaler departs from its comment too ("maintains warmPoolSize idle agents",
`scaler.go:27`), in the two ways described under Scaler: a miscount in every tick keeps it
from ever getting there, and an agent that drains lets it keep one idle agent more.
`WarmPoolConverges` states what remains true: the first is excluded by its premise, the
second is part of `WarmPoolIsRight`.

Two behaviours that no document contradicts were left as conditions of the properties:
metrics are keyed by process id and never deleted, so a reused id can be answered with
an old process's metrics (`ObservationIsOfThisRun` excludes reused ids), and an
observation of a run that connected to another address than the tuned one says nothing
about the tuning (`StepMeasuresItsAction` asks for the address).

## Proofs

`PoolProofs`, for any set of addresses and any timeout (assumption `PoolAssumption`:
`Undialable` is a subset of `Addr` and the timeout is a natural number):

* `PoolTypeCorrect`, `PoolPendingIsBusy`, `PoolConnsMatchEntries`. The inductive
  invariant is `PoolInv`, the conjunction of the three properties. None of the first two
  is inductive alone: a dropped entry leaves `busy` and `pendingRemoval` consistent only
  since marks sit on busy agents, and a count stays a natural number only since a dropped
  entry had its connection.
* `PoolImplementsLifecycle`: under the mapping `AgentStatus`, each method is one step of
  `AgentLifecycle` or a stutter. `Release(S)` is `EndLeases` of the busy part of `S`,
  `Retire(S)` is `Withdraw` of the unmarked entries of `S`.

`RouterProofs`, for any number of addresses, clients and concurrent calls (assumption
`RouterAssumption`):

* `RouterImplementsPool`: the router's specification implies the pool's, so all of the
  above holds of the pool inside the router. It needs `ControlInv`: a handler that holds
  an agent holds an address (never the empty session id), and a client waits for one call.
* `RouterTypeCorrect`.
* `RouterDedicatedAgent` and `RouterEpisodeKeepsConnection`, for `Prompt` and agents that
  do not report `Done`. The invariant is `RouterInv`. `DedicatedAgent` is not inductive:
  the cleanup could release a claimed agent. `Exclusive` adds that a claimed agent is not
  stale (`Held`). Then a claim is only made by `LockFreeAgent` on an agent that is not
  busy, hence not claimed; it moves from handler to client with the answer of `Reset` and
  back with `Close`; it ends with the release, which is by the only claimant; and neither
  the watcher, the cleanup nor the clock takes a held agent away. A connection is closed
  only with an entry, and an episode's agent keeps its entry because it is held.

`ScalerProofs`, for any finite set of addresses, any warm pool size, negative ones from
the environment included, and any number of changes from outside (`ScalerAssumption`):

* `ScalerImplementsPool`, `ScalerTypeCorrect`, `ScalerNeverToZero`, `ScalerNoScaleLost`. The
  invariant is `ScalerInv`. `NeverToZero` is not inductive, since `UpdateScale` sends a
  count that was decided earlier: `HeldScale` adds that this count was clamped, and that
  the scale is the one reconcile has read as long as nobody else wrote it, which is also
  what `NoScaleLost` needs.

`DispatchProofs`, for any number of addresses, clients, calls, commands and late Resets
(`DispatchAssumption`):

* `DispatchIsRouter`: every behaviour of router and agents together is one of the router,
  so that what is proved of `Router` holds here. `DispatchTypeCorrect`.
* `DispatchEpisodeRunsItsCommand`, under the router's two hypotheses (`Prompt`, no
  `Done`). The invariant is `DispatchInv`: `RouterInv`, the property, and `CommandInv`,
  by which a handler has a command until its Reset returns and an agent works for a handler
  only while that one waits for it. The property alone is not inductive, as the command that a
  Reset stores in an agent could be seen by an episode of somebody else: `Exclusive`, of
  `RouterInv`, says that nobody else has the agent.

`WatcherProofs`, for any set of addresses, any number of events on their way and every
behaviour of the API server (`WatcherAssumption`):

* `WatcherUsesPool`: the watcher changes the pool by the pool's methods only.
  `WatcherTypeCorrect`.
* `WatcherQuietMeansCurrent`. It speaks of a watcher with nothing to read; the invariant
  `WatcherInv` also says where the latest endpoints are before that. By `LatestIsComing`
  they are the last list in the stream of an open watch, or the watcher works on them, or
  the pool has them. By `SyncedSoFar` the episodes that start and end during a sync do not
  undo its first half. `IdleSync`, `WatchPlace` and `NoneUndialable` are about the places
  these two leave out.
* `WatcherListedAgentStays`, an action property, from the same invariant. It does not speak
  of DELETED events, so that a watcher that removes all agents then would satisfy it too.

`AgentProofs`, for any number of handlers, processes, addresses and commands and any size
of the maps (`AgentAssumption`):

* `AgentTypeCorrect`, which includes that no map exceeds its limit and that only words of
  allowed commands are stored and run. The latter is not inductive, as a store takes two
  steps after the hash test: `InputChecked` adds that a call between the two has passed it.
* `AgentObservationIsOfThisRun`. The invariant follows a process id from the start of the
  process to the look-up (`PidAfterStart`, `OwnerWaits`): until it is recycled it means,
  to the kernel and in `metrics_map`, the run of the call that has it (`PidMeansRun`).
* `AgentStepMeasuresItsAction`. The parameters are followed from the map to the socket to
  the numbers: the action of a Step that was not overtaken stays installed
  (`ActionInstalled`), a connection to its address has been tuned with it (`SocketTuned`),
  and so were the numbers measured on the connection (`EntryTuned`). `EntryOfSocket` is
  needed since a process that connects again reuses its entry. Each of the three alone fails
  at the callback that copies from the one before. `AgentInv` is the conjunction of all.

`EnvironmentProofs`, for any number of addresses, calls, steps, attempts and lost replies
(`EnvironmentAssumption`):

* `EnvironmentTypeCorrect` and `EnvironmentUsesPool`, for any number of objects.
* `EnvironmentEpisodeKeepsAgent`, for `Prompt` and one object. With two it is false, which
  is finding 5; the theorem shows that nothing else breaks it, neither the router's own
  steps nor the watcher's. The invariant is `EnvInv`. As long
  as no reply was lost it says that every call has somebody who waits for it (`Answered`), so
  that two calls of one object never meet; that a Close under way is for an object without an
  episode (`ClosingIsOver`); that an agent in an episode is held, that is busy and not stale
  (`EpisodeIsHeld`); and that one that is being set up is held too and is not an episode's,
  so that releasing it after a failure does no harm (`SetupIsHeld`).

`InferenceProofs`, for all durations and for sequences of any length:

* Rewards. `RewardInRange`: a reward is 0.01 to 0.99. `GoodStepReward`: "Any step which
  reduced time by >=25% gets >=0.5" (`socket_tuner_environment.py:212`).
  `EarlyStepReward`: a step that ends the episode early has 0.99. `SlowStepReward`: a step
  that is not faster, or cannot be compared, has 0.01. `FasterNeverGetsLess`: the faster of
  two steps of an episode never has the lower reward. The lemmas bound `Nearest` from both
  sides and show that it keeps the order, `ProductOrder` being the one fact of nonlinear
  arithmetic.
* Scores. `ScoreInRange`: 0.01 to 0.99. `GoodStepScore`: one reward of 0.50 is enough for a
  threshold of at most 0.5 / `MAX_STEPS`. `UnearnedScore`: rewards of 0.01 only give a
  score of 0.01. They need what a sum over a sequence of any length is bounded by. The
  library's induction theorems take the property as an operator, which the provers cannot
  instantiate; the lemma `Induction` says it with a set, and follows from the least element
  of the complement (`WFMin`, `NatLessThanWellFounded`).
* The driver, for any number of tasks, steps and attempts (`InferenceAssumption`).
  `InferenceTypeCorrect` and `InferenceStepsInOwnSession` need no more.
  `InferenceEndReleasesAgent` asks for `EnvMaxSteps <= MAX_STEPS`,
  `InferenceGoodStepSucceeds` for a threshold of at most 0.5 / `MAX_STEPS` and
  `InferenceSuccessIsEarned` for one above 0.01: the code has 5, 5 and 0.1. The invariant is
  `InferenceInv`. `StepRoom` says that the object has counted at least the driver's steps, failed attempts
  being counted by the object only, so that the object ends the episode no later than the
  driver; `RewardsOfBaseline` and `ScoreOfEpisode` tie score and rewards to the durations
  they came from, which takes a baseline that does not change during an episode.

Every safety invariant and every action property of a passing run is stated by a theorem.
Only model-checked are the liveness properties, which the prover does not handle:
`LeaksAreReclaimed`, `ShutdownCompletes`, `PoolConverges`, `WarmPoolConverges`,
`MethodsReturn` and `DriverFinishes`.

## Not modelled

* `models.py` and `client.py`: conversions that copy a message field by field, with a
  change of unit. They have no state, and no property tells the values apart.
* The rotation of the three tasks (`_reset_count`): which allowed command an episode has is
  a free choice. In `Environment` the early end is a free choice; `Inference` has its rule.
* The language model: its answer is an action like any other, and every failure of
  `get_model_action` is caught and replaced by a fixed action.
* Kernel numbers (congestion control, windows) and the options the sockops program sets:
  one opaque action. `rto_min`, `enable_ecn` and `pacing_status` are stored in `action_map`
  and read by nothing. `ipToKey` is a fixed change of byte order on an opaque address.
* Processes with several connections. A process of the model makes one connection in its
  life, after failed attempts if any. That is what the three commands of `allowedHashes`
  do (`curl` with one URL and without `-L`). A state callback of an earlier socket that
  lingers while its process has a new one (`socket_tuner.c:109-130`) is thereby left out.
* The moment between the arrival of an agent's answer at the router and the return of the
  handler: an answer that has arrived just before its connection is closed counts as a
  failed call.
* `ebpf/vmlinux.h`, 164116 lines: the kernel's type declarations as `bpftool` dumps them,
  without a single statement. `socket_tuner.c`, the C code of this repository, is mapped
  from the declaration of its maps to its last callback; the rest of it are constants and
  the fields of the opaque action. As almost all C lines of the repository are in that
  dump, the share of C lines that are mapped says nothing about the rest, which is Go and
  Python.
* `GetMetrics` of the eBPF manager has no caller; the agent's `Close` is commented out.
* Start-up: flags, environment variables, loading of the eBPF objects, connecting to
  Kubernetes. They come before any concurrency and end the process if they fail.
* Web page, generated code, manifests and scripts: no logic of this system's own.

## Plan

1. *Done*: `Pool`, `AgentLifecycle`, `Router`, `Dispatch`, `Watcher`, `Scaler`, `Agent`,
   `Environment`, `Reward`, `Inference`, and proofs of the safety properties of all of
   them.
2. Left: what the router guarantees to an environment object when several objects share
   it and none of them closes an episode twice (the code after a correction of finding 5).
   The liveness properties stay with TLC.
