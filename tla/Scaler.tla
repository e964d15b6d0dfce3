------------------------------- MODULE Scaler -------------------------------
(***************************************************************************)
(* The autoscaler, env-router/internal/k8s/scaler.go, over the pool and the*)
(* Deployment it scales.                                                   *)
(*                                                                         *)
(* reconcile reads the pool twice, asks the API server for the scale and   *)
(* sends it back changed: four steps, and the pool and the Deployment may  *)
(* change between any two of them.  The API server, the deployment         *)
(* controller and the kubelets are external.  The endpoint watcher is here *)
(* only what it promises, that the pool follows the pods (see Watcher).    *)
(***************************************************************************)
EXTENDS Pool, Integers

CONSTANTS
  WarmPoolSize,    \* WARM_POOL_SIZE, as it was read from the environment
  WarmSizes,       \* the sizes SetWarmPoolSize is called with
  Replicas,        \* the replicas of the Deployment before the router starts
  MaxEdits         \* bounds the changes nobody here has control of

ASSUME ScalerAssumption ==
  /\ IsFiniteSet(Addr)
  /\ WarmPoolSize \in Int
  /\ WarmSizes \subseteq Int
  /\ Replicas \in Nat \ {0}
  /\ MaxEdits \in Nat

VARIABLES
  replicas,        \* Spec.Replicas of the Deployment
  pods,            \* the addresses of its running pods
  edits,           \* number of manual changes and pods lost so far
  spc,             \* what the scaler executes next
  freeCount,       \* what reconcile has read and computed; 0 when not in use
  busyCount,
  currentReplicas,
  desiredReplicas,
  unmodified,      \* the scale that reconcile holds is still the latest one
  warmPoolSize,
  cancelled        \* Stop has cancelled the context

clusterVars == <<replicas, pods, edits>>
localVars == <<freeCount, busyCount, currentReplicas, desiredReplicas>>
scalerVars == <<clusterVars, spc, localVars, unmodified, warmPoolSize, cancelled>>
vars == <<poolVars, scalerVars>>

TypeOK ==
  /\ PoolTypeOK
  /\ replicas \in Nat
  /\ pods \subseteq Addr
  /\ edits \in 0 .. MaxEdits
  /\ spc \in {"wait", "total", "get", "update", "stopped"}
  /\ freeCount \in Nat
  /\ busyCount \in Int
  /\ currentReplicas \in Nat
  /\ desiredReplicas \in Nat
  /\ unmodified \in BOOLEAN
  /\ warmPoolSize \in {WarmPoolSize} \union Nat
  /\ cancelled \in BOOLEAN

\* NewAutoScaler and Start.
Init ==
  /\ PoolInit
  /\ replicas = Replicas
  /\ pods = {}
  /\ edits = 0
  /\ spc = "wait"
  /\ freeCount = 0
  /\ busyCount = 0
  /\ currentReplicas = 0
  /\ desiredReplicas = 0
  /\ unmodified = FALSE
  /\ warmPoolSize = WarmPoolSize
  /\ cancelled = FALSE

-----------------------------------------------------------------------------
(* The cluster (external).                                                 *)

\* The deployment controller starts a pod, which has a new address or one that
\* was in use before.
PodStarts(a) ==
  /\ Cardinality(pods) < replicas
  /\ a \notin pods
  /\ pods' = pods \union {a}
  /\ UNCHANGED <<poolVars, replicas, edits, spc, localVars, unmodified,
                 warmPoolSize, cancelled>>

\* The deployment controller stops a pod.  It knows nothing of episodes.
PodStops(a) ==
  /\ Cardinality(pods) > replicas
  /\ a \in pods
  /\ pods' = pods \ {a}
  /\ UNCHANGED <<poolVars, replicas, edits, spc, localVars, unmodified,
                 warmPoolSize, cancelled>>

\* A pod is evicted or its node is lost.
PodLost(a) ==
  /\ edits < MaxEdits
  /\ edits' = edits + 1
  /\ a \in pods
  /\ pods' = pods \ {a}
  /\ UNCHANGED <<poolVars, replicas, spc, localVars, unmodified, warmPoolSize,
                 cancelled>>

\* Somebody else scales the Deployment.
ManualScale(n) ==
  /\ edits < MaxEdits
  /\ edits' = edits + 1
  /\ replicas' = n
  /\ unmodified' = FALSE
  /\ UNCHANGED <<poolVars, pods, spc, localVars, warmPoolSize, cancelled>>

-----------------------------------------------------------------------------
(* The rest of the router.                                                 *)

EndpointAdded(a) == a \in pods /\ AddAgent(a) /\ UNCHANGED scalerVars

EndpointsListed == RemoveAgentsNotIn(pods) /\ UNCHANGED scalerVars

EpisodeStarts(a) == LockFreeAgent(a) /\ UNCHANGED scalerVars

EpisodeEnds(a) == a \in busy /\ FreeAgent(a) /\ UNCHANGED scalerVars

-----------------------------------------------------------------------------
(* reconcile.                                                              *)

\* reconcile returns, and run waits for the next tick.
Return ==
  /\ spc' = "wait"
  /\ freeCount' = 0
  /\ busyCount' = 0
  /\ currentReplicas' = 0
  /\ desiredReplicas' = 0
  /\ unmodified' = FALSE
  /\ UNCHANGED <<poolVars, pods, edits, warmPoolSize, cancelled>>

\* The ticker fires.  A tick that comes together with Stop may still be taken.
ReadFreeCount ==
  /\ spc = "wait"
  /\ spc' = "total"
  /\ freeCount' = FreeCount
  /\ UNCHANGED <<poolVars, clusterVars, busyCount, currentReplicas,
                 desiredReplicas, unmodified, warmPoolSize, cancelled>>

ReadTotalCount ==
  /\ spc = "total"
  /\ spc' = "get"
  /\ freeCount' = 0
  /\ busyCount' = TotalCount - freeCount
  /\ UNCHANGED <<poolVars, clusterVars, currentReplicas, desiredReplicas,
                 unmodified, warmPoolSize, cancelled>>

\* Faulty Desired: a target of one or more is taken for enough.
DesiredUnclamped(n) == IF warmPoolSize < 1 THEN 1 ELSE n + warmPoolSize

\* Faulty Desired: the busy agents are not counted.
DesiredWarm(n) == IF warmPoolSize < 1 THEN 1 ELSE warmPoolSize

\* The replicas for n busy agents.
Desired(n) == IF n + warmPoolSize < 1 THEN 1 ELSE n + warmPoolSize

\* GetScale answers and the scale has to change.
GetScale ==
  /\ spc = "get"
  /\ ~cancelled
  /\ Desired(busyCount) # replicas
  /\ spc' = "update"
  /\ busyCount' = 0
  /\ currentReplicas' = replicas
  /\ desiredReplicas' = Desired(busyCount)
  /\ unmodified' = TRUE
  /\ UNCHANGED <<poolVars, clusterVars, freeCount, warmPoolSize, cancelled>>

\* GetScale answers and the scale is right.
ScaleIsRight ==
  /\ spc = "get"
  /\ ~cancelled
  /\ Desired(busyCount) = replicas
  /\ Return
  /\ UNCHANGED replicas

\* GetScale fails: the API server does not answer or the context is cancelled.
GetScaleFails ==
  /\ spc = "get"
  /\ Return
  /\ UNCHANGED replicas

\* Faulty UpdateScale: the scale is sent without the version it was read with.
UpdateScaleBlind ==
  /\ spc = "update"
  /\ ~cancelled
  /\ replicas' = desiredReplicas
  /\ Return

\* UpdateScale: the object carries the resourceVersion of the Get, and the API
\* server accepts it only if the scale has not been changed since.
UpdateScale ==
  /\ spc = "update"
  /\ ~cancelled
  /\ unmodified
  /\ replicas' = desiredReplicas
  /\ Return

\* UpdateScale fails: a conflict with any other write to the Deployment, its
\* status included, no answer, or a cancelled context.  There is no retry.
UpdateScaleFails ==
  /\ spc = "update"
  /\ Return
  /\ UNCHANGED replicas

-----------------------------------------------------------------------------
(* The other methods.                                                      *)

\* Faulty SetWarmPoolSize: any size is taken.
SetAnyWarmPoolSize(size) ==
  /\ warmPoolSize' = size
  /\ UNCHANGED <<poolVars, clusterVars, spc, localVars, unmodified, cancelled>>

\* A negative size is refused.
SetWarmPoolSize(size) ==
  /\ warmPoolSize' = IF size < 0 THEN warmPoolSize ELSE size
  /\ UNCHANGED <<poolVars, clusterVars, spc, localVars, unmodified, cancelled>>

Stop ==
  /\ ~cancelled
  /\ cancelled' = TRUE
  /\ UNCHANGED <<poolVars, clusterVars, spc, localVars, unmodified, warmPoolSize>>

\* run sees ctx.Done.
Stopped ==
  /\ spc = "wait"
  /\ cancelled
  /\ spc' = "stopped"
  /\ UNCHANGED <<poolVars, clusterVars, localVars, unmodified, warmPoolSize,
                 cancelled>>

-----------------------------------------------------------------------------

ScalerStep ==
  \/ ReadFreeCount
  \/ ReadTotalCount
  \/ GetScale
  \/ ScaleIsRight
  \/ GetScaleFails
  \/ UpdateScale
  \/ UpdateScaleFails
  \/ Stopped

Next ==
  \/ \E a \in Addr :
       \/ PodStarts(a)
       \/ PodStops(a)
       \/ PodLost(a)
       \/ EndpointAdded(a)
       \/ EpisodeStarts(a)
       \/ EpisodeEnds(a)
  \/ \E n \in 1 .. Cardinality(Addr) : ManualScale(n)
  \/ EndpointsListed
  \/ ScalerStep
  \/ \E size \in WarmSizes : SetWarmPoolSize(size)
  \/ Stop

Spec == Init /\ [][Next]_vars

\* The goroutine runs, its ticker fires, and an API server that is asked again
\* and again answers at last.  The deployment controller and the watcher do
\* their work.  Nothing is assumed of the episodes or of the people who scale.
Fairness ==
  /\ WF_vars(ScalerStep)
  /\ SF_vars(GetScale \/ ScaleIsRight)
  /\ SF_vars(UpdateScale)
  /\ WF_vars(\E a \in Addr : PodStarts(a))
  /\ WF_vars(\E a \in Addr : PodStops(a))
  /\ WF_vars(\E a \in Addr : EndpointAdded(a))
  /\ WF_vars(EndpointsListed)

FairSpec == Spec /\ Fairness

-----------------------------------------------------------------------------
(* Properties.                                                             *)

\* "never scale to zero" (scaler.go:83): the Deployment keeps a replica even
\* when an agent left the pool between the two reads and the busy agents were
\* miscounted, down to a negative number.
NeverToZero == replicas >= 1

\* reconcile replaces the scale it has looked at: a count that somebody else
\* set between its GetScale and its UpdateScale is not lost (scaler.go:73, 100).
NoScaleLost == [][UpdateScale => replicas = currentReplicas]_vars

\* The pool has the idle agents it should have: as many as the target, and one
\* more for every agent whose pod is gone in the middle of an episode, because
\* reconcile counts it among the busy agents of the Deployment.  It takes an
\* episode or a target, and a cluster with room for both.
WarmPoolIsRight ==
  Cardinality(busy) + warmPoolSize \in 1 .. Cardinality(Addr)
  => FreeCount = warmPoolSize + Cardinality(pendingRemoval)

\* "maintains warmPoolSize idle agents" (scaler.go:27).  Once no episode starts
\* or ends, the target stays, and no agent comes or goes just between the two
\* reads, the pool gets its idle agents and keeps them, whatever happened to
\* pods, scale and updates before.
WarmPoolConverges ==
  /\ <>[]~cancelled
  /\ <>[][UNCHANGED <<busy, warmPoolSize>>]_vars
  /\ <>[](spc = "total" => freeCount = FreeCount)
  => <>[]WarmPoolIsRight
=============================================================================
