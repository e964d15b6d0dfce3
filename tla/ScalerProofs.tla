---------------------------- MODULE ScalerProofs ----------------------------
(***************************************************************************)
(* Theorems about the autoscaler, for every finite set of addresses, every *)
(* warm pool size, negative ones from the environment included, and every  *)
(* interleaving with the pool, the cluster and the people who scale.       *)
(***************************************************************************)
EXTENDS Scaler, PoolProofs, FiniteSetTheorems

\* What reconcile holds between GetScale and UpdateScale.  The count it will
\* send is at least one, and as long as nobody else has written the scale, the
\* scale is the one it has read.
HeldScale ==
  spc = "update" =>
    /\ desiredReplicas >= 1
    /\ unmodified => replicas = currentReplicas

\* The inductive invariant.  NeverToZero needs HeldScale: UpdateScale sends a
\* count that was computed two steps before.
ScalerInv == TypeOK /\ PoolInv /\ ~closed /\ NeverToZero /\ HeldScale

\* FreeCount and TotalCount count finite sets.
LEMMA CountsAreNatural ==
  ASSUME PoolTypeOK
  PROVE  FreeCount \in Nat /\ TotalCount \in Nat
<1>1. Free \in SUBSET Addr /\ agents \in SUBSET Addr
  BY DEF PoolTypeOK, Free
<1>2. IsFiniteSet(Free) /\ IsFiniteSet(agents)
  BY <1>1, ScalerAssumption, FS_Subset
<1>3. QED
  BY <1>2, FS_CardinalityType DEF FreeCount, TotalCount

\* The clamp of reconcile, whatever the busy agents were counted to be.
LEMMA DesiredAtLeastOne ==
  ASSUME TypeOK, NEW n \in Int
  PROVE  Desired(n) \in Nat /\ Desired(n) >= 1
<1>1. warmPoolSize \in Int
  BY ScalerAssumption DEF TypeOK
<1>2. QED
  BY <1>1 DEF Desired

\* Every step is a call of a method of the pool or leaves the pool alone.
LEMMA ScalerNextPool ==
  ASSUME ~closed, [Next]_vars
  PROVE  [PoolNext]_poolVars
<1>1. ASSUME NEW a \in Addr, PodStarts(a) \/ PodStops(a) \/ PodLost(a)
      PROVE  UNCHANGED poolVars
  BY <1>1 DEF PodStarts, PodStops, PodLost
<1>2. ASSUME NEW a \in Addr, EndpointAdded(a) \/ EpisodeStarts(a) \/ EpisodeEnds(a)
      PROVE  PoolNext
  BY <1>2 DEF EndpointAdded, EpisodeStarts, EpisodeEnds, PoolNext
<1>3. ASSUME EndpointsListed
      PROVE  PoolNext
  <2>1. RemoveAgentsNotIn(pods \intersect Addr)
    <3>1. Addr \ pods = Addr \ (pods \intersect Addr)
      OBVIOUS
    <3>2. QED
      BY <1>3, <3>1 DEF EndpointsListed, RemoveAgentsNotIn
  <2>2. pods \intersect Addr \in SUBSET Addr
    OBVIOUS
  <2>3. QED
    BY <2>1, <2>2 DEF PoolNext
<1>4. ASSUME NEW n, ManualScale(n)
      PROVE  UNCHANGED poolVars
  BY <1>4 DEF ManualScale
<1>5. ASSUME ScalerStep
      PROVE  UNCHANGED poolVars
  BY <1>5 DEF ScalerStep, ReadFreeCount, ReadTotalCount, GetScale, ScaleIsRight,
              GetScaleFails, UpdateScale, UpdateScaleFails, Stopped, Return
<1>6. ASSUME NEW size, SetWarmPoolSize(size)
      PROVE  UNCHANGED poolVars
  BY <1>6 DEF SetWarmPoolSize
<1>7. ASSUME Stop
      PROVE  UNCHANGED poolVars
  BY <1>7 DEF Stop
<1>8. QED
  BY <1>1, <1>2, <1>3, <1>4, <1>5, <1>6, <1>7 DEF Next, vars

LEMMA InitScaler == Init => ScalerInv
<1> SUFFICES ASSUME Init
             PROVE  ScalerInv
  OBVIOUS
<1>1. PoolInv /\ ~closed
  BY PoolInitInv DEF Init, PoolInit
<1>2. PoolTypeOK
  BY <1>1 DEF PoolInv
<1>3. unmodified \in BOOLEAN /\ cancelled \in BOOLEAN
  BY DEF Init
<1>4. HeldScale
  BY DEF Init, HeldScale
<1>5. TypeOK /\ NeverToZero
  <2>1. /\ replicas = Replicas
        /\ pods = {}
        /\ edits = 0
        /\ spc = "wait"
        /\ freeCount = 0
        /\ busyCount = 0
        /\ currentReplicas = 0
        /\ desiredReplicas = 0
        /\ warmPoolSize = WarmPoolSize
    BY DEF Init
  <2>2. QED
    BY <1>2, <1>3, <2>1, ScalerAssumption DEF TypeOK, NeverToZero
<1>6. QED
  BY <1>1, <1>4, <1>5 DEF ScalerInv

\* reconcile returns with a scale of at least one.
LEMMA ReturnInv ==
  ASSUME ScalerInv, PoolTypeOK', Return, replicas' \in Nat, replicas' >= 1
  PROVE  TypeOK' /\ NeverToZero' /\ HeldScale'
<1>1. unmodified' \in BOOLEAN
  BY DEF Return
<1>2. /\ spc' = "wait"
      /\ freeCount' = 0
      /\ busyCount' = 0
      /\ currentReplicas' = 0
      /\ desiredReplicas' = 0
      /\ UNCHANGED <<pods, edits, warmPoolSize, cancelled>>
  BY DEF Return
<1>3. QED
  BY <1>1, <1>2 DEF ScalerInv, TypeOK, NeverToZero, HeldScale

\* A step of reconcile.  Whatever the two reads of the pool gave, the count that
\* is sent was clamped.
LEMMA ReconcileInv ==
  ASSUME ScalerInv, PoolTypeOK', ScalerStep
  PROVE  TypeOK' /\ NeverToZero' /\ HeldScale'
<1> USE DEF ScalerInv, TypeOK, NeverToZero, HeldScale, clusterVars, localVars
<1>1. FreeCount \in Nat /\ TotalCount \in Nat
  BY CountsAreNatural
<1>2. CASE ReadFreeCount
  BY <1>1, <1>2 DEF ReadFreeCount
<1>3. CASE ReadTotalCount
  BY <1>1, <1>3 DEF ReadTotalCount
<1>4. CASE GetScale
  <2>1. Desired(busyCount) \in Nat /\ Desired(busyCount) >= 1
    BY DesiredAtLeastOne
  <2>2. QED
    BY <1>4, <2>1 DEF GetScale
<1>5. CASE ScaleIsRight \/ GetScaleFails \/ UpdateScaleFails
  BY <1>5, ReturnInv DEF ScaleIsRight, GetScaleFails, UpdateScaleFails
<1>6. CASE UpdateScale
  BY <1>6, ReturnInv DEF UpdateScale
<1>7. CASE Stopped
  BY <1>7 DEF Stopped
<1>8. QED
  BY <1>2, <1>3, <1>4, <1>5, <1>6, <1>7 DEF ScalerStep

LEMMA NextScaler == ScalerInv /\ [Next]_vars => ScalerInv'
<1> SUFFICES ASSUME ScalerInv, [Next]_vars
             PROVE  ScalerInv'
  OBVIOUS
<1>1. PoolInv'
  BY ScalerNextPool, PoolNextInv DEF ScalerInv
<1>2. PoolTypeOK'
  BY <1>1 DEF PoolInv
<1>3. ~closed'
  BY DEF ScalerInv, Next, vars, poolVars, PodStarts, PodStops, PodLost,
         ManualScale, EndpointAdded, EndpointsListed, EpisodeStarts, EpisodeEnds,
         AddAgent, AgentReturns, AgentDialled, DialFails, RemoveAgentsNotIn,
         LockFreeAgent, FreeAgent, ScalerStep, ReadFreeCount, ReadTotalCount,
         GetScale, ScaleIsRight, GetScaleFails, UpdateScale, UpdateScaleFails,
         Stopped, Return, SetWarmPoolSize, Stop
<1>4. TypeOK' /\ NeverToZero' /\ HeldScale'
  <2>1. CASE \E a \in Addr : PodStarts(a) \/ PodStops(a) \/ PodLost(a)
    <3>1. PICK a \in Addr : PodStarts(a) \/ PodStops(a) \/ PodLost(a)
      BY <2>1
    <3>2. QED
      BY <1>2, <3>1, ScalerAssumption
      DEF PodStarts, PodStops, PodLost, ScalerInv, TypeOK, NeverToZero, HeldScale,
          localVars
  <2>2. CASE \E n \in 1 .. Cardinality(Addr) : ManualScale(n)
    <3>1. PICK n \in 1 .. Cardinality(Addr) : ManualScale(n)
      BY <2>2
    <3>2. n \in Nat /\ n >= 1
      BY FS_CardinalityType, ScalerAssumption
    <3>3. unmodified' \in BOOLEAN /\ ~unmodified'
      BY <3>1 DEF ManualScale
    <3>4. /\ edits < MaxEdits
          /\ edits' = edits + 1
          /\ replicas' = n
          /\ UNCHANGED <<pods, spc, localVars, warmPoolSize, cancelled>>
      BY <3>1 DEF ManualScale
    <3>5. QED
      BY <1>2, <3>2, <3>3, <3>4, ScalerAssumption
      DEF ScalerInv, TypeOK, NeverToZero, HeldScale, localVars
  <2>3. CASE UNCHANGED scalerVars
    BY <1>2, <2>3
    DEF scalerVars, clusterVars, localVars, ScalerInv, TypeOK, NeverToZero, HeldScale
  <2>4. CASE ScalerStep
    BY <1>2, <2>4, ReconcileInv
  <2>5. CASE \E size \in WarmSizes : SetWarmPoolSize(size)
    BY <1>2, <2>5, ScalerAssumption
    DEF SetWarmPoolSize, clusterVars, localVars, ScalerInv, TypeOK, NeverToZero,
        HeldScale
  <2>6. CASE Stop
    BY <1>2, <2>6
    DEF Stop, clusterVars, localVars, ScalerInv, TypeOK, NeverToZero, HeldScale
  <2>7. QED
    BY <2>1, <2>2, <2>3, <2>4, <2>5, <2>6
    DEF Next, vars, EndpointAdded, EndpointsListed, EpisodeStarts, EpisodeEnds
<1>5. QED
  BY <1>1, <1>3, <1>4 DEF ScalerInv

-----------------------------------------------------------------------------

\* The autoscaler only reads the pool, and the watcher and the episodes use it
\* through its methods: all that PoolProofs shows holds here (scaler.go:69, 70).
THEOREM ScalerImplementsPool == Spec => PoolSpec
<1>1. Init => PoolInit
  BY DEF Init
<1>2. ScalerInv /\ [Next]_vars => [PoolNext]_poolVars
  BY ScalerNextPool DEF ScalerInv
<1>3. QED
  BY <1>1, <1>2, InitScaler, NextScaler, PTL DEF Spec, PoolSpec

\* The autoscaler's variables keep their types: a warm pool size is the one the
\* environment gave or one that SetWarmPoolSize has accepted, and only the count
\* of busy agents can be negative (scaler.go:80, 110).
THEOREM ScalerTypeCorrect == Spec => []TypeOK
<1>1. ScalerInv => TypeOK
  BY DEF ScalerInv
<1>2. QED
  BY <1>1, InitScaler, NextScaler, PTL DEF Spec

\* Neither a miscount between the two reads of the pool nor a negative warm pool
\* size makes reconcile scale the Deployment to zero (scaler.go:82).
THEOREM ScalerNeverToZero == Spec => []NeverToZero
<1>1. ScalerInv => NeverToZero
  BY DEF ScalerInv
<1>2. QED
  BY <1>1, InitScaler, NextScaler, PTL DEF Spec

\* The scale that reconcile replaces is the scale it has looked at, however many
\* others write the Deployment in the meantime (scaler.go:73, 99).
THEOREM ScalerNoScaleLost == Spec => NoScaleLost
<1>1. ScalerInv /\ [Next]_vars => [UpdateScale => replicas = currentReplicas]_vars
  BY DEF ScalerInv, HeldScale, UpdateScale
<1>2. QED
  BY <1>1, InitScaler, NextScaler, PTL DEF Spec, NoScaleLost
=============================================================================
