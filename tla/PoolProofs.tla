----------------------------- MODULE PoolProofs -----------------------------
(***************************************************************************)
(* Theorems about the pool, for every set of addresses, every session      *)
(* timeout and every sequence of calls.                                    *)
(***************************************************************************)
EXTENDS Pool, TLAPS

\* The inductive invariant.  Types are not inductive alone: a connection count
\* stays a natural number only because an entry that is dropped has a
\* connection to close, and an agent that is released leaves the pool only
\* together with its mark.
PoolInv == PoolTypeOK /\ PendingIsBusy /\ ConnsMatchEntries

LEMMA PoolInitInv == PoolInit => PoolInv
<1> SUFFICES ASSUME PoolInit
             PROVE  PoolInv
  OBVIOUS
<1>1. closed \in BOOLEAN
  BY DEF PoolInit
<1>2. agents = {} /\ \A a \in Addr : conns[a] = 0
  BY DEF PoolInit
<1>3. ConnsMatchEntries
  BY <1>2 DEF ConnsMatchEntries
<1>4. QED
  BY <1>1, <1>3, PoolAssumption
  DEF PoolInit, PoolInv, PoolTypeOK, PendingIsBusy

\* Deleting entries that are not busy any more keeps the connection count
\* (Conn.Close with every delete).
LEMMA DropConns ==
  ASSUME PoolInv, ~closed, NEW S, S \subseteq agents, Drop(S)
  PROVE  /\ agents' = agents \ S
         /\ agents' \subseteq Addr
         /\ age' \in [Addr -> 0 .. SessionTimeout + 1]
         /\ conns' \in [Addr -> Nat]
         /\ \A a \in Addr : conns'[a] = IF a \in agents' THEN 1 ELSE 0
  BY PoolAssumption
  DEF PoolInv, PoolTypeOK, ConnsMatchEntries, Drop

LEMMA ReleaseInv ==
  ASSUME PoolInv, ~closed, NEW S, Release(S), UNCHANGED closed
  PROVE  PoolInv'
<1>1. S \intersect pendingRemoval \subseteq agents
  BY DEF PoolInv, PoolTypeOK
<1>2. Drop(S \intersect pendingRemoval)
  BY DEF Release
<1>3. PendingIsBusy' /\ busy' \subseteq agents' /\ pendingRemoval' \subseteq agents'
  BY <1>1, <1>2, DropConns DEF PoolInv, PoolTypeOK, PendingIsBusy, Release
<1>4. QED
  BY <1>1, <1>2, <1>3, DropConns
  DEF PoolInv, PoolTypeOK, ConnsMatchEntries

LEMMA RetireInv ==
  ASSUME PoolInv, ~closed, NEW S, Retire(S), UNCHANGED closed
  PROVE  PoolInv'
<1>1. (S \intersect agents) \ busy \subseteq agents
  OBVIOUS
<1>2. Drop((S \intersect agents) \ busy)
  BY DEF Retire
<1>3. PendingIsBusy' /\ busy' \subseteq agents' /\ pendingRemoval' \subseteq agents'
  BY <1>1, <1>2, DropConns DEF PoolInv, PoolTypeOK, PendingIsBusy, Retire
<1>4. QED
  BY <1>1, <1>2, <1>3, DropConns
  DEF PoolInv, PoolTypeOK, ConnsMatchEntries

LEMMA AddAgentInv ==
  ASSUME PoolInv, ~closed, NEW a \in Addr, AddAgent(a)
  PROVE  PoolInv'
<1> USE PoolAssumption DEF PoolInv, PoolTypeOK, PendingIsBusy, ConnsMatchEntries
<1>1. CASE AgentReturns(a)
  BY <1>1 DEF AgentReturns
<1>2. CASE AgentDialled(a)
  BY <1>2 DEF AgentDialled
<1>3. CASE DialFails(a)
  BY <1>3 DEF DialFails, poolVars
<1>4. QED
  BY <1>1, <1>2, <1>3 DEF AddAgent

LEMMA PoolNextInv == PoolInv /\ [PoolNext]_poolVars => PoolInv'
<1> SUFFICES ASSUME PoolInv, [PoolNext]_poolVars
             PROVE  PoolInv'
  OBVIOUS
<1>1. CASE UNCHANGED poolVars
  BY <1>1
  DEF PoolInv, PoolTypeOK, PendingIsBusy, ConnsMatchEntries, poolVars
<1>2. ASSUME PoolNext
      PROVE  PoolInv'
  <2>0. ~closed
    BY <1>2 DEF PoolNext
  <2>1. ASSUME NEW a \in Addr, AddAgent(a)
        PROVE  PoolInv'
    BY <2>0, <2>1, AddAgentInv
  <2>2. ASSUME NEW a \in Addr, RemoveAgent(a)
        PROVE  PoolInv'
    BY <2>0, <2>2, RetireInv DEF RemoveAgent
  <2>3. ASSUME NEW a \in Addr, LockFreeAgent(a)
        PROVE  PoolInv'
    BY <2>3, PoolAssumption
    DEF LockFreeAgent, Free, PoolInv, PoolTypeOK, PendingIsBusy, ConnsMatchEntries
  <2>4. ASSUME NEW a \in Addr, FreeAgent(a)
        PROVE  PoolInv'
    BY <2>0, <2>4, ReleaseInv DEF FreeAgent
  <2>5. ASSUME NEW a \in Addr, TouchAgent(a)
        PROVE  PoolInv'
    BY <2>5, PoolAssumption
    DEF TouchAgent, PoolInv, PoolTypeOK, PendingIsBusy, ConnsMatchEntries
  <2>6. CASE CleanupStaleAgents
    BY <2>0, <2>6, ReleaseInv DEF CleanupStaleAgents
  <2>7. ASSUME NEW liveAddrs \in SUBSET Addr, RemoveAgentsNotIn(liveAddrs)
        PROVE  PoolInv'
    BY <2>0, <2>7, RetireInv DEF RemoveAgentsNotIn
  <2>8. CASE Close
    BY <2>0, <2>8
    DEF Close, PoolInv, PoolTypeOK, PendingIsBusy, ConnsMatchEntries
  <2>9. CASE Tick
    BY <2>9, PoolAssumption
    DEF Tick, PoolInv, PoolTypeOK, PendingIsBusy, ConnsMatchEntries
  <2>10. QED
    BY <1>2, <2>1, <2>2, <2>3, <2>4, <2>5, <2>6, <2>7, <2>8, <2>9 DEF PoolNext
<1>3. QED
  BY <1>1, <1>2

\* The pool's variables keep their types under any sequence of calls; for the
\* connection counts this says that Conn.Close is never called on an address
\* that has no open connection (pool.go).
THEOREM PoolTypeCorrect == PoolSpec => []PoolTypeOK
<1>1. PoolInv => PoolTypeOK
  BY DEF PoolInv
<1>2. QED
  BY <1>1, PoolInitInv, PoolNextInv, PTL DEF PoolSpec

\* No idle agent keeps a removal mark (pool.go:77, 115, 142, 191).
THEOREM PoolPendingIsBusy == PoolSpec => []PendingIsBusy
<1>1. PoolInv => PendingIsBusy
  BY DEF PoolInv
<1>2. QED
  BY <1>1, PoolInitInv, PoolNextInv, PTL DEF PoolSpec

\* No connection is leaked, doubled or closed under an entry (pool.go:50, 83,
\* 116, 143, 195, 208).
THEOREM PoolConnsMatchEntries == PoolSpec => []ConnsMatchEntries
<1>1. PoolInv => ConnsMatchEntries
  BY DEF PoolInv
<1>2. QED
  BY <1>1, PoolInitInv, PoolNextInv, PTL DEF PoolSpec

-----------------------------------------------------------------------------
(* The pool implements AgentLifecycle.                                     *)

\* The refinement mapping.
St == [a \in Addr |-> AgentStatus(a)]

LEMMA StatusCases ==
  ASSUME NEW a \in Addr
  PROVE  /\ St[a] = AgentStatus(a)
         /\ a \notin agents => AgentStatus(a) = "absent"
         /\ a \in agents \ busy => AgentStatus(a) = "idle"
         /\ (a \in agents /\ a \in busy \ pendingRemoval) =>
              AgentStatus(a) = "leased"
         /\ (a \in agents /\ a \in busy \intersect pendingRemoval) =>
              AgentStatus(a) = "draining"
  BY DEF St, AgentStatus

LEMMA StatusCasesNext ==
  ASSUME NEW a \in Addr
  PROVE  /\ St'[a] = AgentStatus(a)'
         /\ a \notin agents' => AgentStatus(a)' = "absent"
         /\ a \in agents' \ busy' => AgentStatus(a)' = "idle"
         /\ (a \in agents' /\ a \in busy' \ pendingRemoval') =>
              AgentStatus(a)' = "leased"
         /\ (a \in agents' /\ a \in busy' \intersect pendingRemoval') =>
              AgentStatus(a)' = "draining"
  BY DEF St, AgentStatus

\* Two functions on Addr with the same values are the same.
LEMMA StatusIsFunction ==
  ASSUME NEW f, f = [a \in Addr |-> f[a]],
         \A a \in Addr : St'[a] = f[a]
  PROVE  St' = f
  BY DEF St

LEMMA ReleaseIsEndLeases ==
  ASSUME PoolInv, NEW S, Release(S)
  PROVE  Lifecycle!EndLeases(S \intersect busy)
<1> DEFINE R == S \intersect busy
           f == [a \in Addr |->
                  IF a \notin R THEN St[a]
                  ELSE IF St[a] = "leased" THEN "idle" ELSE "absent"]
<1>1. \A a \in R : a \in Addr /\ St[a] \in {"leased", "draining"}
  BY StatusCases DEF PoolInv, PoolTypeOK
<1>2. ASSUME NEW a \in Addr
      PROVE  St'[a] = f[a]
  <2>1. /\ agents' = agents \ (S \intersect pendingRemoval)
        /\ busy' = busy \ S
        /\ pendingRemoval' = pendingRemoval \ S
    BY DEF Release, Drop
  <2>2. CASE a \notin R
    BY <2>1, <2>2, StatusCases, StatusCasesNext
    DEF PoolInv, PoolTypeOK, PendingIsBusy
  <2>3. CASE a \in R
    BY <2>1, <2>3, StatusCases, StatusCasesNext
    DEF PoolInv, PoolTypeOK, PendingIsBusy
  <2>4. QED
    BY <2>2, <2>3
<1>3. St' = f
  BY <1>2, StatusIsFunction
<1>4. QED
  BY <1>1, <1>3 DEF Lifecycle!EndLeases, St

LEMMA RetireIsWithdraw ==
  ASSUME PoolInv, NEW S, Retire(S)
  PROVE  Lifecycle!Withdraw((S \intersect agents) \ pendingRemoval)
<1> DEFINE R == (S \intersect agents) \ pendingRemoval
           f == [a \in Addr |->
                  IF a \notin R THEN St[a]
                  ELSE IF St[a] = "leased" THEN "draining" ELSE "absent"]
<1>1. \A a \in R : a \in Addr /\ St[a] \in {"idle", "leased"}
  BY StatusCases DEF PoolInv, PoolTypeOK
<1>2. ASSUME NEW a \in Addr
      PROVE  St'[a] = f[a]
  <2>1. /\ agents' = agents \ ((S \intersect agents) \ busy)
        /\ busy' = busy
        /\ pendingRemoval' = (pendingRemoval \ S) \union (S \intersect busy)
    BY DEF Retire, Drop
  <2>2. CASE a \notin R
    BY <2>1, <2>2, StatusCases, StatusCasesNext
    DEF PoolInv, PoolTypeOK, PendingIsBusy
  <2>3. CASE a \in R
    BY <2>1, <2>3, StatusCases, StatusCasesNext
    DEF PoolInv, PoolTypeOK, PendingIsBusy
  <2>4. QED
    BY <2>2, <2>3
<1>3. St' = f
  BY <1>2, StatusIsFunction
<1>4. QED
  BY <1>1, <1>3 DEF Lifecycle!Withdraw, St

\* A step that changes no entry's flags is a stutter of the lifecycle.
LEMMA SameStatus ==
  ASSUME UNCHANGED <<agents, busy, pendingRemoval>>
  PROVE  UNCHANGED St
  BY DEF St, AgentStatus

\* AddAgent registers, readmits, or changes nothing.
LEMMA AddAgentRefines ==
  ASSUME PoolInv, NEW a \in Addr, AddAgent(a)
  PROVE  Lifecycle!Register(a) \/ Lifecycle!Readmit(a) \/ UNCHANGED St
<1>1. CASE AgentReturns(a) /\ a \in pendingRemoval
  <2> DEFINE f == [St EXCEPT ![a] = "leased"]
  <2>1. a \in agents /\ a \in busy
    BY <1>1 DEF PoolInv, PoolTypeOK, PendingIsBusy
  <2>2. St[a] = "draining"
    BY <1>1, <2>1, StatusCases
  <2>3. ASSUME NEW b \in Addr
        PROVE  St'[b] = f[b]
    BY <1>1, <2>1, StatusCases, StatusCasesNext
    DEF AgentReturns, St
  <2>4. f = [b \in Addr |-> f[b]]
    BY DEF St
  <2>5. St' = f
    BY <2>3, <2>4, StatusIsFunction
  <2>6. QED
    BY <2>2, <2>5 DEF Lifecycle!Readmit, St
<1>2. CASE AgentReturns(a) /\ a \notin pendingRemoval
  BY <1>2, SameStatus DEF AgentReturns
<1>3. CASE AgentDialled(a)
  <2> DEFINE f == [St EXCEPT ![a] = "idle"]
  <2>1. a \notin agents /\ a \notin busy
    BY <1>3 DEF PoolInv, PoolTypeOK, AgentDialled
  <2>2. St[a] = "absent"
    BY <2>1, StatusCases
  <2>3. ASSUME NEW b \in Addr
        PROVE  St'[b] = f[b]
    BY <1>3, <2>1, StatusCases, StatusCasesNext
    DEF AgentDialled, St
  <2>4. f = [b \in Addr |-> f[b]]
    BY DEF St
  <2>5. St' = f
    BY <2>3, <2>4, StatusIsFunction
  <2>6. QED
    BY <2>2, <2>5 DEF Lifecycle!Register, St
<1>4. CASE DialFails(a)
  BY <1>4, SameStatus DEF DialFails, poolVars
<1>5. QED
  BY <1>1, <1>2, <1>3, <1>4 DEF AddAgent

LEMMA LockFreeAgentRefines ==
  ASSUME PoolInv, NEW a \in Addr, LockFreeAgent(a)
  PROVE  Lifecycle!Lease(a)
<1> DEFINE f == [St EXCEPT ![a] = "leased"]
<1>1. a \in agents /\ a \notin busy /\ a \notin pendingRemoval
  BY DEF LockFreeAgent, Free
<1>2. St[a] = "idle"
  BY <1>1, StatusCases
<1>3. ASSUME NEW b \in Addr
      PROVE  St'[b] = f[b]
  BY <1>1, StatusCases, StatusCasesNext DEF LockFreeAgent, St
<1>4. f = [b \in Addr |-> f[b]]
  BY DEF St
<1>5. St' = f
  BY <1>3, <1>4, StatusIsFunction
<1>6. QED
  BY <1>2, <1>5 DEF Lifecycle!Lease, St

LEMMA PoolNextRefines ==
  PoolInv /\ [PoolNext]_poolVars => [Lifecycle!Next]_St
<1> SUFFICES ASSUME PoolInv, [PoolNext]_poolVars
             PROVE  Lifecycle!Next \/ UNCHANGED St
  OBVIOUS
<1> USE DEF PoolInv, PoolTypeOK
<1>1. ASSUME NEW a \in Addr, AddAgent(a)
      PROVE  Lifecycle!Next \/ UNCHANGED St
  BY <1>1, AddAgentRefines DEF Lifecycle!Next
<1>2. ASSUME NEW S, S \subseteq Addr, Retire(S)
      PROVE  Lifecycle!Next
  <2>1. (S \intersect agents) \ pendingRemoval \in SUBSET Addr
    BY <1>2
  <2>2. QED
    BY <1>2, <2>1, RetireIsWithdraw DEF Lifecycle!Next
<1>3. ASSUME NEW S, S \subseteq Addr, Release(S)
      PROVE  Lifecycle!Next
  <2>1. S \intersect busy \in SUBSET Addr
    BY <1>3
  <2>2. QED
    BY <1>3, <2>1, ReleaseIsEndLeases DEF Lifecycle!Next
<1>4. ASSUME NEW a \in Addr, LockFreeAgent(a)
      PROVE  Lifecycle!Next
  BY <1>4, LockFreeAgentRefines DEF Lifecycle!Next
<1>5. ASSUME NEW a \in Addr, TouchAgent(a)
      PROVE  UNCHANGED St
  BY <1>5, SameStatus DEF TouchAgent
<1>6. CASE UNCHANGED poolVars \/ Close \/ Tick
  BY <1>6, SameStatus DEF poolVars, Close, Tick
<1>7. ASSUME NEW a \in Addr, RemoveAgent(a)
      PROVE  Lifecycle!Next
  BY <1>2, <1>7 DEF RemoveAgent
<1>8. ASSUME NEW a \in Addr, FreeAgent(a)
      PROVE  Lifecycle!Next
  BY <1>3, <1>8 DEF FreeAgent
<1>9. CASE CleanupStaleAgents
  <2>1. Stale \subseteq Addr
    BY DEF Stale
  <2>2. QED
    BY <1>3, <1>9, <2>1 DEF CleanupStaleAgents
<1>10. ASSUME NEW liveAddrs \in SUBSET Addr, RemoveAgentsNotIn(liveAddrs)
       PROVE  Lifecycle!Next
  BY <1>2, <1>10 DEF RemoveAgentsNotIn
<1>11. QED
  BY <1>1, <1>4, <1>5, <1>6, <1>7, <1>8, <1>9, <1>10 DEF PoolNext

\* The pool implements AgentLifecycle for any set of addresses: whatever its
\* callers do, an agent in an episode is never dropped while its pod is listed
\* and never handed on once its pod is gone (every method of pool.go).
THEOREM PoolImplementsLifecycle == PoolSpec => ImplementsLifecycle
<1>1. PoolInit => Lifecycle!Init
  BY DEF PoolInit, Lifecycle!Init, AgentStatus
<1>2. PoolInv /\ [PoolNext]_poolVars =>
        [Lifecycle!Next]_([a \in Addr |-> AgentStatus(a)])
  BY PoolNextRefines DEF St
<1>3. QED
  BY <1>1, <1>2, PoolInitInv, PoolNextInv, PTL
  DEF PoolSpec, ImplementsLifecycle, Lifecycle!Spec
=============================================================================
