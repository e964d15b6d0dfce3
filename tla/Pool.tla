-------------------------------- MODULE Pool --------------------------------
(***************************************************************************)
(* The router's pool of environment agents, env-router/internal/pool.      *)
(*                                                                         *)
(* p.agents maps an address to an AgentClient.  The map is represented by  *)
(* the set of its keys and, for the Boolean fields, by the set of keys     *)
(* whose entry has the field set.  Every method holds p.mu from its first  *)
(* to its last line, so every method is one action.                        *)
(*                                                                         *)
(* LastActivity is kept as an age in ticks.  Ages beyond SessionTimeout    *)
(* compare alike with the timeout, so they saturate at SessionTimeout + 1  *)
(* and the abstraction loses nothing.                                      *)
(***************************************************************************)
EXTENDS Naturals, FiniteSets

CONSTANTS
  Addr,            \* addresses ("ip:port") an agent can have
  Undialable,      \* the addresses for which grpc.Dial reports an error
  SessionTimeout   \* SESSION_TIMEOUT_SECONDS, in ticks

ASSUME PoolAssumption ==
  /\ Undialable \subseteq Addr
  /\ SessionTimeout \in Nat

VARIABLES
  agents,          \* keys of p.agents
  busy,            \* keys with Busy set
  pendingRemoval,  \* keys with pendingRemoval set
  age,             \* time.Since(LastActivity), 0 for an address with no entry
  conns,           \* number of open grpc.ClientConns dialled to an address
  closed           \* Pool.Close has run

poolVars == <<agents, busy, pendingRemoval, age, conns, closed>>

PoolTypeOK ==
  /\ agents \subseteq Addr
  /\ busy \subseteq agents
  /\ pendingRemoval \subseteq agents
  /\ age \in [Addr -> 0 .. SessionTimeout + 1]
  /\ conns \in [Addr -> Nat]
  /\ closed \in BOOLEAN

\* NewPool: an empty map.
PoolInit ==
  /\ agents = {}
  /\ busy = {}
  /\ pendingRemoval = {}
  /\ age = [a \in Addr |-> 0]
  /\ conns = [a \in Addr |-> 0]
  /\ closed = FALSE

-----------------------------------------------------------------------------
(* What several methods share.                                             *)

\* !ac.Busy && !ac.pendingRemoval
Free == agents \ (busy \union pendingRemoval)

FreeCount == Cardinality(Free)

TotalCount == Cardinality(agents)

\* ac.Conn.Close(); delete(p.agents, addr), for every address of S.
Drop(S) ==
  /\ agents' = agents \ S
  /\ age' = [a \in Addr |-> IF a \in S THEN 0 ELSE age[a]]
  /\ conns' = [a \in Addr |-> IF a \in S THEN conns[a] - 1 ELSE conns[a]]

\* Faulty Release: the deferred removal is forgotten.
ReleaseOnlyBusy(S) ==
  /\ busy' = busy \ S
  /\ UNCHANGED pendingRemoval
  /\ Drop({})

\* Clear Busy for every address of S and complete the removals that waited
\* for it.
Release(S) ==
  /\ busy' = busy \ S
  /\ pendingRemoval' = pendingRemoval \ S
  /\ Drop(S \intersect pendingRemoval)

\* Faulty Retire: busy agents are dropped like idle ones.
RetireAll(S) ==
  /\ pendingRemoval' = pendingRemoval \ S
  /\ busy' = busy \ S
  /\ Drop(S \intersect agents)

\* Faulty Retire: busy agents are dropped and stay marked busy.
RetireKeepingBusy(S) ==
  /\ pendingRemoval' = pendingRemoval \ S
  /\ busy' = busy
  /\ Drop(S \intersect agents)

\* The pod of every address of S is gone: a busy agent is marked, an idle one
\* is dropped.
Retire(S) ==
  /\ pendingRemoval' = (pendingRemoval \ S) \union (S \intersect busy)
  /\ busy' = busy
  /\ Drop((S \intersect agents) \ busy)

-----------------------------------------------------------------------------
(* The methods.                                                            *)

\* Faulty AgentReturns: the entry is made anew.
AgentRenewed(a) ==
  /\ a \in agents
  /\ pendingRemoval' = pendingRemoval \ {a}
  /\ busy' = busy \ {a}
  /\ UNCHANGED <<agents, age, conns, closed>>

\* AddAgent of a known address: a pending removal is cancelled.
AgentReturns(a) ==
  /\ a \in agents
  /\ pendingRemoval' = pendingRemoval \ {a}
  /\ UNCHANGED <<agents, busy, age, conns, closed>>

\* Faulty AgentDialled: no test whether the address is known.
AgentRedialled(a) ==
  /\ a \notin Undialable
  /\ agents' = agents \union {a}
  /\ age' = [age EXCEPT ![a] = 0]
  /\ conns' = [conns EXCEPT ![a] = @ + 1]
  /\ UNCHANGED <<busy, pendingRemoval, closed>>

\* AddAgent of a new address: dial and insert.
AgentDialled(a) ==
  /\ a \notin agents
  /\ a \notin Undialable
  /\ agents' = agents \union {a}
  /\ age' = [age EXCEPT ![a] = 0]
  /\ conns' = [conns EXCEPT ![a] = @ + 1]
  /\ UNCHANGED <<busy, pendingRemoval, closed>>

\* AddAgent of a new address: grpc.Dial fails and nothing is inserted.
DialFails(a) ==
  /\ a \notin agents
  /\ a \in Undialable
  /\ UNCHANGED poolVars

AddAgent(a) == AgentReturns(a) \/ AgentDialled(a) \/ DialFails(a)

RemoveAgent(a) ==
  /\ Retire({a})
  /\ UNCHANGED closed

\* Faulty LockFreeAgent: Busy is not tested.
LockAnyAgent(a) ==
  /\ a \in agents \ pendingRemoval
  /\ busy' = busy \union {a}
  /\ age' = [age EXCEPT ![a] = 0]
  /\ UNCHANGED <<agents, pendingRemoval, conns, closed>>

\* Go's map iteration order is random: any free agent may be the first one.
LockFreeAgent(a) ==
  /\ a \in Free
  /\ busy' = busy \union {a}
  /\ age' = [age EXCEPT ![a] = 0]
  /\ UNCHANGED <<agents, pendingRemoval, conns, closed>>

FreeAgent(a) ==
  /\ Release({a})
  /\ UNCHANGED closed

TouchAgent(a) ==
  /\ age' = IF a \in agents THEN [age EXCEPT ![a] = 0] ELSE age
  /\ UNCHANGED <<agents, busy, pendingRemoval, conns, closed>>

\* Faulty Stale: agents that wait for their removal are skipped.
StaleListed == {a \in busy \ pendingRemoval : age[a] > SessionTimeout}

\* ac.Busy && time.Since(ac.LastActivity) > timeout
Stale == {a \in busy : age[a] > SessionTimeout}

CleanupStaleAgents ==
  /\ Release(Stale)
  /\ UNCHANGED closed

RemoveAgentsNotIn(liveAddrs) ==
  /\ Retire(Addr \ liveAddrs)
  /\ UNCHANGED closed

\* Close drops the connections and keeps the entries.  It is the last deferred
\* call of main, which returns, and ends the process, right after it.
Close ==
  /\ closed' = TRUE
  /\ conns' = [a \in Addr |-> IF a \in agents THEN conns[a] - 1 ELSE conns[a]]
  /\ UNCHANGED <<agents, busy, pendingRemoval, age>>

\* One tick of the clock (external).
Tick ==
  /\ age' = [a \in Addr |->
               IF a \in agents /\ age[a] <= SessionTimeout
               THEN age[a] + 1
               ELSE age[a]]
  /\ UNCHANGED <<agents, busy, pendingRemoval, conns, closed>>

-----------------------------------------------------------------------------
(* The pool under any sequence of calls by any callers.                    *)

PoolNext ==
  /\ ~closed
  /\ \/ \E a \in Addr :
          \/ AddAgent(a)
          \/ RemoveAgent(a)
          \/ LockFreeAgent(a)
          \/ FreeAgent(a)
          \/ TouchAgent(a)
     \/ CleanupStaleAgents
     \/ \E liveAddrs \in SUBSET Addr : RemoveAgentsNotIn(liveAddrs)
     \/ Close
     \/ Tick

PoolSpec == PoolInit /\ [][PoolNext]_poolVars

-----------------------------------------------------------------------------
(* Properties.                                                             *)

\* An agent marked for removal is in an episode.  An idle agent with the mark
\* would never be handed out again and never be removed by FreeAgent, and
\* reconcile would count it as busy for ever (pool.go:77, 94, 115, 142).
PendingIsBusy == pendingRemoval \subseteq busy

\* Every entry has exactly one open connection and no connection outlives its
\* entry: each delete is paired with Conn.Close, AddAgent never dials over an
\* existing entry, and Close leaves none open (pool.go:50, 83, 116, 143, 195,
\* 208).
ConnsMatchEntries ==
  \A a \in Addr : conns[a] = IF a \in agents /\ ~closed THEN 1 ELSE 0

\* The abstract state of an address.
AgentStatus(a) ==
  IF a \notin agents THEN "absent"
  ELSE IF a \notin busy THEN "idle"
  ELSE IF a \notin pendingRemoval THEN "leased"
  ELSE "draining"

Lifecycle == INSTANCE AgentLifecycle
               WITH status <- [a \in Addr |-> AgentStatus(a)]

\* The pool implements AgentLifecycle: whatever the callers do, an address
\* moves only along its arrows (every method of pool.go).
ImplementsLifecycle == Lifecycle!Spec
=============================================================================
