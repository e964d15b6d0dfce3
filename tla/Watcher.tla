------------------------------ MODULE Watcher -------------------------------
(***************************************************************************)
(* The endpoint watcher, env-router/internal/k8s/watcher.go, over the pool *)
(* and the Kubernetes API server.                                          *)
(*                                                                         *)
(* The API server is external: it has the current Endpoints object and, for*)
(* an open watch, the events on their way to the watcher.  A watch that is *)
(* opened without a resourceVersion starts with an ADDED event for the     *)
(* object as it is at that moment; a watch that breaks loses the events    *)
(* that were still on their way.                                           *)
(*                                                                         *)
(* The watcher's goroutine gives up the pool's mutex between two calls of  *)
(* syncEndpoints, and episodes start and end meanwhile.                    *)
(***************************************************************************)
EXTENDS Pool, Sequences

CONSTANTS
  Deleted,         \* the Endpoints object does not exist; a DELETED event
  Failure,         \* an ERROR event
  MaxEvents        \* bounds the events on their way to the watcher

ASSUME WatcherAssumption ==
  /\ \A eps \in SUBSET Addr : eps \notin {Deleted, Failure}
  /\ Deleted # Failure
  /\ MaxEvents \in Nat \ {0}

VARIABLES
  endpoints,       \* the addresses the API server lists, or Deleted
  stream,          \* events on their way: ADDED and MODIFIED carry the addresses
  streamOpen,      \* the API server still feeds the stream
  wpc,             \* what the watcher executes next
  liveAddrs,       \* liveAddrs of the current syncEndpoints
  unsynced,        \* the part of liveAddrs that AddAgent has not seen
  syncThen,        \* where syncEndpoints returns to
  cancelled        \* Stop has cancelled the context

apiVars == <<endpoints, stream, streamOpen>>
loopVars == <<wpc, liveAddrs, unsynced, syncThen, cancelled>>
watcherVars == <<apiVars, loopVars>>
vars == <<poolVars, watcherVars>>

TypeOK ==
  /\ PoolTypeOK
  /\ endpoints \in {Deleted} \union SUBSET Addr
  /\ stream \in Seq({Deleted, Failure} \union SUBSET Addr)
  /\ Len(stream) <= MaxEvents
  /\ streamOpen \in BOOLEAN
  /\ wpc \in {"get", "add", "watch", "select", "backoff", "stopped"}
  /\ liveAddrs \subseteq Addr
  /\ unsynced \subseteq liveAddrs
  /\ syncThen \in {"watch", "select"}
  /\ cancelled \in BOOLEAN

Init ==
  /\ PoolInit
  /\ endpoints \in {Deleted} \union SUBSET Addr
  /\ stream = <<>>
  /\ streamOpen = FALSE
  /\ wpc = "get"
  /\ liveAddrs = {}
  /\ unsynced = {}
  /\ syncThen = "watch"
  /\ cancelled = FALSE

-----------------------------------------------------------------------------
(* The API server (external).                                              *)

\* Pods come and go, or the service is deleted or created.
EndpointsChange(eps) ==
  /\ eps # endpoints
  /\ Len(stream) < MaxEvents
  /\ endpoints' = eps
  /\ stream' = IF streamOpen THEN Append(stream, eps) ELSE stream
  /\ UNCHANGED <<poolVars, streamOpen, loopVars>>

\* The API server reports a problem with the watch.
StreamError ==
  /\ streamOpen
  /\ Len(stream) < MaxEvents
  /\ stream' = Append(stream, Failure)
  /\ UNCHANGED <<poolVars, endpoints, streamOpen, loopVars>>

\* The stream breaks after its first n events.
StreamBreaks(n) ==
  /\ streamOpen
  /\ streamOpen' = FALSE
  /\ stream' = SubSeq(stream, 1, n)
  /\ UNCHANGED <<poolVars, endpoints, loopVars>>

-----------------------------------------------------------------------------
(* The rest of the router, as far as it decides what a removal does.       *)

EpisodeStarts(a) == LockFreeAgent(a) /\ UNCHANGED watcherVars

EpisodeEnds(a) == a \in busy /\ FreeAgent(a) /\ UNCHANGED watcherVars

-----------------------------------------------------------------------------
(* syncEndpoints.                                                          *)

\* Enter syncEndpoints with the addresses eps and go on to pc afterwards.
StartSync(eps, pc) ==
  /\ wpc' = "add"
  /\ liveAddrs' = eps
  /\ unsynced' = eps
  /\ syncThen' = pc

\* Go to pc outside syncEndpoints.
Goto(pc) ==
  /\ wpc' = pc
  /\ liveAddrs' = {}
  /\ UNCHANGED <<unsynced, syncThen>>

\* One AddAgent; Go's map iteration order is random.  An address that cannot be
\* dialled is logged and skipped.
SyncAdd(a) ==
  /\ wpc = "add"
  /\ a \in unsynced
  /\ AddAgent(a)
  /\ unsynced' = unsynced \ {a}
  /\ UNCHANGED <<apiVars, wpc, liveAddrs, syncThen, cancelled>>

\* Faulty SyncRemove: removals do not wait for the additions.
SyncRemoveEarly ==
  /\ wpc = "add"
  /\ RemoveAgentsNotIn(liveAddrs)
  /\ Goto(syncThen)
  /\ UNCHANGED <<apiVars, cancelled>>

\* Faulty SyncRemove: agents are only ever added.
SyncNoRemove ==
  /\ wpc = "add"
  /\ unsynced = {}
  /\ Goto(syncThen)
  /\ UNCHANGED <<poolVars, apiVars, cancelled>>

SyncRemove ==
  /\ wpc = "add"
  /\ unsynced = {}
  /\ RemoveAgentsNotIn(liveAddrs)
  /\ Goto(syncThen)
  /\ UNCHANGED <<apiVars, cancelled>>

-----------------------------------------------------------------------------
(* run and watchLoop.                                                      *)

\* The initial Get.
GetEndpoints ==
  /\ wpc = "get"
  /\ ~cancelled
  /\ endpoints # Deleted
  /\ StartSync(endpoints, "watch")
  /\ UNCHANGED <<poolVars, apiVars, cancelled>>

\* The Get fails: the object does not exist, the API server does not answer,
\* or the context is cancelled.
GetFails ==
  /\ wpc = "get"
  /\ Goto("backoff")
  /\ UNCHANGED <<poolVars, apiVars, cancelled>>

OpenWatch ==
  /\ wpc = "watch"
  /\ ~cancelled
  /\ stream' = IF endpoints = Deleted THEN <<>> ELSE <<endpoints>>
  /\ streamOpen' = TRUE
  /\ Goto("select")
  /\ UNCHANGED <<poolVars, endpoints, cancelled>>

OpenWatchFails ==
  /\ wpc = "watch"
  /\ Goto("backoff")
  /\ UNCHANGED <<poolVars, apiVars, cancelled>>

\* Faulty ReceiveEvent: an ERROR event clears the pool.
ReceiveEventClears ==
  /\ wpc = "select"
  /\ stream # <<>>
  /\ stream' = Tail(stream)
  /\ IF Head(stream) \in {Deleted, Failure}
     THEN Goto("select")
     ELSE StartSync(Head(stream), "select")
  /\ IF Head(stream) = Failure THEN RemoveAgentsNotIn({}) ELSE UNCHANGED poolVars
  /\ UNCHANGED <<endpoints, streamOpen, cancelled>>

\* An event is received.  ADDED and MODIFIED start a sync; DELETED is only
\* logged, and ERROR has no case in the switch.
ReceiveEvent ==
  /\ wpc = "select"
  /\ stream # <<>>
  /\ stream' = Tail(stream)
  /\ IF Head(stream) \in {Deleted, Failure}
     THEN Goto("select")
     ELSE StartSync(Head(stream), "select")
  /\ UNCHANGED <<poolVars, endpoints, streamOpen, cancelled>>

\* The channel is closed: watchLoop returns an error and run waits.
StreamClosed ==
  /\ wpc = "select"
  /\ stream = <<>>
  /\ ~streamOpen
  /\ Goto("backoff")
  /\ UNCHANGED <<poolVars, apiVars, cancelled>>

\* Faulty Retry: the goroutine ends with the first error.
RetryNever ==
  /\ wpc = "backoff"
  /\ Goto("stopped")
  /\ UNCHANGED <<poolVars, apiVars, cancelled>>

\* The five seconds are over.
Retry ==
  /\ wpc = "backoff"
  /\ Goto("get")
  /\ UNCHANGED <<poolVars, apiVars, cancelled>>

Stop ==
  /\ ~cancelled
  /\ cancelled' = TRUE
  /\ UNCHANGED <<poolVars, apiVars, wpc, liveAddrs, unsynced, syncThen>>

\* ctx.Done is seen between two attempts, or in the select of watchLoop, whose
\* deferred watcher.Stop closes the watch.
Stopped ==
  /\ wpc \in {"get", "select", "backoff"}
  /\ cancelled
  /\ Goto("stopped")
  /\ stream' = <<>>
  /\ streamOpen' = FALSE
  /\ UNCHANGED <<poolVars, endpoints, cancelled>>

-----------------------------------------------------------------------------

WatcherStep ==
  \/ \E a \in Addr : SyncAdd(a)
  \/ SyncRemove
  \/ GetEndpoints
  \/ GetFails
  \/ OpenWatch
  \/ OpenWatchFails
  \/ ReceiveEvent
  \/ StreamClosed
  \/ Retry
  \/ Stopped

Next ==
  \/ \E eps \in {Deleted} \union SUBSET Addr : EndpointsChange(eps)
  \/ StreamError
  \/ \E n \in 0 .. Len(stream) : StreamBreaks(n)
  \/ \E a \in Addr : EpisodeStarts(a) \/ EpisodeEnds(a)
  \/ WatcherStep
  \/ Stop

Spec == Init /\ [][Next]_vars

\* The goroutine runs and the retry timer fires.  An API server that is asked
\* for the endpoints again and again answers at last: without that no client of
\* it could promise anything.
Fairness ==
  /\ WF_vars(WatcherStep)
  /\ SF_vars(GetEndpoints)
  /\ SF_vars(OpenWatch)

FairSpec == Spec /\ Fairness

-----------------------------------------------------------------------------
(* Properties.                                                             *)

\* The agents the pool may hand out or keeps in episodes of listed pods.
Current == agents \ pendingRemoval

Tracks(eps) == Current = eps \ Undialable

\* The watcher that has nothing left to read has a pool that is up to date: no
\* change is lost in the gap between the Get and the Watch, in one between two
\* watches, or in the middle of a sync (watcher.go:73, 80, 115-131).
QuietMeansCurrent ==
  wpc = "select" /\ streamOpen /\ stream = <<>> /\ endpoints # Deleted
  => Tracks(endpoints)

\* Every list of endpoints that the watcher has or will receive names a, and no
\* DELETED event is on its way.
AlwaysListed(a) ==
  /\ endpoints # Deleted /\ a \in endpoints
  /\ wpc = "add" => a \in liveAddrs
  /\ \A i \in 1 .. Len(stream) :
       stream[i] # Deleted /\ (stream[i] = Failure \/ a \in stream[i])

\* A pod that stays listed keeps its agent: failed Gets, broken watches, ERROR
\* events and retries never take it out of the pool or mark it for removal.
\* Nothing is said of a DELETED event, which is to remove all agents
\* (watcher.go:72-75, 92-107, 131).
ListedAgentStays ==
  [][\A a \in Addr :
       a \in Current /\ AlwaysListed(a) /\ AlwaysListed(a)' => a \in Current']_vars

\* Endpoints that stop changing are what the pool ends up with, however often
\* the watch breaks on the way (watcher.go:54-68).
PoolConverges ==
  \A eps \in SUBSET Addr :
    <>[](endpoints = eps /\ ~cancelled) => <>[]Tracks(eps)

\* "Service deleted — remove all agents." (watcher.go:103)
DeletedRemovesAll ==
  [][ReceiveEvent /\ Head(stream) = Deleted => Current' = {}]_vars
=============================================================================
