---------------------------- MODULE WatcherProofs ---------------------------
(***************************************************************************)
(* Theorems about the endpoint watcher, for every set of addresses, every  *)
(* number of events on their way and every behaviour of the API server.    *)
(***************************************************************************)
EXTENDS Watcher, PoolProofs, SequenceTheorems

Event == {Deleted, Failure} \union SUBSET Addr

\* Outside syncEndpoints its variables are not in use.
IdleSync == wpc # "add" => liveAddrs = {} /\ unsynced = {}

\* The stream belongs to the loop that reads it.
WatchPlace ==
  streamOpen => wpc = "select" \/ (wpc = "add" /\ syncThen = "select")

\* What a sync has done so far survives the episodes that start and end
\* meanwhile.
SyncedSoFar ==
  wpc = "add" => \A a \in liveAddrs \ unsynced : a \in Current \/ a \in Undialable

\* AddAgent makes an entry only after a successful dial.
NoneUndialable == \A a \in agents : a \notin Undialable

\* From place i on nothing but errors is on its way.
OnlyFailures(i) == \A j \in i .. Len(stream) : stream[j] = Failure

\* The watcher has the latest endpoints: it works on them or has done so.
HasLatest ==
  /\ wpc = "add" => liveAddrs = endpoints
  /\ wpc = "select" => Tracks(endpoints)

\* While the watch is open the latest endpoints are not lost: they are the last
\* list on its way, or the watcher has them.
LatestIsComing ==
  streamOpen /\ endpoints # Deleted =>
    \/ \E i \in 1 .. Len(stream) : stream[i] = endpoints /\ OnlyFailures(i + 1)
    \/ OnlyFailures(1) /\ HasLatest

\* The inductive invariant.  QuietMeansCurrent speaks of a watcher at rest only;
\* LatestIsComing says where the latest endpoints are when it is not.
WatcherInv ==
  /\ TypeOK
  /\ PoolInv
  /\ ~closed
  /\ IdleSync
  /\ WatchPlace
  /\ SyncedSoFar
  /\ NoneUndialable
  /\ LatestIsComing

-----------------------------------------------------------------------------
(* The pool.                                                               *)

\* The steps of the watcher, of the API server and of Stop that leave the pool
\* alone.
PoolAlone ==
  \/ \E eps \in {Deleted} \union SUBSET Addr : EndpointsChange(eps)
  \/ StreamError
  \/ \E n \in 0 .. Len(stream) : StreamBreaks(n)
  \/ GetEndpoints
  \/ GetFails
  \/ OpenWatch
  \/ OpenWatchFails
  \/ ReceiveEvent
  \/ StreamClosed
  \/ Retry
  \/ Stopped
  \/ Stop

LEMMA NextCases ==
  ASSUME [Next]_vars
  PROVE  \/ PoolAlone
         \/ \E a \in Addr : EpisodeStarts(a)
         \/ \E a \in Addr : EpisodeEnds(a)
         \/ \E a \in Addr : SyncAdd(a)
         \/ SyncRemove
         \/ UNCHANGED vars
BY DEF Next, WatcherStep, PoolAlone

LEMMA PoolAloneKeepsPool ==
  ASSUME PoolAlone
  PROVE  UNCHANGED poolVars
BY DEF PoolAlone, EndpointsChange, StreamError, StreamBreaks, GetEndpoints,
       GetFails, OpenWatch, OpenWatchFails, ReceiveEvent, StreamClosed, Retry,
       Stopped, Stop

\* Every step is a call of a method of the pool or leaves the pool alone, and
\* none is Close.
LEMMA WatcherNextPool ==
  ASSUME TypeOK, ~closed, [Next]_vars
  PROVE  [PoolNext]_poolVars /\ ~closed'
<1>1. CASE PoolAlone
  BY <1>1, PoolAloneKeepsPool DEF poolVars
<1>2. CASE \E a \in Addr : EpisodeStarts(a)
  <2>1. PICK a \in Addr : LockFreeAgent(a)
    BY <1>2 DEF EpisodeStarts
  <2>2. PoolNext
    BY <2>1 DEF PoolNext
  <2>3. UNCHANGED closed
    BY <2>1 DEF LockFreeAgent
  <2>4. QED
    BY <2>2, <2>3
<1>3. CASE \E a \in Addr : EpisodeEnds(a)
  <2>1. PICK a \in Addr : FreeAgent(a)
    BY <1>3 DEF EpisodeEnds
  <2>2. PoolNext
    BY <2>1 DEF PoolNext
  <2>3. UNCHANGED closed
    BY <2>1 DEF FreeAgent
  <2>4. QED
    BY <2>2, <2>3
<1>4. CASE \E a \in Addr : SyncAdd(a)
  <2>1. PoolNext
    BY <1>4 DEF SyncAdd, PoolNext
  <2>2. UNCHANGED closed
    BY <1>4 DEF SyncAdd, AddAgent, AgentReturns, AgentDialled, DialFails, poolVars
  <2>3. QED
    BY <2>1, <2>2
<1>5. CASE SyncRemove
  BY <1>5 DEF SyncRemove, RemoveAgentsNotIn, PoolNext, TypeOK
<1>6. CASE UNCHANGED vars
  BY <1>6 DEF vars, poolVars
<1>7. QED
  BY <1>1, <1>2, <1>3, <1>4, <1>5, <1>6, NextCases

\* An episode that starts or ends does not change what the pool may hand out or
\* keeps: an agent that leaves with its episode was marked before.
LEMMA EpisodesKeepCurrent ==
  ASSUME NEW a \in Addr, EpisodeStarts(a) \/ EpisodeEnds(a)
  PROVE  /\ Current' = Current
         /\ agents' \subseteq agents
         /\ UNCHANGED watcherVars
<1>1. CASE EpisodeStarts(a)
  BY <1>1 DEF EpisodeStarts, LockFreeAgent, Current
<1>2. CASE EpisodeEnds(a)
  BY <1>2 DEF EpisodeEnds, FreeAgent, Release, Drop, Current
<1>3. QED
  BY <1>1, <1>2

\* An AddAgent makes a current agent of the address, unless it cannot be dialled.
LEMMA SyncAddCurrent ==
  ASSUME PoolTypeOK, NEW a \in Addr, SyncAdd(a)
  PROVE  /\ Current \subseteq Current'
         /\ a \in Current' \/ a \in Undialable
         /\ \A b \in agents' : b \in agents \/ b \notin Undialable
<1>1. CASE AgentReturns(a)
  BY <1>1 DEF AgentReturns, Current
<1>2. CASE AgentDialled(a)
  BY <1>2 DEF AgentDialled, Current, PoolTypeOK
<1>3. CASE DialFails(a)
  BY <1>3 DEF DialFails, poolVars, Current
<1>4. QED
  BY <1>1, <1>2, <1>3 DEF SyncAdd, AddAgent

\* RemoveAgentsNotIn keeps of the current agents those that are listed.
LEMMA RemovalKeepsListed ==
  ASSUME PoolTypeOK, NEW live \in SUBSET Addr, RemoveAgentsNotIn(live)
  PROVE  /\ Current' = Current \intersect live
         /\ agents' \subseteq agents
BY DEF RemoveAgentsNotIn, Retire, Drop, Current, PoolTypeOK

-----------------------------------------------------------------------------
(* The invariant.                                                          *)

LEMMA InitWatcher == Init => WatcherInv
<1> SUFFICES ASSUME Init
             PROVE  WatcherInv
  OBVIOUS
<1>1. PoolInv /\ ~closed /\ agents = {}
  BY PoolInitInv DEF Init, PoolInit
<1>2. streamOpen \in BOOLEAN /\ cancelled \in BOOLEAN /\ ~streamOpen
  BY DEF Init
<1>3. stream \in Seq(Event) /\ Len(stream) = 0
  BY DEF Init
<1>4. TypeOK
  BY <1>1, <1>2, <1>3, WatcherAssumption DEF Init, TypeOK, PoolInv, Event
<1>5. QED
  BY <1>1, <1>2, <1>4
  DEF Init, WatcherInv, IdleSync, WatchPlace, SyncedSoFar, NoneUndialable,
      LatestIsComing

\* The API server: the endpoints change, errors are reported, the watch breaks.
LEMMA ApiInv ==
  ASSUME WatcherInv,
         \/ \E eps \in {Deleted} \union SUBSET Addr : EndpointsChange(eps)
         \/ StreamError
         \/ \E n \in 0 .. Len(stream) : StreamBreaks(n)
  PROVE  /\ endpoints' \in {Deleted} \union SUBSET Addr
         /\ stream' \in Seq(Event)
         /\ Len(stream') <= MaxEvents
         /\ streamOpen' \in BOOLEAN
         /\ streamOpen' => streamOpen
         /\ UNCHANGED <<poolVars, loopVars>>
         /\ LatestIsComing'
<1> USE DEF WatcherInv, TypeOK, Event
<1>1. Failure \in Event /\ Deleted \in Event
  OBVIOUS
<1>2. ASSUME NEW eps \in {Deleted} \union SUBSET Addr, EndpointsChange(eps)
      PROVE  /\ endpoints' \in {Deleted} \union SUBSET Addr
             /\ stream' \in Seq(Event)
             /\ Len(stream') <= MaxEvents
             /\ UNCHANGED <<streamOpen, poolVars, loopVars>>
             /\ LatestIsComing'
  <2>1. eps \in Event
    BY DEF Event
  <2>2. /\ Append(stream, eps) \in Seq(Event)
        /\ Len(Append(stream, eps)) = Len(stream) + 1
        /\ Append(stream, eps)[Len(stream) + 1] = eps
    BY <2>1, AppendProperties
  <2>3. LatestIsComing'
    <3> SUFFICES ASSUME streamOpen'
                 PROVE  \E i \in 1 .. Len(stream') :
                          stream'[i] = endpoints' /\ OnlyFailures(i + 1)'
      BY DEF LatestIsComing
    <3>1. stream' = Append(stream, eps) /\ endpoints' = eps
      <4>1. streamOpen
        BY <1>2 DEF EndpointsChange
      <4>2. QED
        BY <1>2, <4>1, Zenon DEF EndpointsChange
    <3>2. Len(stream) \in Nat /\ Len(stream') = Len(stream) + 1
      BY <2>2, <3>1, LenProperties
    <3>3. PICK k \in 1 .. Len(stream') : k = Len(stream')
      BY <3>2
    <3>4. stream'[k] = endpoints'
      BY <2>2, <3>1, <3>2, <3>3
    <3>5. \A j \in k + 1 .. Len(stream') : stream'[j] = Failure
      BY <3>2, <3>3
    <3>6. QED
      BY <3>4, <3>5 DEF OnlyFailures
  <2>4. QED
    BY <1>2, <2>2, <2>3, WatcherAssumption DEF EndpointsChange
<1>3. CASE StreamError
  <2>1. /\ Append(stream, Failure) \in Seq(Event)
        /\ Len(Append(stream, Failure)) = Len(stream) + 1
        /\ Append(stream, Failure)[Len(stream) + 1] = Failure
        /\ \A i \in 1 .. Len(stream) : Append(stream, Failure)[i] = stream[i]
    BY <1>1, AppendProperties
  <2>2. /\ stream' = Append(stream, Failure)
        /\ Len(stream) < MaxEvents
        /\ UNCHANGED <<poolVars, endpoints, streamOpen, loopVars>>
    BY <1>3 DEF StreamError
  <2>3. \A i \in Nat \ {0} : OnlyFailures(i) => OnlyFailures(i)'
    BY <2>1, <2>2 DEF OnlyFailures
  <2>4. HasLatest => HasLatest'
    BY <2>2 DEF HasLatest, Tracks, Current, loopVars, poolVars
  <2>5. LatestIsComing'
    BY <2>1, <2>2, <2>3, <2>4 DEF LatestIsComing
  <2>6. QED
    BY <2>1, <2>2, <2>5, WatcherAssumption
<1>4. ASSUME NEW n \in 0 .. Len(stream), StreamBreaks(n)
      PROVE  /\ stream' \in Seq(Event)
             /\ Len(stream') <= MaxEvents
             /\ streamOpen' \in BOOLEAN /\ ~streamOpen'
             /\ UNCHANGED <<endpoints, poolVars, loopVars>>
  <2>1. SubSeq(stream, 1, n) \in Seq(Event) /\ Len(SubSeq(stream, 1, n)) <= Len(stream)
    BY SubSeqProperties, ElementOfSeq
  <2>2. stream' = SubSeq(stream, 1, n)
    BY <1>4 DEF StreamBreaks
  <2>3. streamOpen' \in BOOLEAN /\ ~streamOpen'
    BY <1>4 DEF StreamBreaks
  <2>4. QED
    BY <1>4, <2>1, <2>2, <2>3, WatcherAssumption DEF StreamBreaks
<1>5. CASE \E n \in 0 .. Len(stream) : StreamBreaks(n)
  BY <1>4, <1>5 DEF LatestIsComing
<1>6. QED
  BY <1>2, <1>3, <1>5

\* One event is taken from the stream.  If it is the latest list, the watcher now
\* works on it; otherwise the latest list is still to come, or the event was an
\* error behind it.
LEMMA ReceiveEventInv ==
  ASSUME WatcherInv, ReceiveEvent
  PROVE  WatcherInv'
<1> USE DEF WatcherInv, TypeOK, Event
<1>1. /\ Head(stream) \in Event
      /\ Head(stream) = stream[1]
      /\ Tail(stream) \in Seq(Event)
      /\ Len(Tail(stream)) = Len(stream) - 1
      /\ \A i \in 1 .. Len(stream) - 1 : Tail(stream)[i] = stream[i + 1]
      /\ Len(stream) >= 1
  <2>1. stream \in Seq(Event) /\ stream # <<>>
    BY DEF ReceiveEvent
  <2>2. QED
    BY <2>1, HeadTailProperties
<1>2. /\ wpc = "select" /\ wpc' \in {"select", "add"}
      /\ stream' = Tail(stream)
      /\ UNCHANGED <<poolVars, endpoints, streamOpen, cancelled>>
  BY DEF ReceiveEvent, Goto, StartSync
<1>3. PoolInv' /\ PoolTypeOK' /\ ~closed' /\ NoneUndialable' /\ Current' = Current
  BY <1>2 DEF poolVars, PoolInv, PoolTypeOK, PendingIsBusy, ConnsMatchEntries,
              NoneUndialable, Current
<1>4. CASE Head(stream) \in {Deleted, Failure}
  <2>1. wpc' = "select" /\ liveAddrs' = {} /\ unsynced' = unsynced /\ syncThen' = syncThen
    BY <1>4 DEF ReceiveEvent, Goto
  <2>2. unsynced = {}
    BY <1>2 DEF IdleSync
  <2>3. TypeOK'
    BY <1>1, <1>2, <1>3, <2>1, <2>2, WatcherAssumption
  <2>4. IdleSync' /\ WatchPlace' /\ SyncedSoFar'
    BY <2>1, <2>2 DEF IdleSync, WatchPlace, SyncedSoFar
  <2>5. LatestIsComing'
    <3> SUFFICES ASSUME streamOpen', endpoints' # Deleted
                 PROVE  \/ \E i \in 1 .. Len(stream') :
                             stream'[i] = endpoints' /\ OnlyFailures(i + 1)'
                        \/ OnlyFailures(1)' /\ HasLatest'
      BY DEF LatestIsComing
    <3>1. streamOpen /\ endpoints # Deleted
      BY <1>2
    <3>2. ASSUME NEW i \in 1 .. Len(stream), stream[i] = endpoints, OnlyFailures(i + 1)
          PROVE  \E j \in 1 .. Len(stream') :
                   stream'[j] = endpoints' /\ OnlyFailures(j + 1)'
      <4>1. i # 1
        BY <1>1, <1>4, <3>1, <3>2, WatcherAssumption
      <4>2. i - 1 \in 1 .. Len(stream')
        BY <1>1, <1>2, <4>1
      <4>3. stream'[i - 1] = endpoints'
        BY <1>1, <1>2, <3>2, <4>2
      <4>4. OnlyFailures(i - 1 + 1)'
        BY <1>1, <1>2, <3>2, <4>1 DEF OnlyFailures
      <4>5. QED
        BY <4>2, <4>3, <4>4 DEF OnlyFailures
    <3>3. ASSUME OnlyFailures(1), HasLatest
          PROVE  OnlyFailures(1)' /\ HasLatest'
      BY <1>1, <1>2, <1>3, <2>1, <3>3 DEF OnlyFailures, HasLatest, Tracks
    <3>4. QED
      BY <3>1, <3>2, <3>3 DEF LatestIsComing
  <2>6. QED
    BY <1>3, <2>3, <2>4, <2>5
<1>5. CASE Head(stream) \notin {Deleted, Failure}
  <2>1. /\ wpc' = "add" /\ liveAddrs' = Head(stream) /\ unsynced' = Head(stream)
        /\ syncThen' = "select"
    BY <1>5 DEF ReceiveEvent, StartSync
  <2>2. TypeOK'
    BY <1>1, <1>2, <1>3, <1>5, <2>1, WatcherAssumption
  <2>3. IdleSync' /\ WatchPlace' /\ SyncedSoFar'
    BY <2>1 DEF IdleSync, WatchPlace, SyncedSoFar
  <2>4. LatestIsComing'
    <3> SUFFICES ASSUME streamOpen', endpoints' # Deleted
                 PROVE  \/ \E i \in 1 .. Len(stream') :
                             stream'[i] = endpoints' /\ OnlyFailures(i + 1)'
                        \/ OnlyFailures(1)' /\ HasLatest'
      BY DEF LatestIsComing
    <3>1. streamOpen /\ endpoints # Deleted
      BY <1>2
    <3>2. ASSUME NEW i \in 1 .. Len(stream), i # 1,
                 stream[i] = endpoints, OnlyFailures(i + 1)
          PROVE  \E j \in 1 .. Len(stream') :
                   stream'[j] = endpoints' /\ OnlyFailures(j + 1)'
      <4>1. i - 1 \in 1 .. Len(stream')
        BY <1>1, <1>2, <3>2
      <4>2. stream'[i - 1] = endpoints'
        BY <1>1, <1>2, <3>2, <4>1
      <4>3. OnlyFailures(i - 1 + 1)'
        BY <1>1, <1>2, <3>2 DEF OnlyFailures
      <4>4. QED
        BY <4>1, <4>2, <4>3 DEF OnlyFailures
    <3>3. ASSUME stream[1] = endpoints, OnlyFailures(2)
          PROVE  OnlyFailures(1)' /\ HasLatest'
      BY <1>1, <1>2, <2>1, <3>3 DEF OnlyFailures, HasLatest
    <3>4. ~OnlyFailures(1)
      BY <1>1, <1>5 DEF OnlyFailures
    <3>5. PICK i \in 1 .. Len(stream) : stream[i] = endpoints /\ OnlyFailures(i + 1)
      BY <3>1, <3>4 DEF LatestIsComing
    <3>6. CASE i = 1
      BY <3>3, <3>5, <3>6
    <3>7. CASE i # 1
      BY <3>2, <3>5, <3>7
    <3>8. QED
      BY <3>6, <3>7
  <2>5. QED
    BY <1>3, <2>2, <2>3, <2>4
<1>6. QED
  BY <1>4, <1>5

\* The pool changes by an episode: nothing of the watcher does.
LEMMA EpisodeInv ==
  ASSUME WatcherInv, NEW a \in Addr, EpisodeStarts(a) \/ EpisodeEnds(a),
         PoolInv', ~closed'
  PROVE  WatcherInv'
<1>1. /\ Current' = Current /\ agents' \subseteq agents
      /\ UNCHANGED watcherVars
  BY EpisodesKeepCurrent
<1>2. TypeOK'
  <2>1. UNCHANGED <<endpoints, stream, streamOpen, wpc, liveAddrs, unsynced,
                    syncThen, cancelled>>
    BY <1>1 DEF watcherVars, apiVars, loopVars
  <2>2. QED
    BY <2>1 DEF WatcherInv, TypeOK, PoolInv
<1>3. IdleSync' /\ WatchPlace'
  BY <1>1 DEF WatcherInv, IdleSync, WatchPlace, watcherVars, apiVars, loopVars
<1>4. SyncedSoFar' /\ NoneUndialable'
  BY <1>1 DEF WatcherInv, SyncedSoFar, NoneUndialable, watcherVars, loopVars
<1>5. LatestIsComing'
  BY <1>1 DEF WatcherInv, LatestIsComing, OnlyFailures, HasLatest, Tracks,
              watcherVars, apiVars, loopVars
<1>6. QED
  BY <1>2, <1>3, <1>4, <1>5 DEF WatcherInv

LEMMA SyncAddInv ==
  ASSUME WatcherInv, NEW a \in Addr, SyncAdd(a), PoolInv', ~closed'
  PROVE  WatcherInv'
<1>1. /\ Current \subseteq Current'
      /\ a \in Current' \/ a \in Undialable
      /\ \A b \in agents' : b \in agents \/ b \notin Undialable
  BY SyncAddCurrent DEF WatcherInv, TypeOK
<1>2. /\ wpc = "add"
      /\ unsynced' = unsynced \ {a}
      /\ UNCHANGED <<endpoints, stream, streamOpen, wpc, liveAddrs, syncThen, cancelled>>
  BY DEF SyncAdd, apiVars
<1>3. TypeOK'
  BY <1>2 DEF WatcherInv, TypeOK, PoolInv
<1>4. IdleSync' /\ WatchPlace'
  BY <1>2 DEF WatcherInv, IdleSync, WatchPlace
<1>5. SyncedSoFar' /\ NoneUndialable'
  BY <1>1, <1>2 DEF WatcherInv, SyncedSoFar, NoneUndialable
<1>6. LatestIsComing'
  BY <1>2 DEF WatcherInv, LatestIsComing, OnlyFailures, HasLatest
<1>7. QED
  BY <1>3, <1>4, <1>5, <1>6 DEF WatcherInv

\* All additions made and the rest removed: the pool holds what was listed.
LEMMA SyncRemoveTracks ==
  ASSUME WatcherInv, SyncRemove
  PROVE  /\ Current' = liveAddrs \ Undialable
         /\ agents' \subseteq agents
<1>1. wpc = "add" /\ unsynced = {} /\ RemoveAgentsNotIn(liveAddrs)
  BY DEF SyncRemove
<1>2. Current' = Current \intersect liveAddrs /\ agents' \subseteq agents
  BY <1>1, RemovalKeepsListed DEF WatcherInv, TypeOK
<1>3. \A a \in liveAddrs : a \in Current \/ a \in Undialable
  BY <1>1 DEF WatcherInv, SyncedSoFar
<1>4. \A a \in Current : a \notin Undialable
  BY DEF WatcherInv, NoneUndialable, Current
<1>5. QED
  BY <1>2, <1>3, <1>4

LEMMA SyncRemoveInv ==
  ASSUME WatcherInv, SyncRemove, PoolInv', ~closed'
  PROVE  WatcherInv'
<1>1. Current' = liveAddrs \ Undialable /\ agents' \subseteq agents
  BY SyncRemoveTracks
<1>2. /\ wpc = "add" /\ wpc' = syncThen
      /\ unsynced = {} /\ unsynced' = {} /\ liveAddrs' = {}
      /\ UNCHANGED <<endpoints, stream, streamOpen, syncThen, cancelled>>
  BY DEF SyncRemove, Goto, apiVars
<1>3. syncThen \in {"watch", "select"}
  BY DEF WatcherInv, TypeOK
<1>4. TypeOK'
  BY <1>2, <1>3 DEF WatcherInv, TypeOK, PoolInv
<1>5. IdleSync' /\ WatchPlace' /\ SyncedSoFar'
  BY <1>2, <1>3 DEF WatcherInv, IdleSync, WatchPlace, SyncedSoFar
<1>6. NoneUndialable'
  BY <1>1 DEF WatcherInv, NoneUndialable
<1>7. LatestIsComing'
  <2>1. HasLatest => HasLatest'
    BY <1>1, <1>2, <1>3 DEF HasLatest, Tracks
  <2>2. \A i \in Nat : OnlyFailures(i) => OnlyFailures(i)'
    BY <1>2 DEF OnlyFailures
  <2>3. QED
    BY <1>2, <2>1, <2>2 DEF WatcherInv, LatestIsComing, OnlyFailures
<1>8. QED
  BY <1>4, <1>5, <1>6, <1>7 DEF WatcherInv

\* A pool that is left alone keeps its part of the invariant.
LEMMA PoolAloneInv ==
  ASSUME WatcherInv, UNCHANGED poolVars
  PROVE  /\ PoolInv' /\ PoolTypeOK' /\ ~closed' /\ NoneUndialable'
         /\ Current' = Current
BY DEF WatcherInv, TypeOK, poolVars, PoolInv, PoolTypeOK, PendingIsBusy,
       ConnsMatchEntries, NoneUndialable, Current

\* The watcher gets by without an open watch: after an error, between two
\* attempts, or stopped.
LEMMA WithoutWatchInv ==
  ASSUME WatcherInv, UNCHANGED <<poolVars, endpoints>>,
         wpc # "add", NEW pc \in {"get", "backoff", "stopped"}, Goto(pc),
         ~streamOpen', streamOpen' \in BOOLEAN, cancelled' \in BOOLEAN,
         stream' \in Seq(Event), Len(stream') <= MaxEvents
  PROVE  WatcherInv'
<1>1. /\ wpc' = pc /\ liveAddrs' = {} /\ unsynced' = {} /\ UNCHANGED syncThen
  BY DEF Goto, WatcherInv, IdleSync
<1>2. /\ PoolInv' /\ PoolTypeOK' /\ ~closed' /\ NoneUndialable'
  BY PoolAloneInv
<1>3. TypeOK'
  BY <1>1, <1>2 DEF WatcherInv, TypeOK, Event
<1>4. IdleSync' /\ WatchPlace' /\ SyncedSoFar' /\ LatestIsComing'
  BY <1>1 DEF IdleSync, WatchPlace, SyncedSoFar, LatestIsComing
<1>5. QED
  BY <1>2, <1>3, <1>4 DEF WatcherInv

\* The failures of run and watchLoop, the retry, and the end.
LEMMA FailureInv ==
  ASSUME WatcherInv,
         GetFails \/ OpenWatchFails \/ StreamClosed \/ Retry \/ Stopped
  PROVE  WatcherInv'
<1>1. stream \in Seq(Event) /\ Len(stream) <= MaxEvents
  BY DEF WatcherInv, TypeOK, Event
<1>2. streamOpen \in BOOLEAN /\ cancelled \in BOOLEAN
  BY DEF WatcherInv, TypeOK
<1>3. CASE GetFails \/ OpenWatchFails \/ StreamClosed \/ Retry
  <2>1. /\ wpc \in {"get", "watch", "backoff"} \/ ~streamOpen
        /\ wpc # "add"
        /\ UNCHANGED <<poolVars, endpoints, stream>>
        /\ Goto("get") \/ Goto("backoff")
    BY <1>3 DEF GetFails, OpenWatchFails, StreamClosed, Retry, apiVars
  <2>2. ~streamOpen
    BY <2>1 DEF WatcherInv, WatchPlace
  <2>3. streamOpen' = streamOpen /\ cancelled' = cancelled
    BY <1>3 DEF GetFails, OpenWatchFails, StreamClosed, Retry, apiVars
  <2>4. ~streamOpen' /\ streamOpen' \in BOOLEAN /\ cancelled' \in BOOLEAN
    BY <1>2, <2>2, <2>3
  <2>5. QED
    BY <1>1, <2>1, <2>4, WithoutWatchInv
<1>4. CASE Stopped
  <2>1. /\ wpc # "add"
        /\ UNCHANGED <<poolVars, endpoints>>
        /\ Goto("stopped")
        /\ stream' = <<>>
    BY <1>4 DEF Stopped
  <2>2. ~streamOpen' /\ streamOpen' \in BOOLEAN
    BY <1>4 DEF Stopped
  <2>3. cancelled' \in BOOLEAN
    BY <1>2, <1>4 DEF Stopped
  <2>4. stream' \in Seq(Event) /\ Len(stream') <= MaxEvents
    BY <2>1, WatcherAssumption
  <2>5. QED
    BY <2>1, <2>2, <2>3, <2>4, WithoutWatchInv
<1>5. QED
  BY <1>3, <1>4

\* The initial Get starts a sync before a watch is open.
LEMMA GetEndpointsInv ==
  ASSUME WatcherInv, GetEndpoints
  PROVE  WatcherInv'
<1>1. /\ wpc = "get" /\ endpoints # Deleted
      /\ wpc' = "add" /\ liveAddrs' = endpoints /\ unsynced' = endpoints
      /\ syncThen' = "watch"
      /\ UNCHANGED <<poolVars, endpoints, stream, streamOpen, cancelled>>
  BY DEF GetEndpoints, StartSync, apiVars
<1>2. ~streamOpen'
  BY <1>1 DEF WatcherInv, WatchPlace
<1>3. PoolInv' /\ PoolTypeOK' /\ ~closed' /\ NoneUndialable'
  BY <1>1, PoolAloneInv
<1>4. TypeOK'
  BY <1>1, <1>3 DEF WatcherInv, TypeOK
<1>5. IdleSync' /\ WatchPlace' /\ SyncedSoFar' /\ LatestIsComing'
  BY <1>1, <1>2 DEF IdleSync, WatchPlace, SyncedSoFar, LatestIsComing
<1>6. QED
  BY <1>3, <1>4, <1>5 DEF WatcherInv

\* A new watch starts with the object as it is: what changed since the Get is
\* not lost.
LEMMA OpenWatchInv ==
  ASSUME WatcherInv, OpenWatch
  PROVE  WatcherInv'
<1>1. /\ wpc = "watch"
      /\ wpc' = "select" /\ liveAddrs' = {} /\ UNCHANGED <<unsynced, syncThen>>
      /\ stream' = IF endpoints = Deleted THEN <<>> ELSE <<endpoints>>
      /\ UNCHANGED <<poolVars, endpoints, cancelled>>
  BY DEF OpenWatch, Goto
<1>2. streamOpen' \in BOOLEAN
  BY DEF OpenWatch
<1>3. PoolInv' /\ PoolTypeOK' /\ ~closed' /\ NoneUndialable'
  BY <1>1, PoolAloneInv
<1>4. unsynced = {}
  BY <1>1 DEF WatcherInv, IdleSync
<1>5. endpoints \in Event
  BY DEF WatcherInv, TypeOK, Event
<1>6. stream' \in Seq(Event) /\ Len(stream') <= MaxEvents
  BY <1>1, <1>5, WatcherAssumption
<1>7. TypeOK'
  BY <1>1, <1>2, <1>3, <1>4, <1>6 DEF WatcherInv, TypeOK, Event
<1>8. IdleSync' /\ WatchPlace' /\ SyncedSoFar'
  BY <1>1, <1>4 DEF IdleSync, WatchPlace, SyncedSoFar
<1>9. LatestIsComing'
  <2> SUFFICES ASSUME endpoints # Deleted
               PROVE  \E i \in 1 .. Len(stream') :
                        stream'[i] = endpoints' /\ OnlyFailures(i + 1)'
    BY <1>1 DEF LatestIsComing
  <2>1. stream' = <<endpoints>> /\ endpoints' = endpoints
    BY <1>1
  <2>2. Len(stream') = 1 /\ stream'[1] = endpoints'
    BY <2>1
  <2>3. \A j \in 1 + 1 .. Len(stream') : stream'[j] = Failure
    BY <2>2
  <2>4. QED
    BY <2>2, <2>3 DEF OnlyFailures
<1>10. QED
  BY <1>3, <1>7, <1>8, <1>9 DEF WatcherInv

-----------------------------------------------------------------------------

LEMMA NextWatcher == WatcherInv /\ [Next]_vars => WatcherInv'
<1> SUFFICES ASSUME WatcherInv, [Next]_vars
             PROVE  WatcherInv'
  OBVIOUS
<1>1. [PoolNext]_poolVars /\ ~closed'
  BY WatcherNextPool DEF WatcherInv
<1>2. PoolInv'
  BY <1>1, PoolNextInv DEF WatcherInv
<1>3. CASE \/ \E eps \in {Deleted} \union SUBSET Addr : EndpointsChange(eps)
           \/ StreamError
           \/ \E n \in 0 .. Len(stream) : StreamBreaks(n)
  <2>1. /\ endpoints' \in {Deleted} \union SUBSET Addr
        /\ stream' \in Seq(Event)
        /\ Len(stream') <= MaxEvents
        /\ streamOpen' \in BOOLEAN
        /\ streamOpen' => streamOpen
        /\ UNCHANGED <<poolVars, loopVars>>
        /\ LatestIsComing'
    BY <1>3, ApiInv
  <2>2. PoolTypeOK' /\ NoneUndialable' /\ Current' = Current
    BY <2>1, PoolAloneInv
  <2>3. UNCHANGED <<wpc, liveAddrs, unsynced, syncThen, cancelled>>
    BY <2>1 DEF loopVars
  <2>4. TypeOK'
    BY <2>1, <2>2, <2>3 DEF WatcherInv, TypeOK, Event
  <2>5. IdleSync' /\ WatchPlace' /\ SyncedSoFar'
    BY <2>1, <2>2, <2>3 DEF WatcherInv, IdleSync, WatchPlace, SyncedSoFar
  <2>6. QED
    BY <1>1, <1>2, <2>1, <2>2, <2>4, <2>5 DEF WatcherInv
<1>4. CASE \E a \in Addr : EpisodeStarts(a) \/ EpisodeEnds(a)
  BY <1>1, <1>2, <1>4, EpisodeInv
<1>5. CASE \E a \in Addr : SyncAdd(a)
  BY <1>1, <1>2, <1>5, SyncAddInv
<1>6. CASE SyncRemove
  BY <1>1, <1>2, <1>6, SyncRemoveInv
<1>7. CASE GetEndpoints
  BY <1>7, GetEndpointsInv
<1>8. CASE GetFails \/ OpenWatchFails \/ StreamClosed \/ Retry \/ Stopped
  BY <1>8, FailureInv
<1>9. CASE OpenWatch
  BY <1>9, OpenWatchInv
<1>10. CASE ReceiveEvent
  BY <1>10, ReceiveEventInv
<1>11. CASE Stop \/ UNCHANGED vars
  <2>1. /\ UNCHANGED <<poolVars, endpoints, stream, streamOpen>>
        /\ UNCHANGED <<wpc, liveAddrs, unsynced, syncThen>>
    BY <1>11 DEF Stop, vars, apiVars, loopVars, watcherVars
  <2>2. cancelled' \in BOOLEAN
    BY <1>11 DEF Stop, vars, loopVars, watcherVars, WatcherInv, TypeOK
  <2>3. PoolTypeOK' /\ NoneUndialable' /\ Current' = Current
    BY <2>1, PoolAloneInv
  <2>4. TypeOK'
    BY <2>1, <2>2, <2>3 DEF WatcherInv, TypeOK
  <2>5. IdleSync' /\ WatchPlace' /\ SyncedSoFar'
    BY <2>1, <2>3 DEF WatcherInv, IdleSync, WatchPlace, SyncedSoFar
  <2>6. LatestIsComing'
    BY <2>1, <2>3 DEF WatcherInv, LatestIsComing, OnlyFailures, HasLatest, Tracks
  <2>7. QED
    BY <1>1, <1>2, <2>3, <2>4, <2>5, <2>6 DEF WatcherInv
<1>12. QED
  BY <1>3, <1>4, <1>5, <1>6, <1>7, <1>8, <1>9, <1>10, <1>11
  DEF Next, WatcherStep

-----------------------------------------------------------------------------
(* Theorems.                                                               *)

\* The variables keep their types: the watcher never works on endpoints that do
\* not exist, and what it has still to add is part of the list it works on.
THEOREM WatcherTypeCorrect == Spec => []TypeOK
<1>1. WatcherInv => TypeOK
  BY DEF WatcherInv
<1>2. QED
  BY <1>1, InitWatcher, NextWatcher, PTL DEF Spec

\* Whatever the watcher and the episodes do to the pool is a sequence of calls
\* of its methods (pool.go), so what is proved of the pool holds in the router.
THEOREM WatcherUsesPool == Spec => PoolSpec
<1>1. Init => PoolInit
  BY DEF Init
<1>2. WatcherInv /\ [Next]_vars => [PoolNext]_poolVars
  BY WatcherNextPool DEF WatcherInv
<1>3. QED
  BY <1>1, <1>2, InitWatcher, NextWatcher, PTL DEF Spec, PoolSpec

\* No change of the endpoints is lost, between the Get and the Watch, between two
\* watches or in the middle of a sync: a watcher with nothing left to read has a
\* pool of exactly the listed agents that can be dialled (watcher.go:73, 80,
\* 115-131).
THEOREM WatcherQuietMeansCurrent == Spec => []QuietMeansCurrent
<1>1. WatcherInv => QuietMeansCurrent
  <2> SUFFICES ASSUME WatcherInv, wpc = "select", streamOpen, stream = <<>>,
                      endpoints # Deleted
               PROVE  Tracks(endpoints)
    BY DEF QuietMeansCurrent
  <2>1. Len(stream) = 0
    OBVIOUS
  <2>2. HasLatest
    BY <2>1 DEF WatcherInv, LatestIsComing
  <2>3. QED
    BY <2>2 DEF HasLatest
<1>2. QED
  BY <1>1, InitWatcher, NextWatcher, PTL DEF Spec

\* A pod that stays listed keeps its agent through failed Gets, broken watches
\* and retries (watcher.go:72-75, 92-107, 131).
THEOREM WatcherListedAgentStays == Spec => ListedAgentStays
<1>1. ASSUME WatcherInv, [Next]_vars, NEW a \in Addr, a \in Current, AlwaysListed(a)
      PROVE  a \in Current'
  <2>1. CASE PoolAlone
    <3>1. UNCHANGED poolVars
      BY <2>1, PoolAloneKeepsPool
    <3>2. QED
      BY <1>1, <3>1 DEF poolVars, Current
  <2>2. CASE \E b \in Addr : EpisodeStarts(b)
    BY <1>1, <2>2, EpisodesKeepCurrent
  <2>3. CASE \E b \in Addr : EpisodeEnds(b)
    BY <1>1, <2>3, EpisodesKeepCurrent
  <2>4. CASE \E b \in Addr : SyncAdd(b)
    BY <1>1, <2>4, SyncAddCurrent DEF WatcherInv, TypeOK
  <2>5. CASE SyncRemove
    <3>1. a \in liveAddrs
      BY <1>1, <2>5 DEF AlwaysListed, SyncRemove
    <3>2. RemoveAgentsNotIn(liveAddrs)
      BY <2>5 DEF SyncRemove
    <3>3. Current' = Current \intersect liveAddrs
      BY <1>1, <3>2, RemovalKeepsListed DEF WatcherInv, TypeOK
    <3>4. QED
      BY <1>1, <3>1, <3>3
  <2>6. CASE UNCHANGED vars
    BY <1>1, <2>6 DEF vars, poolVars, Current
  <2>7. QED
    BY <1>1, <2>1, <2>2, <2>3, <2>4, <2>5, <2>6, NextCases
<1>2. WatcherInv /\ [Next]_vars =>
        [\A a \in Addr :
           a \in Current /\ AlwaysListed(a) /\ AlwaysListed(a)' => a \in Current']_vars
  BY <1>1
<1>3. QED
  BY <1>2, InitWatcher, NextWatcher, PTL DEF Spec, ListedAgentStays
=============================================================================
