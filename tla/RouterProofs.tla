---------------------------- MODULE RouterProofs ----------------------------
(***************************************************************************)
(* Theorems about the router, for any number of addresses, clients and     *)
(* concurrent calls: the pool keeps its invariants under the router, and   *)
(* episodes have their agents to themselves.                               *)
(***************************************************************************)
EXTENDS Router, PoolProofs

\* The variables the router adds to the pool.
CallTypeOK ==
  /\ call \in [Handler -> Call]
  /\ session \in [Client -> Addr \union {NoSession}]

\* What a handler's place in its code says about the address it holds.
CallsInv ==
  \A h \in Handler :
    /\ call[h].pc = "idle" => call[h].caller = NoClient
    /\ call[h].pc \in {"idle", "reset"} => call[h].addr = NoSession
    /\ call[h].pc \in Captured => call[h].addr \in Addr

\* A client waits for one call.
OneCall ==
  \A g, h \in Handler :
    call[g].caller = call[h].caller /\ call[g].caller # NoClient => g = h

ControlInv == CallTypeOK /\ CallsInv /\ OneCall

\* Handler h is among Claims(a).
HandlerClaims(h, a) ==
  call[h].addr = a /\ call[h].pc \in {"locked", "resetting", "close"}

\* Locked, and safe from the cleanup.
Held(a) == a \in busy /\ age[a] <= SessionTimeout

\* DedicatedAgent claim by claim.  It is inductive together with the fact that
\* a claimed agent is not stale, so that the cleanup leaves it alone.
Exclusive ==
  \A a \in Addr :
    /\ \A c \in Client : session[c] = a => Held(a)
    /\ \A h \in Handler : HandlerClaims(h, a) => Held(a)
    /\ \A c, d \in Client : session[c] = a /\ session[d] = a => c = d
    /\ \A g, h \in Handler : HandlerClaims(g, a) /\ HandlerClaims(h, a) => g = h
    /\ \A c \in Client, h \in Handler : ~(session[c] = a /\ HandlerClaims(h, a))

\* Handler h works for an episode that its client still has, or will have.
ForEpisode(h) ==
  \/ call[h].pc \in {"locked", "resetting"}
  \/ /\ call[h].pc \in {"found", "stepping"}
     /\ call[h].caller # NoClient
     /\ session[call[h].caller] = call[h].addr

RouterInv == PoolInv /\ ControlInv /\ Exclusive /\ EpisodeKeepsConnection

LEMMA IdleIsCall == Idle \in Call
  BY DEF Idle, Call, Pc

\* A step that only severs connections.
LEMMA SeverFacts ==
  ASSUME CallTypeOK, call' = Sever(call)
  PROVE  /\ call' \in [Handler -> Call]
         /\ \A g \in Handler :
              /\ call'[g].pc = call[g].pc
              /\ call'[g].addr = call[g].addr
              /\ call'[g].caller = call[g].caller
              /\ call[g].addr \notin agents \ agents' =>
                   call'[g].open = call[g].open
<1>1. ASSUME NEW g \in Handler
      PROVE  /\ call'[g] \in Call
             /\ call'[g].pc = call[g].pc
             /\ call'[g].addr = call[g].addr
             /\ call'[g].caller = call[g].caller
             /\ call[g].addr \notin agents \ agents' =>
                  call'[g].open = call[g].open
  <2>1. call[g] \in Call
    BY DEF CallTypeOK
  <2>2. CASE call[g].pc \in Captured /\ call[g].addr \in agents \ agents'
    <3>1. call'[g] = [call[g] EXCEPT !.open = FALSE]
      BY <2>2 DEF Sever
    <3>2. QED
      BY <2>1, <2>2, <3>1 DEF Call
  <2>3. CASE ~(call[g].pc \in Captured /\ call[g].addr \in agents \ agents')
    <3>1. call'[g] = call[g]
      BY <2>3 DEF Sever
    <3>2. QED
      BY <2>1, <3>1
  <2>4. QED
    BY <2>2, <2>3
<1>2. call' = [g \in Handler |-> call'[g]]
  BY DEF Sever
<1>3. QED
  BY <1>1, <1>2

\* A handler that returns is idle; the others keep everything but, if this step
\* deletes their agent's entry, the connection.
LEMMA ReturnFacts ==
  ASSUME CallTypeOK, NEW h \in Handler, call' = Sever([call EXCEPT ![h] = Idle])
  PROVE  /\ call' \in [Handler -> Call]
         /\ call'[h].pc = "idle"
         /\ call'[h].addr = NoSession
         /\ call'[h].caller = NoClient
         /\ \A g \in Handler \ {h} :
              /\ call'[g].pc = call[g].pc
              /\ call'[g].addr = call[g].addr
              /\ call'[g].caller = call[g].caller
              /\ call[g].addr \notin agents \ agents' =>
                   call'[g].open = call[g].open
<1>1. call'[h] = Idle
  <2>1. [call EXCEPT ![h] = Idle][h] = Idle
    BY DEF CallTypeOK
  <2>2. Idle.pc \notin Captured
    BY DEF Idle, Captured
  <2>3. QED
    BY <2>1, <2>2 DEF Sever
<1>2. ASSUME NEW g \in Handler, g # h
      PROVE  /\ call'[g] \in Call
             /\ call'[g].pc = call[g].pc
             /\ call'[g].addr = call[g].addr
             /\ call'[g].caller = call[g].caller
             /\ call[g].addr \notin agents \ agents' =>
                  call'[g].open = call[g].open
  <2>1. call[g] \in Call /\ [call EXCEPT ![h] = Idle][g] = call[g]
    BY <1>2 DEF CallTypeOK
  <2>2. CASE call[g].pc \in Captured /\ call[g].addr \in agents \ agents'
    <3>1. call'[g] = [call[g] EXCEPT !.open = FALSE]
      BY <2>1, <2>2 DEF Sever
    <3>2. QED
      BY <2>1, <2>2, <3>1 DEF Call
  <2>3. CASE ~(call[g].pc \in Captured /\ call[g].addr \in agents \ agents')
    <3>1. call'[g] = call[g]
      BY <2>1, <2>3 DEF Sever
    <3>2. QED
      BY <2>1, <3>1
  <2>4. QED
    BY <2>2, <2>3
<1>3. call' = [g \in Handler |-> call'[g]]
  BY DEF Sever
<1>4. Idle.pc = "idle" /\ Idle.addr = NoSession /\ Idle.caller = NoClient
  BY DEF Idle
<1>5. call' \in [Handler -> Call]
  BY <1>1, <1>2, <1>3, IdleIsCall
<1>6. QED
  BY <1>1, <1>2, <1>4, <1>5

-----------------------------------------------------------------------------
(* The router uses the pool through its methods only.                      *)

LEMMA HandlerStepPool ==
  ASSUME ControlInv, ~closed, NEW h \in Handler, HandlerStep(h)
  PROVE  PoolNext \/ UNCHANGED poolVars
<1>1. call[h].pc \in Captured => call[h].addr \in Addr
  BY DEF ControlInv, CallsInv
<1>2. call[h].addr \in Addr \union {NoSession}
  BY DEF ControlInv, CallTypeOK, Call
<1>3. ASSUME NEW a \in Addr, ResetLock(h, a)
      PROVE  PoolNext
  BY <1>3 DEF ResetLock, PoolNext
<1>4. CASE ResetTouch(h) \/ StepTouch(h)
  BY <1>1, <1>4 DEF ResetTouch, StepTouch, Captured, PoolNext
<1>5. CASE ResetError(h)
  BY <1>1, <1>5 DEF ResetError, Captured, PoolNext
<1>6. ASSUME NEW done \in DoneReplies, StepReply(h, done)
      PROVE  PoolNext \/ UNCHANGED poolVars
  BY <1>1, <1>6 DEF StepReply, Captured, PoolNext
<1>7. CASE CloseSession(h)
  BY <1>2, <1>7 DEF CloseSession, PoolNext
<1>8. CASE \/ ResetReject(h)
           \/ \E success \in BOOLEAN : ResetReply(h, success)
           \/ StepReject(h) \/ StepFind(h) \/ StepError(h) \/ CloseReject(h)
  BY <1>8
  DEF ResetReject, ResetReply, StepReject, StepFind, StepError, CloseReject
<1>9. QED
  BY <1>3, <1>4, <1>5, <1>6, <1>7, <1>8 DEF HandlerStep

LEMMA NextPool ==
  ASSUME ControlInv, [Next]_vars
  PROVE  [PoolNext]_poolVars
<1>1. CASE UNCHANGED vars
  BY <1>1 DEF vars
<1>2. CASE Next
  <2>1. ~closed
    BY <1>2 DEF Next
  <2>2. ASSUME NEW c \in Client, ClientStep(c)
        PROVE  UNCHANGED poolVars
    BY <2>2 DEF ClientStep, SendReset, SendStep, SendClose, Send, Crash
  <2>3. ASSUME NEW h \in Handler, GiveUp(h)
        PROVE  UNCHANGED poolVars
    BY <2>3 DEF GiveUp
  <2>4. ASSUME NEW h \in Handler, HandlerStep(h)
        PROVE  PoolNext \/ UNCHANGED poolVars
    BY <2>1, <2>4, HandlerStepPool
  <2>5. CASE Cleanup
    BY <2>1, <2>5 DEF Cleanup, PoolNext
  <2>6. ASSUME NEW a \in Addr, EndpointAdded(a)
        PROVE  PoolNext
    BY <2>1, <2>6 DEF EndpointAdded, PoolNext
  <2>7. ASSUME NEW liveAddrs \in SUBSET Addr, EndpointsListed(liveAddrs)
        PROVE  PoolNext
    BY <2>1, <2>7 DEF EndpointsListed, PoolNext
  <2>8. CASE Signal
    BY <2>8 DEF Signal
  <2>9. CASE Shutdown
    BY <2>1, <2>9 DEF Shutdown, PoolNext
  <2>10. CASE TimePasses
    BY <2>1, <2>10 DEF TimePasses, PoolNext
  <2>11. QED
    BY <1>2, <2>2, <2>3, <2>4, <2>5, <2>6, <2>7, <2>8, <2>9, <2>10 DEF Next
<1>3. QED
  BY <1>1, <1>2

-----------------------------------------------------------------------------
(* The handlers' control.                                                  *)

LEMMA InitControl == Init => ControlInv
<1> SUFFICES ASSUME Init
             PROVE  ControlInv
  OBVIOUS
<1>1. CallTypeOK
  BY IdleIsCall DEF Init, CallTypeOK
<1>2. \A h \in Handler : call[h] = Idle
  BY DEF Init
<1>3. CallsInv /\ OneCall
  BY <1>2 DEF CallsInv, OneCall, Idle, Captured
<1>4. QED
  BY <1>1, <1>3 DEF ControlInv

\* A handler that returns.
LEMMA ReturnControl ==
  ASSUME ControlInv, NEW h \in Handler, call' = Sever([call EXCEPT ![h] = Idle]),
         session' \in [Client -> Addr \union {NoSession}]
  PROVE  ControlInv'
<1>1. CallTypeOK /\ CallsInv /\ OneCall
  BY DEF ControlInv
<1>2. /\ call' \in [Handler -> Call]
      /\ call'[h].pc = "idle"
      /\ call'[h].addr = NoSession
      /\ call'[h].caller = NoClient
      /\ \A g \in Handler \ {h} :
           /\ call'[g].pc = call[g].pc
           /\ call'[g].addr = call[g].addr
           /\ call'[g].caller = call[g].caller
  BY <1>1, ReturnFacts, Zenon
<1>3. CallTypeOK'
  BY <1>2 DEF CallTypeOK
<1>4. CallsInv'
  BY <1>1, <1>2 DEF CallsInv, Captured
<1>5. ASSUME NEW f \in Handler, NEW g \in Handler,
             call'[f].caller = call'[g].caller, call'[f].caller # NoClient
      PROVE  f = g
  <2>1. f # h /\ g # h
    BY <1>2, <1>5
  <2>2. call[f].caller = call[g].caller /\ call[f].caller # NoClient
    BY <1>2, <1>5, <2>1
  <2>3. QED
    BY <1>1, <2>2 DEF OneCall
<1>6. QED
  BY <1>3, <1>4, <1>5 DEF ControlInv, OneCall

\* A handler that goes on to pc.
LEMMA GotoControl ==
  ASSUME ControlInv, NEW h \in Handler, NEW a \in Addr, NEW pc \in Captured,
         NEW open \in BOOLEAN,
         call' = [call EXCEPT ![h] = [pc |-> pc, addr |-> a,
                                      caller |-> call[h].caller, open |-> open]],
         UNCHANGED session
  PROVE  ControlInv'
<1> DEFINE r == [pc |-> pc, addr |-> a, caller |-> call[h].caller, open |-> open]
<1>1. r \in Call
  BY DEF Call, Captured, Pc, ControlInv, CallTypeOK
<1>2. call'[h] = r /\ \A g \in Handler \ {h} : call'[g] = call[g]
  BY DEF ControlInv, CallTypeOK
<1>3. CallTypeOK'
  BY <1>1 DEF ControlInv, CallTypeOK
<1>4. CallsInv'
  BY <1>2 DEF ControlInv, CallsInv, Captured
<1>5. OneCall'
  BY <1>2 DEF ControlInv, OneCall
<1>6. QED
  BY <1>3, <1>4, <1>5 DEF ControlInv

LEMMA HandlerStepControl ==
  ASSUME PoolInv, ControlInv, NEW h \in Handler, HandlerStep(h)
  PROVE  ControlInv'
<1>1. call[h] \in Call /\ call \in [Handler -> Call]
  BY DEF ControlInv, CallTypeOK
<1>2. call[h].pc \in Captured => call[h].addr \in Addr
  BY DEF ControlInv, CallsInv
<1>3. session \in [Client -> Addr \union {NoSession}]
  BY DEF ControlInv, CallTypeOK
<1>4. ASSUME NEW a \in Addr, ResetLock(h, a)
      PROVE  ControlInv'
  <2>1. call' = [call EXCEPT ![h] = [pc |-> "locked", addr |-> a,
                                     caller |-> call[h].caller, open |-> TRUE]]
    BY <1>1, <1>4 DEF ResetLock
  <2>2. QED
    BY <1>4, <2>1, GotoControl DEF ResetLock, Captured
<1>5. CASE ResetTouch(h) \/ StepTouch(h)
  <2>1. PICK pc \in Captured :
          call' = [call EXCEPT ![h] = [pc |-> pc, addr |-> call[h].addr,
                                       caller |-> call[h].caller,
                                       open |-> call[h].open]]
    BY <1>1, <1>5 DEF ResetTouch, StepTouch, Goto, Call, Captured
  <2>2. call[h].addr \in Addr /\ call[h].open \in BOOLEAN /\ UNCHANGED session
    BY <1>1, <1>2, <1>5 DEF ResetTouch, StepTouch, Call, Captured
  <2>3. QED
    BY <2>1, <2>2, GotoControl
<1>6. CASE StepFind(h)
  <2>1. call' = [call EXCEPT ![h] = [pc |-> "found", addr |-> call[h].addr,
                                     caller |-> call[h].caller, open |-> TRUE]]
    BY <1>1, <1>6 DEF StepFind
  <2>2. call[h].addr \in Addr
    BY <1>6 DEF StepFind, PoolInv, PoolTypeOK
  <2>3. QED
    BY <1>6, <2>1, <2>2, GotoControl DEF StepFind, Captured
<1>7. CASE \/ ResetReject(h) \/ ResetError(h) \/ StepReject(h) \/ StepError(h)
           \/ CloseSession(h) \/ CloseReject(h)
  BY <1>3, <1>7, ReturnControl
  DEF ResetReject, ResetError, StepReject, StepError, CloseSession, CloseReject,
      ReturnKeeping
<1>8. ASSUME NEW success \in BOOLEAN, ResetReply(h, success)
      PROVE  ControlInv'
  <2>1. call[h].addr \in Addr
    BY <1>2, <1>8 DEF ResetReply, Captured
  <2>2. QED
    BY <1>3, <1>8, <2>1, ReturnControl DEF ResetReply, Return, ReturnKeeping
<1>9. ASSUME NEW done \in DoneReplies, StepReply(h, done)
      PROVE  ControlInv'
  BY <1>3, <1>9, ReturnControl DEF StepReply, Return, ReturnKeeping
<1>10. QED
  BY <1>4, <1>5, <1>6, <1>7, <1>8, <1>9 DEF HandlerStep

\* A client that starts a call does not wait for another one.
LEMMA SendControl ==
  ASSUME ControlInv, NEW c \in Client, NEW h \in Handler,
         NEW pc \in {"reset", "step", "close"}, NEW addr \in Addr \union {NoSession},
         pc = "reset" => addr = NoSession,
         Send(c, h, pc, addr),
         session' \in [Client -> Addr \union {NoSession}]
  PROVE  ControlInv'
<1> DEFINE r == [pc |-> pc, addr |-> addr, caller |-> c, open |-> FALSE]
<1>1. r \in Call
  BY DEF Call, Pc
<1>2. call'[h] = r /\ \A g \in Handler \ {h} : call'[g] = call[g]
  BY DEF Send, ControlInv, CallTypeOK
<1>3. CallTypeOK'
  BY <1>1 DEF ControlInv, CallTypeOK, Send
<1>4. CallsInv'
  BY <1>2 DEF ControlInv, CallsInv, Captured
<1>5. \A g \in Handler : call[g].caller # c
  BY DEF Send, Waiting
<1>6. call'[h].caller = c /\ \A g \in Handler \ {h} : call'[g].caller = call[g].caller
  BY <1>2
<1>7. OneCall'
  BY <1>5, <1>6 DEF ControlInv, OneCall
<1>8. QED
  BY <1>3, <1>4, <1>7 DEF ControlInv

\* A call that loses its client.
LEMMA ForsakenControl ==
  ASSUME ControlInv, NEW G \in SUBSET Handler,
         call' = [g \in Handler |->
                    IF g \in G THEN [call[g] EXCEPT !.caller = NoClient] ELSE call[g]],
         session' \in [Client -> Addr \union {NoSession}]
  PROVE  ControlInv'
<1>1. ASSUME NEW g \in Handler
      PROVE  /\ call'[g] \in Call
             /\ call'[g].pc = call[g].pc
             /\ call'[g].addr = call[g].addr
             /\ call'[g].caller = IF g \in G THEN NoClient ELSE call[g].caller
  BY DEF ControlInv, CallTypeOK, Call
<1>2. CallTypeOK'
  BY <1>1 DEF CallTypeOK
<1>3. CallsInv'
  BY <1>1 DEF ControlInv, CallsInv
<1>4. OneCall'
  BY <1>1 DEF ControlInv, OneCall
<1>5. QED
  BY <1>2, <1>3, <1>4 DEF ControlInv

LEMMA ClientStepControl ==
  ASSUME ControlInv, NEW c \in Client, ClientStep(c)
  PROVE  ControlInv'
<1>1. session \in [Client -> Addr \union {NoSession}]
  BY DEF ControlInv, CallTypeOK
<1>2. ASSUME NEW h \in Handler, SendReset(c, h)
      PROVE  ControlInv'
  BY <1>1, <1>2, SendControl DEF SendReset
<1>3. ASSUME NEW h \in Handler, SendStep(c, h)
      PROVE  ControlInv'
  BY <1>1, <1>3, SendControl DEF SendStep
<1>4. ASSUME NEW h \in Handler, SendClose(c, h)
      PROVE  ControlInv'
  BY <1>1, <1>4, SendControl DEF SendClose
<1>5. CASE Crash(c)
  <2> DEFINE G == {g \in Handler : call[g].caller = c}
  <2>1. call' = [g \in Handler |->
                   IF g \in G THEN [call[g] EXCEPT !.caller = NoClient] ELSE call[g]]
    BY <1>5 DEF Crash
  <2>2. session' \in [Client -> Addr \union {NoSession}]
    BY <1>1, <1>5 DEF Crash
  <2>3. G \in SUBSET Handler
    OBVIOUS
  <2> HIDE DEF G
  <2>4. QED
    BY <2>1, <2>2, <2>3, ForsakenControl
<1>6. QED
  BY <1>2, <1>3, <1>4, <1>5 DEF ClientStep

LEMMA NextControl == PoolInv /\ ControlInv /\ [Next]_vars => ControlInv'
<1> SUFFICES ASSUME PoolInv, ControlInv, [Next]_vars
             PROVE  ControlInv'
  OBVIOUS
<1>1. CASE UNCHANGED <<call, session>>
  BY <1>1 DEF ControlInv, CallTypeOK, CallsInv, OneCall
<1>2. ASSUME NEW c \in Client, ClientStep(c)
      PROVE  ControlInv'
  BY <1>2, ClientStepControl
<1>3. ASSUME NEW h \in Handler, GiveUp(h)
      PROVE  ControlInv'
  <2>1. call' = [g \in Handler |-> IF g \in {h}
                                   THEN [call[g] EXCEPT !.caller = NoClient]
                                   ELSE call[g]]
    BY <1>3 DEF GiveUp, ControlInv, CallTypeOK
  <2>2. session' \in [Client -> Addr \union {NoSession}]
    BY <1>3 DEF GiveUp, ControlInv, CallTypeOK
  <2>3. QED
    BY <2>1, <2>2, ForsakenControl
<1>4. ASSUME NEW h \in Handler, HandlerStep(h)
      PROVE  ControlInv'
  BY <1>4, HandlerStepControl
<1>5. CASE call' = Sever(call) /\ UNCHANGED session
  <2>1. CallTypeOK
    BY DEF ControlInv
  <2>2. /\ call' \in [Handler -> Call]
        /\ \A g \in Handler : /\ call'[g].pc = call[g].pc
                               /\ call'[g].addr = call[g].addr
                               /\ call'[g].caller = call[g].caller
    BY <1>5, <2>1, SeverFacts
  <2>3. QED
    BY <1>5, <2>2 DEF ControlInv, CallTypeOK, CallsInv, OneCall
<1>6. QED
  BY <1>1, <1>2, <1>3, <1>4, <1>5
  DEF Next, vars, routerVars, Cleanup, EndpointAdded, EndpointsListed, Signal,
      Shutdown, TimePasses

-----------------------------------------------------------------------------

\* Whatever clients, handlers, the watcher, the cleanup and the shutdown do, the
\* pool sees nothing but a sequence of calls of its methods with addresses an
\* agent can have (server.go uses the pool through its methods only).  All that
\* PoolProofs shows of the pool alone therefore holds under the router.
THEOREM RouterImplementsPool == Spec => PoolSpec
<1>1. Init => PoolInit
  BY DEF Init
<1>2. ControlInv /\ [Next]_vars => [PoolNext]_poolVars
  BY NextPool
<1>3. QED
  BY <1>1, <1>2, PoolInitInv, PoolNextInv, InitControl, NextControl, PTL
  DEF Spec, PoolSpec

\* The router's variables keep their types (server.go).
THEOREM RouterTypeCorrect == Spec => []TypeOK
<1> DEFINE I == PoolInv /\ ControlInv /\ serving \in BOOLEAN
<1>1. Init => I
  BY PoolInitInv, InitControl DEF Init
<1>2. I /\ [Next]_vars => I'
  <2> SUFFICES ASSUME I, [Next]_vars
               PROVE  I'
    OBVIOUS
  <2>1. PoolInv'
    BY NextPool, PoolNextInv
  <2>2. ControlInv'
    BY NextControl
  <2>3. serving' \in BOOLEAN
    BY DEF Next, vars, routerVars, ClientStep, SendReset, SendStep, SendClose, Send,
           Crash, GiveUp, HandlerStep, ResetLock, ResetReject, ResetTouch,
           ResetError, ResetReply, StepReject, StepFind, StepTouch, StepError,
           StepReply, CloseSession, CloseReject, Cleanup, EndpointAdded,
           EndpointsListed, Signal, Shutdown, TimePasses
  <2>4. QED
    BY <2>1, <2>2, <2>3
<1>3. I => TypeOK
  BY DEF PoolInv, ControlInv, CallTypeOK, TypeOK
<1>4. QED
  BY <1>1, <1>2, <1>3, PTL DEF Spec

-----------------------------------------------------------------------------
(* What the pool's methods do to a held agent.                             *)

\* A release takes nothing from an agent it is not about.
LEMMA ReleaseKeepsHeld ==
  ASSUME NEW S, NEW a \in Addr, Held(a), a \notin S, Release(S)
  PROVE  Held(a)'
  BY DEF Held, Release, Drop

\* The watcher takes nothing from a busy agent.
LEMMA RetireKeepsHeld ==
  ASSUME NEW S, NEW a \in Addr, Held(a), Retire(S)
  PROVE  Held(a)'
  BY DEF Held, Retire, Drop

LEMMA AddAgentKeepsHeld ==
  ASSUME PoolInv, NEW b \in Addr, AddAgent(b), NEW a \in Addr, Held(a)
  PROVE  Held(a)'
<1>1. CASE AgentReturns(b) \/ DialFails(b)
  BY <1>1 DEF Held, AgentReturns, DialFails, poolVars
<1>2. CASE AgentDialled(b)
  <2>1. a # b
    BY <1>2 DEF AgentDialled, Held, PoolInv, PoolTypeOK
  <2>2. QED
    BY <1>2, <2>1 DEF AgentDialled, Held, PoolInv, PoolTypeOK
<1>3. QED
  BY <1>1, <1>2 DEF AddAgent

LEMMA TouchKeepsHeld ==
  ASSUME PoolInv, NEW b \in Addr, TouchAgent(b), NEW a \in Addr, Held(a)
  PROVE  Held(a)'
<1>1. age'[a] = 0 \/ age'[a] = age[a]
  BY DEF TouchAgent, PoolInv, PoolTypeOK
<1>2. QED
  BY <1>1, PoolAssumption DEF TouchAgent, Held

-----------------------------------------------------------------------------
(* Exclusive is preserved.                                                 *)

\* A step that makes no new claim, and under which the agents that are still
\* claimed are still held.
LEMMA ClaimsShrink ==
  ASSUME Exclusive,
         \A c \in Client, a \in Addr : session'[c] = a => session[c] = a,
         \A h \in Handler, a \in Addr :
           HandlerClaims(h, a)' => HandlerClaims(h, a),
         \A a \in Addr :
           /\ Held(a)
           /\ \/ \E c \in Client : session'[c] = a
              \/ \E h \in Handler : HandlerClaims(h, a)'
           => Held(a)'
  PROVE  Exclusive'
<1> SUFFICES ASSUME NEW a \in Addr
             PROVE  /\ \A c \in Client : session'[c] = a => Held(a)'
                    /\ \A h \in Handler : HandlerClaims(h, a)' => Held(a)'
                    /\ \A c, d \in Client :
                         session'[c] = a /\ session'[d] = a => c = d
                    /\ \A g, h \in Handler :
                         HandlerClaims(g, a)' /\ HandlerClaims(h, a)' => g = h
                    /\ \A c \in Client, h \in Handler :
                         ~(session'[c] = a /\ HandlerClaims(h, a)')
  BY DEF Exclusive
<1>1. \A c \in Client : session'[c] = a => session[c] = a
  OBVIOUS
<1>2. \A h \in Handler : HandlerClaims(h, a)' => HandlerClaims(h, a)
  OBVIOUS
<1>3. /\ \A c \in Client : session[c] = a => Held(a)
      /\ \A h \in Handler : HandlerClaims(h, a) => Held(a)
      /\ \A c, d \in Client : session[c] = a /\ session[d] = a => c = d
      /\ \A g, h \in Handler : HandlerClaims(g, a) /\ HandlerClaims(h, a) => g = h
      /\ \A c \in Client, h \in Handler : ~(session[c] = a /\ HandlerClaims(h, a))
  BY DEF Exclusive
<1>4. QED
  BY <1>1, <1>2, <1>3

\* A handler that returns has no claim; the others keep theirs.
LEMMA ReturnClaims ==
  ASSUME ControlInv, NEW h \in Handler, call' = Sever([call EXCEPT ![h] = Idle])
  PROVE  /\ \A a \in Addr : ~HandlerClaims(h, a)'
         /\ \A g \in Handler \ {h}, a \in Addr :
              HandlerClaims(g, a)' <=> HandlerClaims(g, a)
<1>1. call'[h].pc = "idle"
  BY ReturnFacts DEF ControlInv
<1>2. \A g \in Handler \ {h} :
        call'[g].pc = call[g].pc /\ call'[g].addr = call[g].addr
  BY ReturnFacts DEF ControlInv
<1>3. QED
  BY <1>1, <1>2 DEF HandlerClaims

\* A handler returns without touching the pool or the sessions.
LEMMA PlainReturnExclusive ==
  ASSUME RouterInv, NEW h \in Handler, ReturnKeeping(h), UNCHANGED poolVars
  PROVE  Exclusive'
<1>1. \A g \in Handler, a \in Addr : HandlerClaims(g, a)' => HandlerClaims(g, a)
  BY ReturnClaims DEF ReturnKeeping, RouterInv
<1>2. \A a \in Addr : Held(a) => Held(a)'
  BY DEF Held, poolVars
<1>3. \A c \in Client, a \in Addr : session'[c] = a => session[c] = a
  BY DEF ReturnKeeping
<1>4. QED
  BY <1>1, <1>2, <1>3, ClaimsShrink DEF RouterInv

\* A handler releases the agent it has the claim to, and returns.
LEMMA ReleaseExclusive ==
  ASSUME RouterInv, NEW h \in Handler, NEW b \in Addr, HandlerClaims(h, b),
         FreeAgent(b), ReturnKeeping(h)
  PROVE  Exclusive'
<1>1. \A a \in Addr : ~HandlerClaims(h, a)'
  BY ReturnClaims DEF ReturnKeeping, RouterInv
<1>2. \A g \in Handler \ {h}, a \in Addr : HandlerClaims(g, a)' <=> HandlerClaims(g, a)
  BY ReturnClaims DEF ReturnKeeping, RouterInv
<1>3. UNCHANGED session
  BY DEF ReturnKeeping
<1>4. /\ \A c \in Client : session[c] # b
      /\ \A g \in Handler \ {h} : ~HandlerClaims(g, b)
  BY DEF RouterInv, Exclusive
<1>5. ASSUME NEW a \in Addr, Held(a),
             \/ \E c \in Client : session'[c] = a
             \/ \E g \in Handler : HandlerClaims(g, a)'
      PROVE  Held(a)'
  <2>1. a # b
    BY <1>1, <1>2, <1>3, <1>4, <1>5
  <2>2. QED
    BY <1>5, <2>1, ReleaseKeepsHeld DEF FreeAgent
<1>6. \A g \in Handler, a \in Addr : HandlerClaims(g, a)' => HandlerClaims(g, a)
  BY <1>1, <1>2
<1>7. \A c \in Client, a \in Addr : session'[c] = a => session[c] = a
  BY <1>3
<1>8. QED
  BY <1>5, <1>6, <1>7, ClaimsShrink DEF RouterInv

\* LockFreeAgent gives a handler an agent that nobody has a claim to: a claimed
\* agent is busy.
LEMMA ResetLockExclusive ==
  ASSUME RouterInv, NEW h \in Handler, NEW b \in Addr, ResetLock(h, b)
  PROVE  Exclusive'
<1>1. /\ call'[h].pc = "locked" /\ call'[h].addr = b
      /\ \A g \in Handler \ {h} : call'[g] = call[g]
  BY DEF ResetLock, RouterInv, ControlInv, CallTypeOK
<1>2. /\ \A a \in Addr \ {b} : ~HandlerClaims(h, a)'
      /\ \A g \in Handler \ {h}, a \in Addr :
           HandlerClaims(g, a)' <=> HandlerClaims(g, a)
  BY <1>1 DEF HandlerClaims
<1>3. UNCHANGED session
  BY DEF ResetLock
<1>4. b \notin busy
  BY DEF ResetLock, LockFreeAgent, Free
<1>5. /\ \A c \in Client : session[c] # b
      /\ \A g \in Handler : ~HandlerClaims(g, b)
  BY <1>4 DEF RouterInv, Exclusive, Held
<1>6. Held(b)'
  BY PoolAssumption
  DEF ResetLock, LockFreeAgent, Held, RouterInv, PoolInv, PoolTypeOK
<1>7. \A a \in Addr : Held(a) => Held(a)'
  BY PoolAssumption
  DEF ResetLock, LockFreeAgent, Held, RouterInv, PoolInv, PoolTypeOK
<1>8. QED
  BY <1>2, <1>3, <1>5, <1>6, <1>7 DEF RouterInv, Exclusive

\* The claim of a handler that reports a session passes to its client, if there
\* still is one.
LEMMA ResetReplyExclusive ==
  ASSUME RouterInv, NEW h \in Handler, ResetReply(h, TRUE)
  PROVE  Exclusive'
<1> DEFINE b == call[h].addr
           k == call[h].caller
<1>1. b \in Addr
  BY DEF ResetReply, RouterInv, ControlInv, CallsInv, Captured
<1>2. HandlerClaims(h, b)
  BY DEF ResetReply, HandlerClaims
<1>3. call' = Sever([call EXCEPT ![h] = Idle])
  BY DEF ResetReply, Return
<1>4. \A c \in Client : session'[c] = IF c = k THEN b ELSE session[c]
  BY DEF ResetReply, Return
<1>5. \A a \in Addr : ~HandlerClaims(h, a)'
  BY <1>3, ReturnClaims DEF RouterInv
<1>6. \A g \in Handler \ {h}, a \in Addr : HandlerClaims(g, a)' <=> HandlerClaims(g, a)
  BY <1>3, ReturnClaims DEF RouterInv
<1>7. /\ \A c \in Client : session[c] # b
      /\ \A g \in Handler \ {h} : ~HandlerClaims(g, b)
      /\ Held(b)
  BY <1>1, <1>2 DEF RouterInv, Exclusive
<1>8. \A a \in Addr : Held(a) => Held(a)'
  BY DEF ResetReply, Held, poolVars
<1> HIDE DEF b, k
<1>9. QED
  BY <1>1, <1>4, <1>5, <1>6, <1>7, <1>8 DEF RouterInv, Exclusive

\* The claim of a client that closes its session passes to the handler.
LEMMA SendCloseExclusive ==
  ASSUME RouterInv, NEW k \in Client, NEW h \in Handler, SendClose(k, h)
  PROVE  Exclusive'
<1> DEFINE b == session[k]
<1>1. /\ call'[h].pc = "close" /\ call'[h].addr = b
      /\ \A g \in Handler \ {h} : call'[g] = call[g]
  BY DEF SendClose, Send, RouterInv, ControlInv, CallTypeOK
<1>2. /\ \A a \in Addr : HandlerClaims(h, a)' <=> a = b
      /\ \A g \in Handler \ {h}, a \in Addr :
           HandlerClaims(g, a)' <=> HandlerClaims(g, a)
  BY <1>1 DEF HandlerClaims
<1>3. \A c \in Client : session'[c] = IF c = k THEN NoSession ELSE session[c]
  BY DEF SendClose, RouterInv, ControlInv, CallTypeOK
<1>4. NoSession \notin Addr
  BY RouterAssumption
<1>5. \A a \in Addr : Held(a) => Held(a)'
  BY DEF SendClose, Send, Held, poolVars
<1>6. b = session[k]
  OBVIOUS
<1> HIDE DEF b
<1>7. ASSUME NEW a \in Addr, a = b
      PROVE  /\ Held(a)'
             /\ \A c \in Client : session'[c] # a
             /\ \A g \in Handler \ {h} : ~HandlerClaims(g, a)'
  BY <1>2, <1>3, <1>4, <1>5, <1>6, <1>7 DEF RouterInv, Exclusive
<1>8. ASSUME NEW a \in Addr, a # b
      PROVE  /\ ~HandlerClaims(h, a)'
             /\ \A c \in Client : session'[c] = a => session[c] = a
  BY <1>2, <1>3, <1>4, <1>8
<1>9. QED
  BY <1>2, <1>5, <1>7, <1>8 DEF RouterInv, Exclusive

LEMMA HandlerStepExclusive ==
  ASSUME DoneReplies \subseteq {FALSE}, RouterInv, NEW h \in Handler, HandlerStep(h)
  PROVE  Exclusive'
<1>1. call[h].pc \in Captured => call[h].addr \in Addr
  BY DEF RouterInv, ControlInv, CallsInv
<1>2. call \in [Handler -> Call]
  BY DEF RouterInv, ControlInv, CallTypeOK
<1>3. ASSUME NEW a \in Addr, ResetLock(h, a)
      PROVE  Exclusive'
  BY <1>3, ResetLockExclusive
<1>4. CASE ResetTouch(h) \/ StepTouch(h)
  <2>1. call[h].addr \in Addr /\ TouchAgent(call[h].addr)
    BY <1>1, <1>4 DEF ResetTouch, StepTouch, Captured
  <2>2. \A a \in Addr : Held(a) => Held(a)'
    BY <2>1, TouchKeepsHeld DEF RouterInv
  <2>3. \A g \in Handler, a \in Addr : HandlerClaims(g, a)' => HandlerClaims(g, a)
    BY <1>2, <1>4 DEF ResetTouch, StepTouch, Goto, HandlerClaims, Call
  <2>4. UNCHANGED session
    BY <1>4 DEF ResetTouch, StepTouch
  <2>5. QED
    BY <2>2, <2>3, <2>4, ClaimsShrink DEF RouterInv
<1>5. CASE StepFind(h)
  <2>1. \A a \in Addr : Held(a) => Held(a)'
    BY <1>5 DEF StepFind, Held, poolVars
  <2>2. \A g \in Handler, a \in Addr : HandlerClaims(g, a)' => HandlerClaims(g, a)
    BY <1>2, <1>5 DEF StepFind, HandlerClaims
  <2>3. UNCHANGED session
    BY <1>5 DEF StepFind
  <2>4. QED
    BY <2>1, <2>2, <2>3, ClaimsShrink DEF RouterInv
<1>6. CASE ResetError(h)
  BY <1>1, <1>6, ReleaseExclusive DEF ResetError, HandlerClaims, Captured
<1>7. CASE CloseSession(h)
  <2>1. call[h].addr \in Addr
    BY <1>2, <1>7 DEF CloseSession, Call
  <2>2. QED
    BY <1>7, <2>1, ReleaseExclusive DEF CloseSession, HandlerClaims
<1>8. CASE \/ ResetReject(h) \/ StepReject(h) \/ StepError(h) \/ CloseReject(h)
           \/ ResetReply(h, FALSE) \/ StepReply(h, FALSE)
  BY <1>8, PlainReturnExclusive
  DEF ResetReject, StepReject, StepError, CloseReject, ResetReply, StepReply
<1>9. CASE ResetReply(h, TRUE)
  BY <1>9, ResetReplyExclusive
<1>10. QED
  BY <1>3, <1>4, <1>5, <1>6, <1>7, <1>8, <1>9 DEF HandlerStep

\* A step that leaves sessions alone and calls alone but for their connections
\* and their clients makes no claim and ends none.
LEMMA SameClaimsExclusive ==
  ASSUME RouterInv,
         UNCHANGED session,
         \A g \in Handler : call'[g].pc = call[g].pc /\ call'[g].addr = call[g].addr,
         \A a \in Addr : /\ Held(a)
                         /\ \/ \E c \in Client : session[c] = a
                            \/ \E g \in Handler : HandlerClaims(g, a)
                         => Held(a)'
  PROVE  Exclusive'
<1>1. \A g \in Handler, a \in Addr : HandlerClaims(g, a)' <=> HandlerClaims(g, a)
  BY DEF HandlerClaims
<1>2. QED
  BY <1>1, ClaimsShrink DEF RouterInv

LEMMA ClientStepExclusive ==
  ASSUME RouterInv, NEW k \in Client, ClientStep(k)
  PROVE  Exclusive'
<1>1. \A a \in Addr : Held(a) => Held(a)'
  BY DEF ClientStep, SendReset, SendStep, SendClose, Send, Crash, Held, poolVars
<1>2. call \in [Handler -> Call] /\ session \in [Client -> Addr \union {NoSession}]
  BY DEF RouterInv, ControlInv, CallTypeOK
<1>3. ASSUME NEW h \in Handler, SendReset(k, h) \/ SendStep(k, h)
      PROVE  Exclusive'
  <2>1. \A g \in Handler, a \in Addr : HandlerClaims(g, a)' => HandlerClaims(g, a)
    BY <1>2, <1>3 DEF SendReset, SendStep, Send, HandlerClaims
  <2>2. UNCHANGED session
    BY <1>3 DEF SendReset, SendStep
  <2>3. QED
    BY <1>1, <2>1, <2>2, ClaimsShrink DEF RouterInv
<1>4. ASSUME NEW h \in Handler, SendClose(k, h)
      PROVE  Exclusive'
  BY <1>4, SendCloseExclusive
<1>5. CASE Crash(k)
  <2>1. \A g \in Handler : call'[g].pc = call[g].pc /\ call'[g].addr = call[g].addr
    BY <1>2, <1>5 DEF Crash, Call
  <2>2. \A g \in Handler, a \in Addr : HandlerClaims(g, a)' => HandlerClaims(g, a)
    BY <2>1 DEF HandlerClaims
  <2>3. \A c \in Client, a \in Addr : session'[c] = a => session[c] = a
    BY <1>2, <1>5, RouterAssumption DEF Crash
  <2>4. QED
    BY <1>1, <2>2, <2>3, ClaimsShrink DEF RouterInv
<1>6. QED
  BY <1>3, <1>4, <1>5 DEF ClientStep

LEMMA NextExclusive ==
  ASSUME Prompt, DoneReplies \subseteq {FALSE}, RouterInv, [Next]_vars
  PROVE  Exclusive'
<1>1. CallTypeOK
  BY DEF RouterInv, ControlInv
<1>2. CASE UNCHANGED <<poolVars, call, session>>
  <2>1. \A a \in Addr : Held(a) => Held(a)'
    BY <1>2 DEF Held, poolVars
  <2>2. QED
    BY <1>2, <2>1, SameClaimsExclusive
<1>3. ASSUME NEW c \in Client, ClientStep(c)
      PROVE  Exclusive'
  BY <1>3, ClientStepExclusive
<1>4. ASSUME NEW h \in Handler, GiveUp(h)
      PROVE  Exclusive'
  <2>1. \A g \in Handler : call'[g].pc = call[g].pc /\ call'[g].addr = call[g].addr
    BY <1>1, <1>4 DEF GiveUp, CallTypeOK, Call
  <2>2. \A a \in Addr : Held(a) => Held(a)'
    BY <1>4 DEF GiveUp, Held, poolVars
  <2>3. QED
    BY <1>4, <2>1, <2>2, SameClaimsExclusive DEF GiveUp
<1>5. ASSUME NEW h \in Handler, HandlerStep(h)
      PROVE  Exclusive'
  BY <1>5, HandlerStepExclusive
<1>6. CASE Cleanup
  <2>1. \A g \in Handler : call'[g].pc = call[g].pc /\ call'[g].addr = call[g].addr
    BY <1>1, <1>6, SeverFacts DEF Cleanup
  <2>2. ASSUME NEW a \in Addr, Held(a)
        PROVE  Held(a)'
    <3>1. a \notin Stale
      BY <2>2, PoolAssumption DEF Held, Stale, RouterInv, PoolInv, PoolTypeOK
    <3>2. QED
      BY <1>6, <2>2, <3>1, ReleaseKeepsHeld DEF Cleanup, CleanupStaleAgents
  <2>3. QED
    BY <1>6, <2>1, <2>2, SameClaimsExclusive DEF Cleanup
<1>7. ASSUME NEW a \in Addr, EndpointAdded(a)
      PROVE  Exclusive'
  <2>1. \A b \in Addr : Held(b) => Held(b)'
    BY <1>7, AddAgentKeepsHeld DEF EndpointAdded, RouterInv
  <2>2. QED
    BY <1>7, <2>1, SameClaimsExclusive DEF EndpointAdded, routerVars
<1>8. ASSUME NEW liveAddrs \in SUBSET Addr, EndpointsListed(liveAddrs)
      PROVE  Exclusive'
  <2>1. \A g \in Handler : call'[g].pc = call[g].pc /\ call'[g].addr = call[g].addr
    BY <1>1, <1>8, SeverFacts DEF EndpointsListed
  <2>2. \A a \in Addr : Held(a) => Held(a)'
    BY <1>8, RetireKeepsHeld DEF EndpointsListed, RemoveAgentsNotIn
  <2>3. QED
    BY <1>8, <2>1, <2>2, SameClaimsExclusive DEF EndpointsListed
<1>9. CASE Shutdown
  <2>1. \A a \in Addr : Held(a) => Held(a)'
    BY <1>9 DEF Shutdown, Close, Held
  <2>2. QED
    BY <1>9, <2>1, SameClaimsExclusive DEF Shutdown, routerVars
<1>10. CASE TimePasses
  <2>1. ASSUME NEW a \in Addr, Held(a),
               \/ \E c \in Client : session[c] = a
               \/ \E g \in Handler : HandlerClaims(g, a)
        PROVE  Held(a)'
    <3>1. a \in busy \intersect InUse
      BY <2>1 DEF InUse, HandlerClaims, Held
    <3>2. age[a] < SessionTimeout
      BY <1>10, <3>1 DEF TimePasses
    <3>3. age[a] \in Nat
      BY PoolAssumption DEF RouterInv, PoolInv, PoolTypeOK
    <3>4. QED
      BY <1>10, <2>1, <3>2, <3>3, PoolAssumption DEF TimePasses, Tick, Held
  <2>2. QED
    BY <1>10, <2>1, SameClaimsExclusive DEF TimePasses, routerVars
<1>11. QED
  BY <1>2, <1>3, <1>4, <1>5, <1>6, <1>7, <1>8, <1>9, <1>10
  DEF Next, vars, routerVars, Signal

-----------------------------------------------------------------------------
(* EpisodeKeepsConnection is preserved.                                    *)

LEMMA ConnectionByHandler ==
  EpisodeKeepsConnection <=> \A h \in Handler : ForEpisode(h) => call[h].open
  BY DEF EpisodeKeepsConnection, ForEpisode

LEMMA ConnectionByHandlerNext ==
  EpisodeKeepsConnection' <=> \A h \in Handler : ForEpisode(h)' => call'[h].open
  BY DEF EpisodeKeepsConnection, ForEpisode

\* The agent of an episode still has its entry after the step.
LEMMA EpisodeHasEntry ==
  ASSUME PoolInv', ControlInv', Exclusive', NEW g \in Handler, ForEpisode(g)'
  PROVE  call'[g].addr \in agents'
<1>1. call'[g].addr \in Addr
  BY DEF ForEpisode, ControlInv, CallsInv, Captured
<1>2. CASE call'[g].pc \in {"locked", "resetting"}
  BY <1>1, <1>2 DEF Exclusive, HandlerClaims, Held, PoolInv, PoolTypeOK
<1>3. CASE /\ call'[g].caller # NoClient
           /\ session'[call'[g].caller] = call'[g].addr
  <2>1. call'[g].caller \in Client
    BY <1>3 DEF ControlInv, CallTypeOK, Call
  <2>2. QED
    BY <1>1, <1>3, <2>1 DEF Exclusive, Held, PoolInv, PoolTypeOK
<1>4. QED
  BY <1>2, <1>3 DEF ForEpisode

\* A handler that the step concerns at most by severing its connection.
LEMMA BystanderConnection ==
  ASSUME RouterInv, PoolInv', ControlInv', Exclusive', NEW g \in Handler,
         call'[g].pc = call[g].pc,
         call'[g].addr = call[g].addr,
         call'[g].caller \in {call[g].caller, NoClient},
         call[g].addr \notin agents \ agents' => call'[g].open = call[g].open,
         call[g].caller \in Client =>
           session'[call[g].caller] \in {session[call[g].caller], NoSession},
         ForEpisode(g)'
  PROVE  call'[g].open
<1>1. call'[g].addr \in agents'
  BY EpisodeHasEntry
<1>2. call[g].addr # NoSession
  BY <1>1, RouterAssumption DEF PoolInv, PoolTypeOK
<1>3. ForEpisode(g)
  <2>1. CASE call'[g].pc \in {"locked", "resetting"}
    BY <2>1 DEF ForEpisode
  <2>2. CASE /\ call'[g].pc \in {"found", "stepping"}
             /\ call'[g].caller # NoClient
             /\ session'[call'[g].caller] = call'[g].addr
    <3>1. call'[g].caller = call[g].caller /\ call[g].caller \in Client
      BY <2>2 DEF RouterInv, ControlInv, CallTypeOK, Call
    <3>2. QED
      BY <1>2, <2>2, <3>1 DEF ForEpisode
  <2>3. QED
    BY <2>1, <2>2 DEF ForEpisode
<1>4. call[g].open
  BY <1>3, ConnectionByHandler DEF RouterInv
<1>5. QED
  BY <1>1, <1>4

\* A handler returns; the only session that may change for the better is that of
\* its own client, and no other handler works for that client.
LEMMA ReturnConnection ==
  ASSUME RouterInv, PoolInv', ControlInv', Exclusive', NEW h \in Handler,
         call' = Sever([call EXCEPT ![h] = Idle]),
         \A c \in Client : c # call[h].caller => session'[c] = session[c]
  PROVE  EpisodeKeepsConnection'
<1> SUFFICES ASSUME NEW g \in Handler, ForEpisode(g)'
             PROVE  call'[g].open
  BY ConnectionByHandlerNext
<1>1. call'[h].pc = "idle"
  BY ReturnFacts DEF RouterInv, ControlInv
<1>2. g # h
  BY <1>1 DEF ForEpisode
<1>3. /\ call'[g].pc = call[g].pc
      /\ call'[g].addr = call[g].addr
      /\ call'[g].caller = call[g].caller
      /\ call[g].addr \notin agents \ agents' => call'[g].open = call[g].open
  BY <1>2, ReturnFacts DEF RouterInv, ControlInv
<1>4. call[g].caller \in Client => call[g].caller # call[h].caller
  BY <1>2, RouterAssumption DEF RouterInv, ControlInv, OneCall
<1>5. QED
  BY <1>3, <1>4, BystanderConnection

\* Handler h goes on; the others are not concerned.
LEMMA GoesOnConnection ==
  ASSUME RouterInv, PoolInv', ControlInv', Exclusive', NEW h \in Handler,
         \A g \in Handler \ {h} : call'[g] = call[g],
         \A c \in Client : session'[c] \in {session[c], NoSession},
         ForEpisode(h)' => call'[h].open
  PROVE  EpisodeKeepsConnection'
<1> SUFFICES ASSUME NEW g \in Handler, ForEpisode(g)', g # h
             PROVE  call'[g].open
  BY ConnectionByHandlerNext
<1>1. QED
  BY BystanderConnection

LEMMA HandlerStepConnection ==
  ASSUME RouterInv, PoolInv', ControlInv', Exclusive', NEW h \in Handler,
         HandlerStep(h)
  PROVE  EpisodeKeepsConnection'
<1>1. call \in [Handler -> Call] /\ call[h] \in Call
  BY DEF RouterInv, ControlInv, CallTypeOK
<1>2. ASSUME NEW a \in Addr, ResetLock(h, a)
      PROVE  EpisodeKeepsConnection'
  BY <1>1, <1>2, GoesOnConnection DEF ResetLock
<1>3. CASE StepFind(h)
  BY <1>1, <1>3, GoesOnConnection DEF StepFind
<1>4. CASE ResetTouch(h) \/ StepTouch(h)
  <2>1. /\ call'[h].addr = call[h].addr
        /\ call'[h].caller = call[h].caller
        /\ call'[h].open = call[h].open
        /\ \A g \in Handler \ {h} : call'[g] = call[g]
        /\ UNCHANGED session
    BY <1>1, <1>4 DEF ResetTouch, StepTouch, Goto, Call
  <2>2. \/ call[h].pc = "locked" /\ call'[h].pc = "resetting"
        \/ call[h].pc = "found" /\ call'[h].pc = "stepping"
    BY <1>1, <1>4 DEF ResetTouch, StepTouch, Goto, Call
  <2>3. ForEpisode(h)' => ForEpisode(h)
    BY <2>1, <2>2 DEF ForEpisode
  <2>4. ForEpisode(h)' => call'[h].open
    BY <2>1, <2>3, ConnectionByHandler DEF RouterInv
  <2>5. QED
    BY <2>1, <2>4, GoesOnConnection
<1>5. CASE \/ ResetReject(h) \/ ResetError(h) \/ StepReject(h) \/ StepError(h)
           \/ CloseSession(h) \/ CloseReject(h)
  BY <1>5, ReturnConnection
  DEF ResetReject, ResetError, StepReject, StepError, CloseSession, CloseReject,
      ReturnKeeping
<1>6. ASSUME NEW success \in BOOLEAN, ResetReply(h, success)
      PROVE  EpisodeKeepsConnection'
  BY <1>6, ReturnConnection DEF ResetReply, Return, ReturnKeeping
<1>7. ASSUME NEW done \in DoneReplies, StepReply(h, done)
      PROVE  EpisodeKeepsConnection'
  BY <1>7, ReturnConnection DEF StepReply, Return, ReturnKeeping
<1>8. QED
  BY <1>2, <1>3, <1>4, <1>5, <1>6, <1>7 DEF HandlerStep

LEMMA NextConnection ==
  ASSUME RouterInv, PoolInv', ControlInv', Exclusive', [Next]_vars
  PROVE  EpisodeKeepsConnection'
<1>1. call \in [Handler -> Call] /\ session \in [Client -> Addr \union {NoSession}]
  BY DEF RouterInv, ControlInv, CallTypeOK
<1>2. CASE UNCHANGED <<call, session>>
  BY <1>2, ConnectionByHandler, ConnectionByHandlerNext DEF RouterInv, ForEpisode
<1>3. ASSUME NEW c \in Client, NEW h \in Handler,
             SendReset(c, h) \/ SendStep(c, h) \/ SendClose(c, h)
      PROVE  EpisodeKeepsConnection'
  <2>1. /\ call'[h].pc \in {"reset", "step", "close"}
        /\ \A g \in Handler \ {h} : call'[g] = call[g]
    BY <1>1, <1>3 DEF SendReset, SendStep, SendClose, Send
  <2>2. \A d \in Client : session'[d] \in {session[d], NoSession}
    BY <1>1, <1>3 DEF SendReset, SendStep, SendClose
  <2>3. ~ForEpisode(h)'
    BY <2>1 DEF ForEpisode
  <2>4. QED
    BY <2>1, <2>2, <2>3, GoesOnConnection
<1>4. ASSUME \A g \in Handler :
               /\ call'[g].pc = call[g].pc
               /\ call'[g].addr = call[g].addr
               /\ call'[g].caller \in {call[g].caller, NoClient}
               /\ call[g].addr \notin agents \ agents' =>
                    call'[g].open = call[g].open,
             \A c \in Client : session'[c] \in {session[c], NoSession}
      PROVE  EpisodeKeepsConnection'
  BY <1>4, BystanderConnection, ConnectionByHandlerNext
<1>5. ASSUME NEW c \in Client, Crash(c)
      PROVE  EpisodeKeepsConnection'
  BY <1>1, <1>4, <1>5 DEF Crash, Call
<1>6. ASSUME NEW h \in Handler, GiveUp(h)
      PROVE  EpisodeKeepsConnection'
  BY <1>1, <1>4, <1>6 DEF GiveUp, Call
<1>7. CASE call' = Sever(call) /\ UNCHANGED session
  BY <1>4, <1>7, SeverFacts DEF RouterInv, ControlInv
<1>8. ASSUME NEW h \in Handler, HandlerStep(h)
      PROVE  EpisodeKeepsConnection'
  BY <1>8, HandlerStepConnection
<1>9. QED
  BY <1>2, <1>3, <1>5, <1>6, <1>7, <1>8
  DEF Next, ClientStep, vars, routerVars, Cleanup, EndpointAdded, EndpointsListed,
      Signal, Shutdown, TimePasses

-----------------------------------------------------------------------------

LEMMA InitRouterInv == Init => RouterInv
<1> SUFFICES ASSUME Init
             PROVE  RouterInv
  OBVIOUS
<1>1. PoolInv /\ ControlInv
  BY PoolInitInv, InitControl DEF Init
<1>2. \A h \in Handler : call[h].pc = "idle"
  BY DEF Init, Idle
<1>3. \A c \in Client : session[c] \notin Addr
  BY RouterAssumption DEF Init
<1>4. Exclusive
  BY <1>2, <1>3 DEF Exclusive, HandlerClaims
<1>5. EpisodeKeepsConnection
  BY <1>2 DEF EpisodeKeepsConnection
<1>6. QED
  BY <1>1, <1>4, <1>5 DEF RouterInv

LEMMA NextRouterInv ==
  ASSUME Prompt, DoneReplies \subseteq {FALSE}
  PROVE  RouterInv /\ [Next]_vars => RouterInv'
<1> SUFFICES ASSUME RouterInv, [Next]_vars
             PROVE  RouterInv'
  OBVIOUS
<1>1. PoolInv /\ ControlInv
  BY DEF RouterInv
<1>2. PoolInv'
  BY <1>1, NextPool, PoolNextInv
<1>3. ControlInv'
  BY <1>1, NextControl
<1>4. Exclusive'
  BY NextExclusive
<1>5. EpisodeKeepsConnection'
  BY <1>2, <1>3, <1>4, NextConnection
<1>6. QED
  BY <1>2, <1>3, <1>4, <1>5 DEF RouterInv

\* If sessions in use never reach the timeout, clients keep to the protocol and
\* agents never report Done, an agent serves one episode at a time ("the
\* dedicated node", server.go:55), for any number of agents, clients and
\* concurrent calls, and whatever the watcher, the cleanup and the failures of
\* calls and clients do.
THEOREM RouterDedicatedAgent ==
  ASSUME Prompt, DoneReplies \subseteq {FALSE}
  PROVE  Spec => []DedicatedAgent
<1>1. RouterInv => DedicatedAgent
  BY DEF RouterInv, Exclusive, DedicatedAgent, Claims, HandlerClaims, Held
<1>2. RouterInv /\ [Next]_vars => RouterInv'
  BY NextRouterInv
<1>3. QED
  BY <1>1, <1>2, InitRouterInv, PTL DEF Spec

\* Under the same assumptions, no connection is closed under an episode that is
\* set up or stepped (the deferred removal of pool.go:66 and 185).
THEOREM RouterEpisodeKeepsConnection ==
  ASSUME Prompt, DoneReplies \subseteq {FALSE}
  PROVE  Spec => []EpisodeKeepsConnection
<1>1. RouterInv => EpisodeKeepsConnection
  BY DEF RouterInv
<1>2. RouterInv /\ [Next]_vars => RouterInv'
  BY NextRouterInv
<1>3. QED
  BY <1>1, <1>2, InitRouterInv, PTL DEF Spec
=============================================================================
