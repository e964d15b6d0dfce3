------------------------------- MODULE Router -------------------------------
(***************************************************************************)
(* The router's gRPC server, env-router/internal/grpcserver, over the      *)
(* pool, with the cleanup goroutine and the shutdown of main.go.  The      *)
(* endpoint watcher appears as arbitrary AddAgent and RemoveAgentsNotIn    *)
(* calls; the module Watcher models it.                                    *)
(*                                                                         *)
(* A handler is one goroutine of the gRPC server.  It gives up the pool's  *)
(* mutex between any two pool calls and while the agent works, so each of  *)
(* these is a step of its own.  It keeps the *AgentClient it obtained from *)
(* the pool: call[h].open says whether that client's connection is still   *)
(* open.  Everything else it does by address, because the session id is    *)
(* the agent's address.                                                    *)
(*                                                                         *)
(* A client keeps to the protocol of agent.proto: one call at a time, and  *)
(* no use of a session that it closed or that was reported done.           *)
(***************************************************************************)
EXTENDS Pool

CONSTANTS
  Client,          \* users of the router
  Handler,         \* bounds the calls the server works on at the same time
  NoSession,       \* the empty session_id
  NoClient,        \* a call whose client has given up on it
  DoneReplies,     \* what a StepResponse of an agent may say in Done
  Prompt           \* nobody lets a session in use reach the timeout

ASSUME RouterAssumption ==
  /\ Client \intersect Handler = {}
  /\ NoSession \notin Addr
  /\ NoClient \notin Client
  /\ DoneReplies \subseteq BOOLEAN
  /\ Prompt \in BOOLEAN

VARIABLES
  call,            \* what each handler is doing
  session,         \* the session id each client holds
  serving          \* the server accepts new calls

routerVars == <<call, session, serving>>

vars == <<poolVars, routerVars>>

\* Where a handler is: the statement it executes next.
Pc == {"idle",
       "reset", "locked", "resetting",   \* Reset: lock, touch, agent's reply
       "step", "found", "stepping",      \* Step: look up, touch, agent's reply
       "close"}                          \* Close: free

\* The places where a handler holds an *AgentClient.
Captured == {"locked", "resetting", "found", "stepping"}

Call == [pc : Pc, addr : Addr \union {NoSession},
         caller : Client \union {NoClient}, open : BOOLEAN]

Idle == [pc |-> "idle", addr |-> NoSession, caller |-> NoClient, open |-> FALSE]

TypeOK ==
  /\ PoolTypeOK
  /\ call \in [Handler -> Call]
  /\ session \in [Client -> Addr \union {NoSession}]
  /\ serving \in BOOLEAN

Init ==
  /\ PoolInit
  /\ call = [h \in Handler |-> Idle]
  /\ session = [c \in Client |-> NoSession]
  /\ serving = TRUE

-----------------------------------------------------------------------------
(* Clients.                                                                *)

Waiting(c) == \E h \in Handler : call[h].caller = c

\* Client c sends a request that handler h receives.
Send(c, h, pc, addr) ==
  /\ serving
  /\ ~Waiting(c)
  /\ call[h].pc = "idle"
  /\ call' = [call EXCEPT ![h] =
                [pc |-> pc, addr |-> addr, caller |-> c, open |-> FALSE]]
  /\ UNCHANGED <<poolVars, serving>>

SendReset(c, h) ==
  /\ Send(c, h, "reset", NoSession)
  /\ UNCHANGED session

SendStep(c, h) ==
  /\ Send(c, h, "step", session[c])
  /\ UNCHANGED session

\* The session is over for the client whether or not the answer arrives.
SendClose(c, h) ==
  /\ Send(c, h, "close", session[c])
  /\ session' = [session EXCEPT ![c] = NoSession]

\* The client's connection or deadline fails: the client sees an error and
\* may call again while the handler is still at work.
GiveUp(h) ==
  /\ call[h].caller # NoClient
  /\ call' = [call EXCEPT ![h].caller = NoClient]
  /\ UNCHANGED <<poolVars, session, serving>>

\* A client dies; another one starts in its place and knows no session.
Crash(c) ==
  /\ call' = [h \in Handler |->
                IF call[h].caller = c
                THEN [call[h] EXCEPT !.caller = NoClient]
                ELSE call[h]]
  /\ session' = [session EXCEPT ![c] = NoSession]
  /\ UNCHANGED <<poolVars, serving>>

-----------------------------------------------------------------------------
(* What the steps of the server share.                                     *)

\* Handlers that hold an *AgentClient whose entry this step deletes are left
\* with a closed connection.  The step defines agents'.
Sever(calls) ==
  [h \in Handler |->
     IF calls[h].pc \in Captured /\ calls[h].addr \in agents \ agents'
     THEN [calls[h] EXCEPT !.open = FALSE]
     ELSE calls[h]]

\* Handler h goes on to pc.
Goto(h, pc) == call' = [call EXCEPT ![h].pc = pc]

\* Handler h returns; its client, if it still waits, is left with session s.
Return(h, s) ==
  /\ call' = Sever([call EXCEPT ![h] = Idle])
  /\ session' = [c \in Client |-> IF c = call[h].caller THEN s ELSE session[c]]

\* Handler h returns an error, or a reply that leaves the session as it is.
ReturnKeeping(h) ==
  /\ call' = Sever([call EXCEPT ![h] = Idle])
  /\ UNCHANGED session

-----------------------------------------------------------------------------
(* Reset.                                                                  *)

ResetLock(h, a) ==
  /\ call[h].pc = "reset"
  /\ LockFreeAgent(a)
  /\ call' = [call EXCEPT ![h] =
                [pc |-> "locked", addr |-> a, caller |-> @.caller, open |-> TRUE]]
  /\ UNCHANGED <<session, serving>>

\* Faulty ResetReject: the handler waits for an agent instead.
ResetWaits(h) ==
  /\ call[h].pc = "reset"
  /\ Free = {}
  /\ UNCHANGED vars

\* LockFreeAgent: no free agents available.
ResetReject(h) ==
  /\ call[h].pc = "reset"
  /\ Free = {}
  /\ UNCHANGED poolVars
  /\ ReturnKeeping(h)
  /\ UNCHANGED serving

ResetTouch(h) ==
  /\ call[h].pc = "locked"
  /\ TouchAgent(call[h].addr)
  /\ Goto(h, "resetting")
  /\ UNCHANGED <<session, serving>>

\* The call to the agent fails: the node is freed, by its address.
ResetError(h) ==
  /\ call[h].pc = "resetting"
  /\ FreeAgent(call[h].addr)
  /\ ReturnKeeping(h)
  /\ UNCHANGED serving

\* The agent answers.  The address becomes the session id, and the client keeps
\* it if the answer reports success.  The handler goes on in the same step, since
\* between the arrival of the answer and the return it calls nobody.
ResetReply(h, success) ==
  /\ call[h].pc = "resetting"
  /\ call[h].open
  /\ UNCHANGED poolVars
  /\ IF success THEN Return(h, call[h].addr) ELSE ReturnKeeping(h)
  /\ UNCHANGED serving

-----------------------------------------------------------------------------
(* Step.                                                                   *)

\* No session id, or GetAgentBySession does not find it.
StepReject(h) ==
  /\ call[h].pc = "step"
  /\ call[h].addr \notin agents
  /\ UNCHANGED poolVars
  /\ ReturnKeeping(h)
  /\ UNCHANGED serving

\* GetAgentBySession looks at the address only.
StepFind(h) ==
  /\ call[h].pc = "step"
  /\ call[h].addr \in agents
  /\ call' = [call EXCEPT ![h] =
                [pc |-> "found", addr |-> @.addr, caller |-> @.caller, open |-> TRUE]]
  /\ UNCHANGED <<poolVars, session, serving>>

StepTouch(h) ==
  /\ call[h].pc = "found"
  /\ TouchAgent(call[h].addr)
  /\ Goto(h, "stepping")
  /\ UNCHANGED <<session, serving>>

\* Faulty StepError: the node is freed, as in Reset.
StepErrorFrees(h) ==
  /\ call[h].pc = "stepping"
  /\ FreeAgent(call[h].addr)
  /\ ReturnKeeping(h)
  /\ UNCHANGED serving

\* The call to the agent fails: the agent stays locked.
StepError(h) ==
  /\ call[h].pc = "stepping"
  /\ UNCHANGED poolVars
  /\ ReturnKeeping(h)
  /\ UNCHANGED serving

\* The agent answers; Done releases whatever agent has the address now, in the
\* step in which the answer arrives.
StepReply(h, done) ==
  /\ call[h].pc = "stepping"
  /\ call[h].open
  /\ IF done
     THEN FreeAgent(call[h].addr) /\ Return(h, NoSession)
     ELSE UNCHANGED poolVars /\ ReturnKeeping(h)
  /\ UNCHANGED serving

-----------------------------------------------------------------------------
(* Close.                                                                  *)

CloseSession(h) ==
  /\ call[h].pc = "close"
  /\ call[h].addr # NoSession
  /\ FreeAgent(call[h].addr)
  /\ ReturnKeeping(h)
  /\ UNCHANGED serving

CloseReject(h) ==
  /\ call[h].pc = "close"
  /\ call[h].addr = NoSession
  /\ UNCHANGED poolVars
  /\ ReturnKeeping(h)
  /\ UNCHANGED serving

-----------------------------------------------------------------------------
(* The other goroutines.                                                   *)

Cleanup ==
  /\ CleanupStaleAgents
  /\ call' = Sever(call)
  /\ UNCHANGED <<session, serving>>

\* The watcher adds an agent (external here: see Watcher).
EndpointAdded(a) ==
  /\ AddAgent(a)
  /\ UNCHANGED routerVars

\* The watcher removes the agents that are not listed (see Watcher).
EndpointsListed(liveAddrs) ==
  /\ RemoveAgentsNotIn(liveAddrs)
  /\ call' = Sever(call)
  /\ UNCHANGED <<session, serving>>

\* SIGTERM: GracefulStop refuses new calls ...
Signal ==
  /\ serving
  /\ serving' = FALSE
  /\ UNCHANGED <<poolVars, call, session>>

\* ... and waits for the handlers; then Serve returns and main's deferred
\* calls close the pool.
Shutdown ==
  /\ ~serving
  /\ \A h \in Handler : call[h].pc = "idle"
  /\ Close
  /\ UNCHANGED routerVars

\* The agents that a session or a handler refers to.
InUse == {session[c] : c \in Client} \union {call[h].addr : h \in Handler}

\* Time passes.  With Prompt, the next use of every session comes before its
\* timeout.
TimePasses ==
  /\ Prompt => \A a \in busy \intersect InUse : age[a] < SessionTimeout
  /\ Tick
  /\ UNCHANGED routerVars

-----------------------------------------------------------------------------

HandlerStep(h) ==
  \/ \E a \in Addr : ResetLock(h, a)
  \/ ResetReject(h)
  \/ ResetTouch(h)
  \/ ResetError(h)
  \/ \E success \in BOOLEAN : ResetReply(h, success)
  \/ StepReject(h)
  \/ StepFind(h)
  \/ StepTouch(h)
  \/ StepError(h)
  \/ \E done \in DoneReplies : StepReply(h, done)
  \/ CloseSession(h)
  \/ CloseReject(h)

ClientStep(c) ==
  \/ \E h \in Handler : SendReset(c, h) \/ SendStep(c, h) \/ SendClose(c, h)
  \/ Crash(c)

Next ==
  /\ ~closed
  /\ \/ \E c \in Client : ClientStep(c)
     \/ \E h \in Handler : GiveUp(h) \/ HandlerStep(h)
     \/ Cleanup
     \/ \E a \in Addr : EndpointAdded(a)
     \/ \E liveAddrs \in SUBSET Addr : EndpointsListed(liveAddrs)
     \/ Signal
     \/ Shutdown
     \/ TimePasses

Spec == Init /\ [][Next]_vars

\* The cleanup ticker fires and the clock advances for as long as the process
\* lives, and every handler returns: pool calls do not block, and a call to an
\* agent ends with an answer (the agent gives its command 30 seconds) or an
\* error.  Nothing is assumed of clients or endpoints.
Fairness ==
  /\ WF_vars(~closed /\ Cleanup)
  /\ WF_vars(~closed /\ TimePasses)
  /\ \A h \in Handler : WF_vars(~closed /\ HandlerStep(h))
  /\ WF_vars(~closed /\ Shutdown)

FairSpec == Spec /\ Fairness

-----------------------------------------------------------------------------
(* Properties.                                                             *)

\* Who relies on having agent a to itself: the clients with the session, the
\* handlers that set it up, and the handlers that are about to release it.
Claims(a) ==
  {c \in Client : session[c] = a} \union
  {h \in Handler : call[h].addr = a
                   /\ call[h].pc \in {"locked", "resetting", "close"}}

\* "Find the dedicated node that holds this episode's BPF Maps" (server.go:55):
\* an agent has at most one claim, and a claimed agent is locked, so that
\* LockFreeAgent does not give it to anybody else.  It takes Prompt, clients
\* that keep to the protocol and agents that never say Done.
DedicatedAgent ==
  \A a \in Addr :
    /\ Claims(a) # {} => a \in busy
    /\ \A x, y \in Claims(a) : x = y

\* The deferred removal keeps its promise ("marks a busy agent for deferred
\* removal once its episode completes", pool.go:66): whatever the watcher does,
\* the connection of an episode's agent stays open while a handler sets the
\* episode up or forwards a step of the client that has the session.
EpisodeKeepsConnection ==
  \A h \in Handler :
    \/ call[h].pc \in {"locked", "resetting"}
    \/ /\ call[h].pc \in {"found", "stepping"}
       /\ call[h].caller # NoClient
       /\ session[call[h].caller] = call[h].addr
    => call[h].open

\* An agent that is locked on nobody's behalf (its Reset failed on the agent,
\* its session id was lost with the answer, its client died or started another
\* episode) is released by CleanupStaleAgents (pool.go:132).
LeaksAreReclaimed ==
  \A a \in Addr :
    (a \in busy /\ Claims(a) = {}) ~> (a \notin busy \/ closed)

\* A SIGTERM is followed by the end of the process: no handler keeps
\* GracefulStop waiting for ever (main.go:112).
ShutdownCompletes == ~serving ~> closed

\* "If setup fails, immediately free the node" (server.go:39).
FailedSetupFreesNode ==
  [][\A h \in Handler :
       ResetReply(h, FALSE) => call[h].addr \notin busy']_vars
=============================================================================
