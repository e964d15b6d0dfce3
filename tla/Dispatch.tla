------------------------------ MODULE Dispatch ------------------------------
(***************************************************************************)
(* The router together with the agents it forwards to, as far as the       *)
(* command of an episode goes: a client asks the router for an episode with*)
(* a command, the router forwards the Reset to an agent, the agent stores  *)
(* the command (executor.go) and runs it in every Step that the router     *)
(* forwards to it afterwards.                                              *)
(*                                                                         *)
(* Two faults are added to those of Router.  An agent's container restarts *)
(* under the same address: it has no command then, and the calls it was    *)
(* working on fail.  And a Reset that the router has given up on, because  *)
(* the client went away or the connection failed, may have reached the     *)
(* agent all the same: SetCommand does not look at the context, so the     *)
(* agent stores the command of a Reset that is late.                       *)
(***************************************************************************)
EXTENDS Router

CONSTANTS
  Cmd,             \* commands of episodes
  NoCmd,           \* the empty command
  MaxLate          \* bounds the late Resets that are on their way

ASSUME DispatchAssumption ==
  /\ NoCmd \notin Cmd
  /\ MaxLate \in Nat

VARIABLES
  asked,           \* command of the Reset that a handler works on
  work,            \* what the agent has done for the Reset of a handler
  episode,         \* command each client was given its session for
  command,         \* lastCommand of the agent at an address
  late,            \* late Resets: address and command
  overwritten      \* agents whose command is that of a late Reset

agentVars == <<command, late, overwritten>>
dispatchVars == <<vars, asked, work, episode, agentVars>>

DispatchTypeOK ==
  /\ TypeOK
  /\ asked \in [Handler -> Cmd \union {NoCmd}]
  /\ work \in [Handler -> {"none", "stored", "dead"}]
  /\ episode \in [Client -> Cmd \union {NoCmd}]
  /\ command \in [Addr -> Cmd \union {NoCmd}]
  /\ late \subseteq Addr \X Cmd
  /\ overwritten \subseteq Addr

DispatchInit ==
  /\ Init
  /\ asked = [h \in Handler |-> NoCmd]
  /\ work = [h \in Handler |-> "none"]
  /\ episode = [c \in Client |-> NoCmd]
  /\ command = [a \in Addr |-> NoCmd]
  /\ late = {}
  /\ overwritten = {}

-----------------------------------------------------------------------------

\* A handler that is past its Reset has no command any more.
Settle ==
  /\ asked' = [h \in Handler |->
                 IF call'[h].pc \in {"reset", "locked", "resetting"}
                 THEN asked[h] ELSE NoCmd]
  /\ work' = [h \in Handler |->
                IF call'[h].pc = "resetting" THEN work[h] ELSE "none"]

\* A client without a session has no episode.
Forget ==
  episode' = [c \in Client |->
                IF session'[c] = NoSession THEN NoCmd ELSE episode[c]]

SendResetFor(c, h, cmd) ==
  /\ SendReset(c, h)
  /\ asked' = [asked EXCEPT ![h] = cmd]
  /\ UNCHANGED <<work, episode, agentVars>>

\* SetCommand, in the agent's Reset, for a handler that waits for it.
AgentSetCommand(h) ==
  /\ call[h].pc = "resetting"
  /\ call[h].open
  /\ work[h] = "none"
  /\ work' = [work EXCEPT ![h] = "stored"]
  /\ command' = [command EXCEPT ![call[h].addr] = asked[h]]
  /\ overwritten' = overwritten \ {call[h].addr}
  /\ UNCHANGED <<vars, asked, episode, late>>

\* The agent reports success: it has stored the command and run it once.
ResetSucceeds(h) ==
  /\ work[h] = "stored"
  /\ ResetReply(h, TRUE)
  /\ episode' = [c \in Client |->
                   IF c = call[h].caller THEN asked[h] ELSE episode[c]]
  /\ Settle
  /\ UNCHANGED agentVars

\* The agent refuses the command, or its baseline run fails.
ResetRefused(h) ==
  /\ work[h] # "dead"
  /\ ResetReply(h, FALSE)
  /\ Settle
  /\ UNCHANGED <<episode, agentVars>>

\* The call to the agent fails, and the agent does not see the Reset.
ResetFails(h) ==
  /\ ResetError(h)
  /\ Settle
  /\ UNCHANGED <<episode, agentVars>>

\* The call to the agent fails, and the Reset is still on its way.
ResetLate(h) ==
  /\ call[h].open
  /\ work[h] = "none"
  /\ Cardinality(late) < MaxLate
  /\ ResetError(h)
  /\ late' = late \union {<<call[h].addr, asked[h]>>}
  /\ Settle
  /\ UNCHANGED <<episode, command, overwritten>>

\* SetCommand, in the agent's Reset, after the router has given up.
LateSetCommand(a, cmd) ==
  /\ <<a, cmd>> \in late
  /\ late' = late \ {<<a, cmd>>}
  /\ command' = [command EXCEPT ![a] = cmd]
  /\ overwritten' = overwritten \union {a}
  /\ UNCHANGED <<vars, asked, work, episode>>

\* The agent learns that the call is cancelled before it starts to work on it.
LateReset(a, cmd) ==
  /\ <<a, cmd>> \in late
  /\ late' = late \ {<<a, cmd>>}
  /\ UNCHANGED <<vars, asked, work, episode, command, overwritten>>

\* The agent's process ends and another one has the address: NewExecutor.
AgentRestart(a) ==
  /\ command' = [command EXCEPT ![a] = NoCmd]
  /\ overwritten' = overwritten \ {a}
  /\ late' = {x \in late : x[1] # a}
  /\ work' = [h \in Handler |->
                IF call[h].pc = "resetting" /\ call[h].addr = a
                THEN "dead" ELSE work[h]]
  /\ UNCHANGED <<vars, asked, episode>>

-----------------------------------------------------------------------------

\* What the router does without an agent, and Steps, which leave the command.
RouterStep ==
  /\ \/ \E c \in Client :
          \/ \E h \in Handler : SendStep(c, h) \/ SendClose(c, h)
          \/ Crash(c)
     \/ \E h \in Handler :
          \/ GiveUp(h)
          \/ \E a \in Addr : ResetLock(h, a)
          \/ ResetReject(h)
          \/ ResetTouch(h)
          \/ StepReject(h)
          \/ StepFind(h)
          \/ StepTouch(h)
          \/ StepError(h)
          \/ \E done \in DoneReplies : StepReply(h, done)
          \/ CloseSession(h)
          \/ CloseReject(h)
     \/ Cleanup
     \/ \E a \in Addr : EndpointAdded(a)
     \/ \E liveAddrs \in SUBSET Addr : EndpointsListed(liveAddrs)
     \/ Signal
     \/ Shutdown
     \/ TimePasses
  /\ Settle
  /\ Forget
  /\ UNCHANGED agentVars

DispatchNext ==
  /\ ~closed
  /\ \/ RouterStep
     \/ \E c \in Client, h \in Handler, cmd \in Cmd : SendResetFor(c, h, cmd)
     \/ \E h \in Handler :
          \/ AgentSetCommand(h)
          \/ ResetSucceeds(h)
          \/ ResetRefused(h)
          \/ ResetFails(h)
          \/ ResetLate(h)
     \/ \E a \in Addr, cmd \in Cmd : LateSetCommand(a, cmd) \/ LateReset(a, cmd)
     \/ \E a \in Addr : AgentRestart(a)

DispatchSpec == DispatchInit /\ [][DispatchNext]_dispatchVars

-----------------------------------------------------------------------------
(* Properties.                                                             *)

\* The agent at a stores cmd or, restarted, nothing: a Step runs cmd or fails.
RunsOnly(a, cmd) == a \notin overwritten => command[a] \in {cmd, NoCmd}

\* "SetCommand stores the command for the current episode" (executor.go:27) and
\* "Find the dedicated node that holds this episode's BPF Maps" (router
\* server.go:55), end to end: the agent of a client's session, and one whose
\* Reset is about to be answered, runs the command that this client asked for
\* or none.  Other clients, retries, restarts, removed pods and lost answers do
\* not change that; a late Reset does, until the next Reset of the agent.
EpisodeRunsItsCommand ==
  /\ \A c \in Client :
       session[c] # NoSession => RunsOnly(session[c], episode[c])
  /\ \A h \in Handler :
       work[h] = "stored" => RunsOnly(call[h].addr, asked[h])
=============================================================================
