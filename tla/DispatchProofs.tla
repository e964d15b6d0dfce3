--------------------------- MODULE DispatchProofs ---------------------------
(***************************************************************************)
(* Theorems about the router together with its agents: it still is the     *)
(* router, and an episode runs the command that its client asked for, for  *)
(* any number of addresses, clients, concurrent calls and commands.        *)
(***************************************************************************)
EXTENDS Dispatch, RouterProofs

\* Where a handler has the command of a Reset in hand.
ResetPhase == {"reset", "locked", "resetting"}

\* The variables that the agents and the commands add to the router.
CommandTypeOK ==
  /\ asked \in [Handler -> Cmd \union {NoCmd}]
  /\ work \in [Handler -> {"none", "stored", "dead"}]
  /\ episode \in [Client -> Cmd \union {NoCmd}]
  /\ command \in [Addr -> Cmd \union {NoCmd}]
  /\ late \subseteq Addr \X Cmd
  /\ overwritten \subseteq Addr

\* A Reset carries a command until its handler returns.
ResetHasCommand ==
  \A h \in Handler : call[h].pc \in ResetPhase => asked[h] \in Cmd

\* An agent works for a handler only while the handler waits for it.
WorkIsForReset ==
  \A h \in Handler : work[h] # "none" => call[h].pc = "resetting"

CommandInv == CommandTypeOK /\ ResetHasCommand /\ WorkIsForReset

\* What makes EpisodeRunsItsCommand inductive: RouterInv says that nobody else
\* has the agent whose command a Reset stores.
DispatchInv == RouterInv /\ CommandInv /\ EpisodeRunsItsCommand

-----------------------------------------------------------------------------
(* The router with its agents is the router.                               *)

LEMMA RouterStepNext ==
  ASSUME ~closed, RouterStep
  PROVE  Next
<1>1. \/ \E c \in Client :
            \/ \E h \in Handler : SendStep(c, h) \/ SendClose(c, h)
            \/ Crash(c)
      \/ \E h \in Handler :
            \/ GiveUp(h)
            \/ \E a \in Addr : ResetLock(h, a)
            \/ ResetReject(h)
            \/ ResetTouch(h)
            \/ StepReject(h)
            \/ StepFind(h)
            \/ StepTouch(h)
            \/ StepError(h)
            \/ \E done \in DoneReplies : StepReply(h, done)
            \/ CloseSession(h)
            \/ CloseReject(h)
      \/ Cleanup
      \/ \E a \in Addr : EndpointAdded(a)
      \/ \E liveAddrs \in SUBSET Addr : EndpointsListed(liveAddrs)
      \/ Signal
      \/ Shutdown
      \/ TimePasses
  BY DEF RouterStep
<1>2. QED
  BY <1>1 DEF Next, ClientStep, HandlerStep

LEMMA DispatchNextRouter ==
  ASSUME [DispatchNext]_dispatchVars
  PROVE  [Next]_vars
<1>1. CASE UNCHANGED dispatchVars
  BY <1>1 DEF dispatchVars
<1>2. CASE DispatchNext
  <2>1. ~closed
    BY <1>2 DEF DispatchNext
  <2>2. CASE RouterStep
    BY <2>1, <2>2, RouterStepNext
  <2>3. ASSUME NEW c \in Client, NEW h \in Handler, NEW cmd \in Cmd,
               SendResetFor(c, h, cmd)
        PROVE  Next
    BY <2>1, <2>3 DEF SendResetFor, Next, ClientStep
  <2>4. ASSUME NEW h \in Handler, ResetSucceeds(h)
        PROVE  Next
    BY <2>1, <2>4 DEF ResetSucceeds, Next, HandlerStep
  <2>5. ASSUME NEW h \in Handler, ResetRefused(h)
        PROVE  Next
    BY <2>1, <2>5 DEF ResetRefused, Next, HandlerStep
  <2>6. ASSUME NEW h \in Handler, ResetFails(h) \/ ResetLate(h)
        PROVE  Next
    BY <2>1, <2>6 DEF ResetFails, ResetLate, Next, HandlerStep
  <2>7. ASSUME NEW h \in Handler, AgentSetCommand(h)
        PROVE  UNCHANGED vars
    BY <2>7 DEF AgentSetCommand
  <2>8. ASSUME NEW a \in Addr, NEW cmd \in Cmd,
               LateSetCommand(a, cmd) \/ LateReset(a, cmd)
        PROVE  UNCHANGED vars
    BY <2>8 DEF LateSetCommand, LateReset
  <2>9. ASSUME NEW a \in Addr, AgentRestart(a)
        PROVE  UNCHANGED vars
    BY <2>9 DEF AgentRestart
  <2>10. QED
    BY <1>2, <2>2, <2>3, <2>4, <2>5, <2>6, <2>7, <2>8, <2>9 DEF DispatchNext
<1>3. QED
  BY <1>1, <1>2

\* The agents' commands, their restarts and the Resets that arrive late add
\* nothing to what the router itself does (server.go, pool.go), so that every
\* theorem about Spec holds of DispatchSpec.
THEOREM DispatchIsRouter == DispatchSpec => Spec
<1>1. DispatchInit => Init
  BY DEF DispatchInit
<1>2. [DispatchNext]_dispatchVars => [Next]_vars
  BY DispatchNextRouter
<1>3. QED
  BY <1>1, <1>2, PTL DEF DispatchSpec, Spec

-----------------------------------------------------------------------------
(* How the router's steps move Resets and sessions.                        *)

\* No Reset starts, no session starts, and a Reset that waits for its agent did
\* so before or is about to, with the same agent.
Onward ==
  /\ \A g \in Handler : call'[g].pc \in ResetPhase => call[g].pc \in ResetPhase
  /\ \A g \in Handler :
       call'[g].pc = "resetting" => call'[g].addr = call[g].addr
  /\ \A c \in Client : session'[c] \in {session[c], NoSession}

LEMMA ReturnOnward ==
  ASSUME CallTypeOK, NEW h \in Handler, call' = Sever([call EXCEPT ![h] = Idle]),
         \A c \in Client : session'[c] \in {session[c], NoSession}
  PROVE  Onward
<1>1. call'[h].pc = "idle"
  BY ReturnFacts
<1>2. \A g \in Handler \ {h} : call'[g].pc = call[g].pc /\ call'[g].addr = call[g].addr
  BY ReturnFacts
<1>3. QED
  BY <1>1, <1>2 DEF Onward, ResetPhase

LEMMA SameCallsOnward ==
  ASSUME \A g \in Handler : call'[g].pc = call[g].pc /\ call'[g].addr = call[g].addr,
         \A c \in Client : session'[c] \in {session[c], NoSession}
  PROVE  Onward
  BY DEF Onward

\* Handler h goes on to pc, for the same agent if it waits for its Reset then.
LEMMA GoesOnOnward ==
  ASSUME CallTypeOK, NEW h \in Handler,
         \A g \in Handler \ {h} : call'[g] = call[g],
         call'[h].pc \in ResetPhase => call[h].pc \in ResetPhase,
         call'[h].pc = "resetting" => call'[h].addr = call[h].addr,
         \A c \in Client : session'[c] \in {session[c], NoSession}
  PROVE  Onward
  BY DEF Onward

LEMMA RouterStepOnward ==
  ASSUME CallTypeOK, RouterStep
  PROVE  Onward
<1>1. call \in [Handler -> Call] /\ session \in [Client -> Addr \union {NoSession}]
  BY DEF CallTypeOK
<1>2. ASSUME NEW c \in Client, NEW h \in Handler, SendStep(c, h) \/ SendClose(c, h)
      PROVE  Onward
  <2>1. /\ call'[h].pc \in {"step", "close"}
        /\ \A g \in Handler \ {h} : call'[g] = call[g]
    BY <1>1, <1>2 DEF SendStep, SendClose, Send
  <2>2. \A d \in Client : session'[d] \in {session[d], NoSession}
    BY <1>1, <1>2 DEF SendStep, SendClose
  <2>3. QED
    BY <2>1, <2>2, GoesOnOnward DEF ResetPhase
<1>3. ASSUME NEW c \in Client, Crash(c)
      PROVE  Onward
  <2>1. \A g \in Handler : call'[g].pc = call[g].pc /\ call'[g].addr = call[g].addr
    BY <1>1, <1>3 DEF Crash, Call
  <2>2. \A d \in Client : session'[d] \in {session[d], NoSession}
    BY <1>1, <1>3 DEF Crash
  <2>3. QED
    BY <2>1, <2>2, SameCallsOnward
<1>4. ASSUME NEW h \in Handler, GiveUp(h)
      PROVE  Onward
  <2>1. \A g \in Handler : call'[g].pc = call[g].pc /\ call'[g].addr = call[g].addr
    BY <1>1, <1>4 DEF GiveUp, Call
  <2>2. QED
    BY <1>4, <2>1, SameCallsOnward DEF GiveUp
<1>5. ASSUME NEW h \in Handler, NEW a \in Addr, ResetLock(h, a)
      PROVE  Onward
  <2>1. /\ call'[h].pc = "locked"
        /\ call[h].pc = "reset"
        /\ \A g \in Handler \ {h} : call'[g] = call[g]
    BY <1>1, <1>5 DEF ResetLock
  <2>2. UNCHANGED session
    BY <1>5 DEF ResetLock
  <2>3. QED
    BY <2>1, <2>2, GoesOnOnward DEF ResetPhase
<1>6. ASSUME NEW h \in Handler, ResetTouch(h) \/ StepTouch(h)
      PROVE  Onward
  <2>1. /\ call'[h].addr = call[h].addr
        /\ \A g \in Handler \ {h} : call'[g] = call[g]
    BY <1>1, <1>6 DEF ResetTouch, StepTouch, Goto, Call
  <2>2. \/ call[h].pc = "locked" /\ call'[h].pc = "resetting"
        \/ call[h].pc = "found" /\ call'[h].pc = "stepping"
    BY <1>1, <1>6 DEF ResetTouch, StepTouch, Goto, Call
  <2>3. UNCHANGED session
    BY <1>6 DEF ResetTouch, StepTouch
  <2>4. QED
    BY <2>1, <2>2, <2>3, GoesOnOnward DEF ResetPhase
<1>7. ASSUME NEW h \in Handler, StepFind(h)
      PROVE  Onward
  <2>1. /\ call'[h].pc = "found"
        /\ \A g \in Handler \ {h} : call'[g] = call[g]
    BY <1>1, <1>7 DEF StepFind
  <2>2. UNCHANGED session
    BY <1>7 DEF StepFind
  <2>3. QED
    BY <2>1, <2>2, GoesOnOnward DEF ResetPhase
<1>8. ASSUME NEW h \in Handler,
             \/ ResetReject(h) \/ StepReject(h) \/ StepError(h)
             \/ CloseSession(h) \/ CloseReject(h)
      PROVE  Onward
  BY <1>8, ReturnOnward
  DEF ResetReject, StepReject, StepError, CloseSession, CloseReject, ReturnKeeping
<1>9. ASSUME NEW h \in Handler, NEW done \in DoneReplies, StepReply(h, done)
      PROVE  Onward
  <2>1. call' = Sever([call EXCEPT ![h] = Idle])
    BY <1>9 DEF StepReply, Return, ReturnKeeping
  <2>2. \A c \in Client : session'[c] \in {session[c], NoSession}
    BY <1>9 DEF StepReply, Return, ReturnKeeping
  <2>3. QED
    BY <2>1, <2>2, ReturnOnward
<1>10. CASE Cleanup \/ \E liveAddrs \in SUBSET Addr : EndpointsListed(liveAddrs)
  <2>1. call' = Sever(call) /\ UNCHANGED session
    BY <1>10 DEF Cleanup, EndpointsListed
  <2>2. QED
    BY <2>1, SeverFacts, SameCallsOnward
<1>11. CASE \/ \E a \in Addr : EndpointAdded(a)
            \/ Signal \/ Shutdown \/ TimePasses
  <2>1. UNCHANGED <<call, session>>
    BY <1>11 DEF EndpointAdded, Signal, Shutdown, TimePasses, routerVars
  <2>2. QED
    BY <2>1, SameCallsOnward
<1>12. QED
  BY <1>2, <1>3, <1>4, <1>5, <1>6, <1>7, <1>8, <1>9, <1>10, <1>11 DEF RouterStep

-----------------------------------------------------------------------------
(* CommandInv is preserved, whatever the timeout and the agents' replies.  *)

LEMMA SettleInv ==
  ASSUME CommandInv, Settle, Onward,
         episode' \in [Client -> Cmd \union {NoCmd}],
         command' \in [Addr -> Cmd \union {NoCmd}],
         late' \subseteq Addr \X Cmd,
         overwritten' \subseteq Addr
  PROVE  CommandInv'
<1>1. asked' \in [Handler -> Cmd \union {NoCmd}]
  BY DEF CommandInv, CommandTypeOK, Settle
<1>2. work' \in [Handler -> {"none", "stored", "dead"}]
  BY DEF CommandInv, CommandTypeOK, Settle
<1>3. ResetHasCommand'
  BY DEF CommandInv, ResetHasCommand, Settle, ResetPhase, Onward
<1>4. WorkIsForReset'
  BY DEF WorkIsForReset, Settle
<1>5. QED
  BY <1>1, <1>2, <1>3, <1>4 DEF CommandInv, CommandTypeOK

LEMMA ReturnsCommandInv ==
  ASSUME ControlInv, CommandInv, NEW h \in Handler,
         ResetSucceeds(h) \/ ResetRefused(h) \/ ResetFails(h) \/ ResetLate(h)
  PROVE  CommandInv'
<1>1. /\ call[h].pc = "resetting"
      /\ call' = Sever([call EXCEPT ![h] = Idle])
  BY DEF ResetSucceeds, ResetRefused, ResetFails, ResetLate, ResetReply, ResetError,
         Return, ReturnKeeping
<1>2. call[h].addr \in Addr /\ asked[h] \in Cmd
  BY <1>1 DEF ControlInv, CallsInv, Captured, CommandInv, ResetHasCommand, ResetPhase
<1>3. /\ call'[h].pc = "idle"
      /\ \A g \in Handler \ {h} :
           call'[g].pc = call[g].pc /\ call'[g].addr = call[g].addr
  BY <1>1, ReturnFacts DEF ControlInv
<1>4. asked' \in [Handler -> Cmd \union {NoCmd}]
  BY DEF CommandInv, CommandTypeOK, Settle, ResetSucceeds, ResetRefused, ResetFails,
         ResetLate
<1>5. work' \in [Handler -> {"none", "stored", "dead"}]
  BY DEF CommandInv, CommandTypeOK, Settle, ResetSucceeds, ResetRefused, ResetFails,
         ResetLate
<1>6. Settle
  BY DEF ResetSucceeds, ResetRefused, ResetFails, ResetLate
<1>7. ResetHasCommand'
  BY <1>3, <1>6 DEF CommandInv, ResetHasCommand, Settle, ResetPhase
<1>8. WorkIsForReset'
  BY <1>6 DEF WorkIsForReset, Settle
<1>9. late' \subseteq Addr \X Cmd
  <2>1. \/ UNCHANGED late
        \/ late' = late \union {<<call[h].addr, asked[h]>>}
    BY DEF agentVars, ResetSucceeds, ResetRefused, ResetFails, ResetLate
  <2>2. QED
    BY <1>2, <2>1 DEF CommandInv, CommandTypeOK
<1>10. episode' \in [Client -> Cmd \union {NoCmd}]
  BY <1>2 DEF CommandInv, CommandTypeOK, ResetSucceeds, ResetRefused, ResetFails,
              ResetLate
<1>11. UNCHANGED <<command, overwritten>>
  BY DEF agentVars, ResetSucceeds, ResetRefused, ResetFails, ResetLate
<1>12. QED
  BY <1>4, <1>5, <1>7, <1>8, <1>9, <1>10, <1>11 DEF CommandInv, CommandTypeOK

LEMMA SendResetForCommandInv ==
  ASSUME ControlInv, CommandInv, NEW c \in Client, NEW h \in Handler, NEW cmd \in Cmd,
         SendResetFor(c, h, cmd)
  PROVE  CommandInv'
<1>1. call \in [Handler -> Call] /\ asked \in [Handler -> Cmd \union {NoCmd}]
  BY DEF ControlInv, CallTypeOK, CommandInv, CommandTypeOK
<1>2. /\ call[h].pc = "idle"
      /\ \A g \in Handler \ {h} : call'[g] = call[g]
  BY <1>1 DEF SendResetFor, SendReset, Send
<1>3. asked'[h] = cmd /\ \A g \in Handler \ {h} : asked'[g] = asked[g]
  BY <1>1 DEF SendResetFor
<1>4. UNCHANGED <<work, episode, command, late, overwritten>>
  BY DEF SendResetFor, agentVars
<1>5. work[h] = "none"
  BY <1>2 DEF CommandInv, WorkIsForReset
<1>6. CommandTypeOK'
  BY <1>1, <1>4 DEF SendResetFor, CommandInv, CommandTypeOK
<1>7. ResetHasCommand'
  BY <1>2, <1>3 DEF CommandInv, ResetHasCommand
<1>8. WorkIsForReset'
  BY <1>2, <1>4, <1>5 DEF CommandInv, WorkIsForReset
<1>9. QED
  BY <1>6, <1>7, <1>8 DEF CommandInv

\* What an agent does by itself.
LEMMA AgentCommandInv ==
  ASSUME ControlInv, CommandInv,
         \/ \E h \in Handler : AgentSetCommand(h)
         \/ \E a \in Addr, cmd \in Cmd : LateSetCommand(a, cmd) \/ LateReset(a, cmd)
         \/ \E a \in Addr : AgentRestart(a)
  PROVE  CommandInv'
<1>1. CommandTypeOK
  BY DEF CommandInv
<1>2. ASSUME NEW h \in Handler, AgentSetCommand(h)
      PROVE  CommandInv'
  <2>1. asked[h] \in Cmd
    BY <1>2 DEF AgentSetCommand, CommandInv, ResetHasCommand, ResetPhase
  <2>2. UNCHANGED <<call, asked>>
    BY <1>2 DEF AgentSetCommand, vars, routerVars
  <2>3. CommandTypeOK'
    BY <1>1, <1>2, <2>1 DEF AgentSetCommand, CommandTypeOK
  <2>4. ResetHasCommand'
    BY <2>2 DEF CommandInv, ResetHasCommand
  <2>5. WorkIsForReset'
    BY <1>1, <1>2, <2>2 DEF AgentSetCommand, CommandTypeOK, CommandInv, WorkIsForReset
  <2>6. QED
    BY <2>3, <2>4, <2>5 DEF CommandInv
<1>3. ASSUME NEW a \in Addr, NEW cmd \in Cmd,
             LateSetCommand(a, cmd) \/ LateReset(a, cmd)
      PROVE  CommandInv'
  <2>1. UNCHANGED <<call, asked, work, episode>>
    BY <1>3 DEF LateSetCommand, LateReset, vars, routerVars
  <2>2. CommandTypeOK'
    BY <1>1, <1>3, <2>1 DEF LateSetCommand, LateReset, CommandTypeOK
  <2>3. QED
    BY <2>1, <2>2 DEF CommandInv, ResetHasCommand, WorkIsForReset
<1>4. ASSUME NEW a \in Addr, AgentRestart(a)
      PROVE  CommandInv'
  <2>1. UNCHANGED <<call, asked>>
    BY <1>4 DEF AgentRestart, vars, routerVars
  <2>2. CommandTypeOK'
    BY <1>1, <1>4 DEF AgentRestart, CommandTypeOK
  <2>3. ResetHasCommand' /\ WorkIsForReset'
    BY <1>4, <2>1 DEF CommandInv, ResetHasCommand, WorkIsForReset, AgentRestart
  <2>4. QED
    BY <2>2, <2>3 DEF CommandInv
<1>5. QED
  BY <1>2, <1>3, <1>4

LEMMA NextCommandInv ==
  ASSUME ControlInv, CommandInv, [DispatchNext]_dispatchVars
  PROVE  CommandInv'
<1>1. CASE UNCHANGED dispatchVars
  BY <1>1
  DEF dispatchVars, vars, routerVars, agentVars, CommandInv, CommandTypeOK,
      ResetHasCommand, WorkIsForReset
<1>2. CASE RouterStep
  <2>1. Onward /\ Settle /\ Forget /\ UNCHANGED agentVars
    BY <1>2, RouterStepOnward DEF RouterStep, ControlInv
  <2>2. episode' \in [Client -> Cmd \union {NoCmd}]
    BY <2>1 DEF Forget, CommandInv, CommandTypeOK
  <2>3. QED
    BY <2>1, <2>2, SettleInv DEF CommandInv, CommandTypeOK, agentVars
<1>3. QED
  BY <1>1, <1>2, SendResetForCommandInv, ReturnsCommandInv, AgentCommandInv
  DEF DispatchNext

-----------------------------------------------------------------------------
(* EpisodeRunsItsCommand is preserved, for each kind of step.              *)

\* What Settle leaves of the Resets that agents have stored.
LEMMA SettleStored ==
  ASSUME WorkIsForReset, Settle, NEW g \in Handler, work'[g] = "stored"
  PROVE  /\ call'[g].pc = "resetting"
         /\ work[g] = "stored"
         /\ asked'[g] = asked[g]
  BY DEF WorkIsForReset, Settle

\* The claims of handlers, where the commands of agents stay.
LEMMA StoredRuns ==
  ASSUME DispatchInv, Settle, UNCHANGED <<command, overwritten>>,
         \A g \in Handler :
           call'[g].pc = "resetting" => call'[g].addr = call[g].addr,
         NEW g \in Handler, work'[g] = "stored"
  PROVE  RunsOnly(call[g].addr, asked[g])'
<1>1. /\ call'[g].pc = "resetting"
      /\ work[g] = "stored"
      /\ asked'[g] = asked[g]
  BY SettleStored DEF DispatchInv, CommandInv
<1>2. call'[g].addr = call[g].addr
  BY <1>1
<1>3. RunsOnly(call[g].addr, asked[g])
  BY <1>1 DEF DispatchInv, EpisodeRunsItsCommand
<1>4. QED
  BY <1>1, <1>2, <1>3 DEF RunsOnly

\* A step of the router that starts no episode.
LEMMA OnwardRuns ==
  ASSUME DispatchInv, Onward, Settle, UNCHANGED <<command, overwritten>>,
         \A c \in Client : session'[c] # NoSession => episode'[c] = episode[c]
  PROVE  EpisodeRunsItsCommand'
<1>1. ASSUME NEW c \in Client, session'[c] # NoSession
      PROVE  RunsOnly(session[c], episode[c])'
  <2>1. session'[c] = session[c] /\ episode'[c] = episode[c]
    BY <1>1 DEF Onward
  <2>2. RunsOnly(session[c], episode[c])
    BY <1>1, <2>1 DEF DispatchInv, EpisodeRunsItsCommand
  <2>3. QED
    BY <2>1, <2>2 DEF RunsOnly
<1>2. ASSUME NEW g \in Handler, work'[g] = "stored"
      PROVE  RunsOnly(call[g].addr, asked[g])'
  BY <1>2, StoredRuns DEF Onward
<1>3. QED
  BY <1>1, <1>2 DEF EpisodeRunsItsCommand

LEMMA RouterStepRuns ==
  ASSUME DispatchInv, RouterStep
  PROVE  EpisodeRunsItsCommand'
<1>1. Onward
  BY RouterStepOnward DEF DispatchInv, RouterInv, ControlInv
<1>2. Settle /\ Forget /\ UNCHANGED agentVars
  BY DEF RouterStep
<1>3. \A c \in Client : session'[c] # NoSession => episode'[c] = episode[c]
  BY <1>2 DEF Forget
<1>4. QED
  BY <1>1, <1>2, <1>3, OnwardRuns DEF agentVars

\* A Reset that is refused, or whose call fails.
LEMMA FailedResetRuns ==
  ASSUME DispatchInv, NEW h \in Handler,
         ResetRefused(h) \/ ResetFails(h) \/ ResetLate(h)
  PROVE  EpisodeRunsItsCommand'
<1>1. ReturnKeeping(h)
  BY DEF ResetRefused, ResetFails, ResetLate, ResetReply, ResetError
<1>2. Onward
  BY <1>1, ReturnOnward DEF ReturnKeeping, DispatchInv, RouterInv, ControlInv
<1>3. Settle /\ UNCHANGED <<episode, command, overwritten>>
  BY DEF ResetRefused, ResetFails, ResetLate, agentVars
<1>4. QED
  BY <1>2, <1>3, OnwardRuns

LEMMA SendResetForRuns ==
  ASSUME DispatchInv, NEW c \in Client, NEW h \in Handler, NEW cmd \in Cmd,
         SendResetFor(c, h, cmd)
  PROVE  EpisodeRunsItsCommand'
<1>1. call \in [Handler -> Call] /\ asked \in [Handler -> Cmd \union {NoCmd}]
  BY DEF DispatchInv, RouterInv, ControlInv, CallTypeOK, CommandInv, CommandTypeOK
<1>2. call[h].pc = "idle" /\ \A g \in Handler \ {h} : call'[g] = call[g]
  BY <1>1 DEF SendResetFor, SendReset, Send
<1>3. \A g \in Handler \ {h} : asked'[g] = asked[g]
  BY <1>1 DEF SendResetFor
<1>4. UNCHANGED <<session, work, episode, command, overwritten>>
  BY DEF SendResetFor, SendReset, agentVars
<1>5. work[h] = "none"
  BY <1>2 DEF DispatchInv, CommandInv, WorkIsForReset
<1>6. QED
  BY <1>2, <1>3, <1>4, <1>5 DEF DispatchInv, EpisodeRunsItsCommand, RunsOnly

\* The agent that stores the command of a Reset is nobody else's: no client has
\* a session with it and no other handler sets it up.
LEMMA AgentSetCommandRuns ==
  ASSUME DispatchInv, NEW h \in Handler, AgentSetCommand(h)
  PROVE  EpisodeRunsItsCommand'
<1> DEFINE a == call[h].addr
<1>1. /\ call[h].pc = "resetting"
      /\ work' = [work EXCEPT ![h] = "stored"]
      /\ command' = [command EXCEPT ![a] = asked[h]]
      /\ overwritten' = overwritten \ {a}
      /\ UNCHANGED <<call, session, asked, episode>>
  BY DEF AgentSetCommand, vars, routerVars
<1>2. a \in Addr
  BY <1>1 DEF DispatchInv, RouterInv, ControlInv, CallsInv, Captured
<1>3. CommandTypeOK /\ WorkIsForReset
  BY DEF DispatchInv, CommandInv
<1>4. \A c \in Client : session[c] # a
  BY <1>1, <1>2 DEF DispatchInv, RouterInv, Exclusive, HandlerClaims
<1>5. \A g \in Handler \ {h} : work[g] = "stored" => call[g].addr # a
  BY <1>1, <1>2, <1>3
  DEF DispatchInv, RouterInv, Exclusive, HandlerClaims, WorkIsForReset
<1>6. /\ command'[a] = asked[h]
      /\ \A b \in Addr \ {a} : command'[b] = command[b]
  BY <1>1, <1>2, <1>3 DEF CommandTypeOK
<1>7. work'[h] = "stored" /\ \A g \in Handler \ {h} : work'[g] = work[g]
  BY <1>1, <1>3 DEF CommandTypeOK
<1>8. ASSUME NEW c \in Client, session[c] # NoSession
      PROVE  RunsOnly(session[c], episode[c])'
  <2>1. session[c] \in Addr \ {a}
    BY <1>4, <1>8 DEF DispatchInv, RouterInv, ControlInv, CallTypeOK
  <2>2. RunsOnly(session[c], episode[c])
    BY <1>8 DEF DispatchInv, EpisodeRunsItsCommand
  <2>3. QED
    BY <1>1, <1>6, <2>1, <2>2 DEF RunsOnly
<1>9. ASSUME NEW g \in Handler \ {h}, work[g] = "stored"
      PROVE  RunsOnly(call[g].addr, asked[g])'
  <2>1. call[g].addr \in Addr \ {a}
    BY <1>3, <1>5, <1>9
    DEF DispatchInv, WorkIsForReset, RouterInv, ControlInv, CallsInv, Captured
  <2>2. RunsOnly(call[g].addr, asked[g])
    BY <1>9 DEF DispatchInv, EpisodeRunsItsCommand
  <2>3. QED
    BY <1>1, <1>6, <2>1, <2>2 DEF RunsOnly
<1>10. RunsOnly(call[h].addr, asked[h])'
  BY <1>1, <1>6 DEF RunsOnly
<1>11. QED
  BY <1>1, <1>7, <1>8, <1>9, <1>10 DEF EpisodeRunsItsCommand

\* The session that starts is one with the agent that has stored its command.
LEMMA ResetSucceedsRuns ==
  ASSUME DispatchInv, NEW h \in Handler, ResetSucceeds(h)
  PROVE  EpisodeRunsItsCommand'
<1>1. /\ work[h] = "stored"
      /\ call' = Sever([call EXCEPT ![h] = Idle])
      /\ session' = [c \in Client |->
                       IF c = call[h].caller THEN call[h].addr ELSE session[c]]
      /\ episode' = [c \in Client |->
                       IF c = call[h].caller THEN asked[h] ELSE episode[c]]
      /\ Settle
      /\ UNCHANGED <<command, overwritten>>
  BY DEF ResetSucceeds, ResetReply, Return, agentVars
<1>2. \A g \in Handler : call'[g].pc = "resetting" => call'[g].addr = call[g].addr
  BY <1>1, ReturnFacts DEF DispatchInv, RouterInv, ControlInv
<1>3. ASSUME NEW c \in Client, session'[c] # NoSession
      PROVE  RunsOnly(session[c], episode[c])'
  <2>1. CASE c = call[h].caller
    <3>1. session'[c] = call[h].addr /\ episode'[c] = asked[h]
      BY <1>1, <2>1
    <3>2. RunsOnly(call[h].addr, asked[h])
      BY <1>1 DEF DispatchInv, EpisodeRunsItsCommand
    <3>3. QED
      BY <1>1, <3>1, <3>2 DEF RunsOnly
  <2>2. CASE c # call[h].caller
    <3>1. session'[c] = session[c] /\ episode'[c] = episode[c]
      BY <1>1, <2>2
    <3>2. RunsOnly(session[c], episode[c])
      BY <1>3, <3>1 DEF DispatchInv, EpisodeRunsItsCommand
    <3>3. QED
      BY <1>1, <3>1, <3>2 DEF RunsOnly
  <2>3. QED
    BY <2>1, <2>2
<1>4. ASSUME NEW g \in Handler, work'[g] = "stored"
      PROVE  RunsOnly(call[g].addr, asked[g])'
  BY <1>1, <1>2, <1>4, StoredRuns
<1>5. QED
  BY <1>3, <1>4 DEF EpisodeRunsItsCommand

\* A late Reset changes the command of its agent only, and marks it.  An agent
\* that restarts has no command, and answers no Reset that it worked on.
LEMMA AgentFaultRuns ==
  ASSUME DispatchInv, NEW a \in Addr,
         \/ \E cmd \in Cmd : LateSetCommand(a, cmd) \/ LateReset(a, cmd)
         \/ AgentRestart(a)
  PROVE  EpisodeRunsItsCommand'
<1>1. CommandTypeOK /\ WorkIsForReset
  BY DEF DispatchInv, CommandInv
<1>2. UNCHANGED <<call, session, asked, episode>>
  BY DEF LateSetCommand, LateReset, AgentRestart, vars, routerVars
<1>3. \A g \in Handler : work'[g] = "stored" => work[g] = "stored"
  BY DEF LateSetCommand, LateReset, AgentRestart
<1>4. ASSUME NEW b \in Addr, NEW x, RunsOnly(b, x)
      PROVE  b \notin overwritten' => command'[b] \in {x, NoCmd}
  BY <1>1, <1>4
  DEF LateSetCommand, LateReset, AgentRestart, CommandTypeOK, RunsOnly
<1>5. ASSUME NEW c \in Client, session[c] # NoSession
      PROVE  RunsOnly(session[c], episode[c])'
  <2>1. session[c] \in Addr /\ RunsOnly(session[c], episode[c])
    BY <1>5 DEF DispatchInv, EpisodeRunsItsCommand, RouterInv, ControlInv, CallTypeOK
  <2>2. QED
    BY <1>2, <1>4, <2>1 DEF RunsOnly
<1>6. ASSUME NEW g \in Handler, work'[g] = "stored"
      PROVE  RunsOnly(call[g].addr, asked[g])'
  <2>1. work[g] = "stored"
    BY <1>3, <1>6
  <2>2. call[g].addr \in Addr /\ RunsOnly(call[g].addr, asked[g])
    BY <1>1, <2>1
    DEF DispatchInv, EpisodeRunsItsCommand, WorkIsForReset, RouterInv, ControlInv,
        CallsInv, Captured
  <2>3. QED
    BY <1>2, <1>4, <2>2 DEF RunsOnly
<1>7. QED
  BY <1>2, <1>5, <1>6 DEF EpisodeRunsItsCommand

LEMMA NextRuns ==
  ASSUME DispatchInv, [DispatchNext]_dispatchVars
  PROVE  EpisodeRunsItsCommand'
<1>1. CASE UNCHANGED dispatchVars
  BY <1>1
  DEF dispatchVars, vars, routerVars, agentVars, DispatchInv, EpisodeRunsItsCommand,
      RunsOnly
<1>2. QED
  BY <1>1, RouterStepRuns, SendResetForRuns, AgentSetCommandRuns, ResetSucceedsRuns,
     FailedResetRuns, AgentFaultRuns
  DEF DispatchNext

-----------------------------------------------------------------------------

LEMMA InitCommandInv == DispatchInit => CommandInv /\ EpisodeRunsItsCommand
<1> SUFFICES ASSUME DispatchInit
             PROVE  CommandInv /\ EpisodeRunsItsCommand
  OBVIOUS
<1>1. CommandTypeOK
  BY DEF DispatchInit, CommandTypeOK
<1>2. /\ \A h \in Handler : call[h].pc = "idle"
      /\ \A c \in Client : session[c] = NoSession
      /\ \A h \in Handler : work[h] = "none"
  BY DEF DispatchInit, Init, Idle
<1>3. ResetHasCommand /\ WorkIsForReset /\ EpisodeRunsItsCommand
  BY <1>2 DEF ResetHasCommand, WorkIsForReset, EpisodeRunsItsCommand, ResetPhase
<1>4. QED
  BY <1>1, <1>3 DEF CommandInv

\* The state of the router and of its agents' commands is well formed, whatever
\* timeouts and agents do; every Reset that is on its way carries a command of a
\* client (executor.go:27).
THEOREM DispatchTypeCorrect == DispatchSpec => []DispatchTypeOK
<1> DEFINE I == PoolInv /\ ControlInv /\ CommandInv
<1>1. DispatchInit => I
  BY PoolInitInv, InitControl, InitCommandInv DEF DispatchInit, Init
<1>2. I /\ [DispatchNext]_dispatchVars => I'
  <2> SUFFICES ASSUME I, [DispatchNext]_dispatchVars
               PROVE  I'
    OBVIOUS
  <2>1. [Next]_vars
    BY DispatchNextRouter
  <2>2. PoolInv' /\ ControlInv'
    BY <2>1, NextPool, PoolNextInv, NextControl
  <2>3. CommandInv'
    BY NextCommandInv
  <2>4. QED
    BY <2>2, <2>3
<1>3. I /\ TypeOK => DispatchTypeOK
  BY DEF CommandInv, CommandTypeOK, DispatchTypeOK
<1>4. DispatchSpec => []TypeOK
  BY DispatchIsRouter, RouterTypeCorrect, PTL
<1> HIDE DEF I
<1>5. QED
  BY <1>1, <1>2, <1>3, <1>4, PTL DEF DispatchSpec

\* Where the router dedicates agents (sessions in use never reach the timeout,
\* agents never report Done), the agent of an episode runs the command its
\* client asked for or, restarted, none (executor.go:27, server.go:55), unless a
\* Reset that the router had given up on reached it since.
THEOREM DispatchEpisodeRunsItsCommand ==
  ASSUME Prompt, DoneReplies \subseteq {FALSE}
  PROVE  DispatchSpec => []EpisodeRunsItsCommand
<1>1. DispatchInit => DispatchInv
  BY InitRouterInv, InitCommandInv DEF DispatchInit, DispatchInv
<1>2. DispatchInv /\ [DispatchNext]_dispatchVars => DispatchInv'
  <2> SUFFICES ASSUME DispatchInv, [DispatchNext]_dispatchVars
               PROVE  DispatchInv'
    OBVIOUS
  <2>1. RouterInv'
    BY DispatchNextRouter, NextRouterInv DEF DispatchInv
  <2>2. CommandInv'
    BY NextCommandInv DEF DispatchInv, RouterInv
  <2>3. EpisodeRunsItsCommand'
    BY NextRuns
  <2>4. QED
    BY <2>1, <2>2, <2>3 DEF DispatchInv
<1>3. DispatchInv => EpisodeRunsItsCommand
  BY DEF DispatchInv
<1>4. QED
  BY <1>1, <1>2, <1>3, PTL DEF DispatchSpec
=============================================================================
