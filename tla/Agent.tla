-------------------------------- MODULE Agent -------------------------------
(***************************************************************************)
(* One environment agent, env-ebpf-agent: the gRPC handlers, the executor, *)
(* the eBPF manager and the sockops program with its three maps.           *)
(*                                                                         *)
(* The handlers of the gRPC server share the executor's lastCommand, which *)
(* no lock protects: a Go string is two words, written one after the other.*)
(* They share the maps of the sockops program too, which runs for every    *)
(* process of the node.  Nothing ever deletes an entry of a map.           *)
(*                                                                         *)
(* Tuning parameters are opaque.  Of the numbers in tuning_metrics only one*)
(* thing is kept, whether update_metrics has run (duration_us > 0).  The   *)
(* fields run and applied of an entry record what it was measured on, and  *)
(* the field overtaken of a call that another Step has replaced its action;*)
(* the code has no such fields and no guard reads them.                    *)
(***************************************************************************)
EXTENDS Naturals, FiniteSets

CONSTANTS
  Handler,         \* bounds the calls the agent works on at the same time
  Cmd,             \* commands a client may ask for
  Allowed,         \* the commands whose hash is in allowedHashes
  Ip,              \* IPv4 addresses the commands connect to
  Act,             \* tuning_action values
  Pid,             \* process ids
  NoCmd, NoIp, NoAct, NoPid, NoHandler,
  MaxActions,      \* max_entries of action_map
  MaxMetrics,      \* max_entries of metrics_map
  MaxCookies,      \* max_entries of cookie_pid_map
  MaxRuns          \* bounds the processes that are started

ASSUME AgentAssumption ==
  /\ Allowed \subseteq Cmd
  /\ NoCmd \notin Cmd
  /\ NoIp \notin Ip
  /\ NoAct \notin Act
  /\ NoPid \notin Pid
  /\ NoHandler \notin Handler
  /\ {MaxActions, MaxMetrics, MaxCookies, MaxRuns} \subseteq Nat

VARIABLES
  call,            \* what each handler is doing
  lastCommand,     \* the two words of Executor.lastCommand
  action_map,      \* address -> tuning action
  metrics_map,     \* process id -> metrics
  cookies,         \* number of entries of cookie_pid_map
  procs,           \* the node's processes: process id -> process
  recycled,        \* process ids given out again while something refers to them
  runs             \* number of processes started so far

agentVars == <<call, lastCommand, action_map, metrics_map, cookies>>
vars == <<agentVars, procs, recycled, runs>>

Call ==
  [pc : {"idle", "command", "command_data", "command_len", "action", "start",
         "wait", "exited", "failed"},
   kind : {"reset", "step"},
   cmd : Cmd \union {NoCmd}, ip : Ip \union {NoIp}, act : Act \union {NoAct},
   pid : Pid \union {NoPid}, run : 0 .. MaxRuns, overtaken : BOOLEAN]

Idle == [pc |-> "idle", kind |-> "reset", cmd |-> NoCmd, ip |-> NoIp,
         act |-> NoAct, pid |-> NoPid, run |-> 0, overtaken |-> FALSE]

\* A command as it is in memory.  "SetCommand stores the command ... after
\* validating its SHA256 hash" (executor.go:27): no word of another one gets here.
TwoWords == [data : Allowed \union {NoCmd}, len : Allowed \union {NoCmd}]

Process ==
  [owner : Handler \union {NoHandler},
   run : 1 .. MaxRuns,
   cmd : TwoWords,
   sock : {"none", "connecting", "established"},
   ip : Ip \union {NoIp},
   applied : Act \union {NoAct},
   tracked : BOOLEAN]

Metrics == [run : 1 .. MaxRuns, ip : Ip, applied : Act \union {NoAct},
            measured : BOOLEAN]

\* Types.  The maps keep to their max_entries, and only commands that SetCommand
\* has let pass are stored and run.
TypeOK ==
  /\ call \in [Handler -> Call]
  /\ lastCommand \in TwoWords
  /\ DOMAIN action_map \subseteq Ip
  /\ \A i \in DOMAIN action_map : action_map[i] \in Act
  /\ DOMAIN metrics_map \subseteq Pid
  /\ \A p \in DOMAIN metrics_map : metrics_map[p] \in Metrics
  /\ Cardinality(DOMAIN metrics_map) <= MaxMetrics
  /\ Cardinality(DOMAIN action_map) <= MaxActions
  /\ cookies \in 0 .. MaxCookies
  /\ DOMAIN procs \subseteq Pid
  /\ \A p \in DOMAIN procs : procs[p] \in Process
  /\ recycled \subseteq Pid
  /\ runs \in 0 .. MaxRuns

EmptyMap == [x \in {} |-> x]

\* NewExecutor and LoadBpfObjects: no command and empty maps.
Init ==
  /\ call = [h \in Handler |-> Idle]
  /\ lastCommand = [data |-> NoCmd, len |-> NoCmd]
  /\ action_map = EmptyMap
  /\ metrics_map = EmptyMap
  /\ cookies = 0
  /\ procs = EmptyMap
  /\ recycled = {}
  /\ runs = 0

-----------------------------------------------------------------------------
(* BPF hash maps (external): an update fails when the map is full and the  *)
(* key is new.                                                             *)

HasRoom(map, key, max) ==
  key \in DOMAIN map \/ Cardinality(DOMAIN map) < max

Set(map, key, val) ==
  [k \in DOMAIN map \union {key} |-> IF k = key THEN val ELSE map[k]]

Put(map, key, val, max) ==
  IF HasRoom(map, key, max) THEN Set(map, key, val) ELSE map

Without(map, key) == [k \in DOMAIN map \ {key} |-> map[k]]

-----------------------------------------------------------------------------
(* The sockops program.                                                    *)

\* BPF_SOCK_OPS_TCP_CONNECT_CB: remember the socket's process and start a new
\* entry for the process.  Each command of allowedHashes makes one connection, so
\* a process that has one makes no other.
ConnectCb(p, i) ==
  /\ procs[p].sock = "none"
  /\ procs' = [procs EXCEPT ![p].sock = "connecting",
                            ![p].ip = i,
                            ![p].tracked = cookies < MaxCookies]
  /\ cookies' = IF cookies < MaxCookies THEN cookies + 1 ELSE cookies
  /\ metrics_map' =
       Put(metrics_map, p,
           [run |-> procs[p].run, ip |-> i, applied |-> NoAct,
            measured |-> FALSE],
           MaxMetrics)
  /\ UNCHANGED <<call, lastCommand, action_map, recycled, runs>>

\* No answer from the address: the process may try another one.
ConnectFails(p) ==
  /\ procs[p].sock = "connecting"
  /\ procs' = [procs EXCEPT ![p].sock = "none"]
  /\ UNCHANGED <<agentVars, recycled, runs>>

\* BPF_SOCK_OPS_ACTIVE_ESTABLISHED_CB: tune the socket if its address has an
\* action, and ask for the state callbacks.
EstablishedCb(p) ==
  /\ procs[p].sock = "connecting"
  /\ procs' = [procs EXCEPT
       ![p].sock = "established",
       ![p].applied = IF procs[p].ip \in DOMAIN action_map
                      THEN action_map[procs[p].ip]
                      ELSE NoAct]
  /\ UNCHANGED <<agentVars, recycled, runs>>

\* update_metrics, on a state callback of p's socket.
UpdateMetrics(p) ==
  metrics_map' =
    IF procs[p].tracked /\ p \in DOMAIN metrics_map
    THEN [metrics_map EXCEPT ![p].measured = TRUE,
                             ![p].applied = procs[p].applied]
    ELSE metrics_map

\* BPF_SOCK_OPS_STATE_CB before the process ends: the peer closes first.
StateCb(p) ==
  /\ procs[p].sock = "established"
  /\ UpdateMetrics(p)
  /\ UNCHANGED <<call, lastCommand, action_map, cookies, procs, recycled, runs>>

-----------------------------------------------------------------------------
(* Processes.                                                              *)

\* A process gets a process id.
Spawn(p, owner, cmd) ==
  /\ runs < MaxRuns
  /\ p \notin DOMAIN procs
  /\ runs' = runs + 1
  /\ recycled' = IF p \in DOMAIN metrics_map \/ \E h \in Handler : call[h].pid = p
                 THEN recycled \union {p}
                 ELSE recycled
  /\ procs' = Set(procs, p,
                  [owner |-> owner, run |-> runs + 1, cmd |-> cmd,
                   sock |-> "none", ip |-> NoIp, applied |-> NoAct,
                   tracked |-> FALSE])

\* Another process of the node starts (external).
OtherProcess(p) ==
  /\ Spawn(p, NoHandler, [data |-> NoCmd, len |-> NoCmd])
  /\ UNCHANGED agentVars

\* A process ends, by itself or killed by the 30 seconds timeout or by the
\* cancelled context of its call.  Its exit closes an established socket, which
\* is a state callback, before cmd.Wait returns; later callbacks of the socket
\* only refresh the numbers.
Exit(p, ok) ==
  /\ IF procs[p].sock = "established"
     THEN UpdateMetrics(p)
     ELSE UNCHANGED metrics_map
  /\ procs' = Without(procs, p)
  /\ call' = [h \in Handler |->
                IF h = procs[p].owner
                THEN [call[h] EXCEPT !.pc = IF ok THEN "exited" ELSE "failed"]
                ELSE call[h]]
  /\ UNCHANGED <<lastCommand, action_map, cookies, recycled, runs>>

-----------------------------------------------------------------------------
(* The handlers.                                                           *)

Goto(h, pc) == call' = [call EXCEPT ![h].pc = pc]

Reply(h) == call' = [call EXCEPT ![h] = Idle]

ReceiveReset(h, c) ==
  /\ call[h].pc = "idle"
  /\ call' = [call EXCEPT ![h] =
                [Idle EXCEPT !.pc = "command", !.kind = "reset", !.cmd = c]]
  /\ UNCHANGED <<lastCommand, action_map, metrics_map, cookies, procs, recycled, runs>>

ReceiveStep(h, i, a) ==
  /\ call[h].pc = "idle"
  /\ call' = [call EXCEPT ![h] =
                [Idle EXCEPT !.pc = "action", !.kind = "step",
                             !.ip = i, !.act = a]]
  /\ UNCHANGED <<lastCommand, action_map, metrics_map, cookies, procs, recycled, runs>>

\* SetCommand rejects a command that is not on the list: Success is false.
RejectCommand(h) ==
  /\ call[h].pc = "command"
  /\ call[h].cmd \notin Allowed
  /\ Reply(h)
  /\ UNCHANGED <<lastCommand, action_map, metrics_map, cookies, procs, recycled, runs>>

\* Faulty SetCommand: the hash is not looked up.
SetCommandUnchecked(h) ==
  /\ call[h].pc = "command"
  /\ \/ lastCommand' = [lastCommand EXCEPT !.data = call[h].cmd]
        /\ Goto(h, "command_len")
     \/ lastCommand' = [lastCommand EXCEPT !.len = call[h].cmd]
        /\ Goto(h, "command_data")
  /\ UNCHANGED <<action_map, metrics_map, cookies, procs, recycled, runs>>

\* SetCommand stores the first word of the string ...
SetCommand(h) ==
  /\ call[h].pc = "command"
  /\ call[h].cmd \in Allowed
  /\ \/ lastCommand' = [lastCommand EXCEPT !.data = call[h].cmd]
        /\ Goto(h, "command_len")
     \/ lastCommand' = [lastCommand EXCEPT !.len = call[h].cmd]
        /\ Goto(h, "command_data")
  /\ UNCHANGED <<action_map, metrics_map, cookies, procs, recycled, runs>>

\* ... and the other one.
CommandStored(h) ==
  /\ \/ call[h].pc = "command_data"
        /\ lastCommand' = [lastCommand EXCEPT !.data = call[h].cmd]
     \/ call[h].pc = "command_len"
        /\ lastCommand' = [lastCommand EXCEPT !.len = call[h].cmd]
  /\ Goto(h, "start")
  /\ UNCHANGED <<action_map, metrics_map, cookies, procs, recycled, runs>>

\* SetAction: the address is not IPv4 or the map is full, and Step fails.
SetActionFails(h) ==
  /\ call[h].pc = "action"
  /\ call[h].ip = NoIp \/ ~HasRoom(action_map, call[h].ip, MaxActions)
  /\ Reply(h)
  /\ UNCHANGED <<lastCommand, action_map, metrics_map, cookies, procs, recycled, runs>>

\* Handler h has installed its action.
Installed(h) ==
  call' = [g \in Handler |->
             IF g = h THEN [call[h] EXCEPT !.pc = "start"]
             ELSE [call[g] EXCEPT
                     !.overtaken = @ \/ /\ call[g].kind = "step"
                                        /\ call[g].pc # "action"
                                        /\ call[g].ip = call[h].ip]]

\* Faulty SetAction: an entry is made but never replaced.
SetActionOnce(h) ==
  /\ call[h].pc = "action"
  /\ call[h].ip # NoIp
  /\ HasRoom(action_map, call[h].ip, MaxActions)
  /\ action_map' = IF call[h].ip \in DOMAIN action_map THEN action_map
                   ELSE Set(action_map, call[h].ip, call[h].act)
  /\ Installed(h)
  /\ UNCHANGED <<lastCommand, metrics_map, cookies, procs, recycled, runs>>

SetAction(h) ==
  /\ call[h].pc = "action"
  /\ call[h].ip # NoIp
  /\ HasRoom(action_map, call[h].ip, MaxActions)
  /\ action_map' = Set(action_map, call[h].ip, call[h].act)
  /\ Installed(h)
  /\ UNCHANGED <<lastCommand, metrics_map, cookies, procs, recycled, runs>>

\* Faulty StartCommand: the process id is kept in the executor, which all
\* handlers share.
StartCommandShared(h, p) ==
  /\ call[h].pc = "start"
  /\ lastCommand.len # NoCmd
  /\ Spawn(p, h, lastCommand)
  /\ call' = [g \in Handler |->
       IF g = h
       THEN [call[h] EXCEPT !.pc = "wait", !.pid = p, !.run = runs + 1]
       ELSE [call[g] EXCEPT !.pid = p]]
  /\ UNCHANGED <<lastCommand, action_map, metrics_map, cookies>>

\* Run up to cmd.Start.
StartCommand(h, p) ==
  /\ call[h].pc = "start"
  /\ lastCommand.len # NoCmd
  /\ Spawn(p, h, lastCommand)
  /\ call' = [call EXCEPT ![h].pc = "wait", ![h].pid = p, ![h].run = runs + 1]
  /\ UNCHANGED <<lastCommand, action_map, metrics_map, cookies>>

\* No command is set, or cmd.Start fails: Run returns an error and no process id.
StartFails(h) ==
  /\ call[h].pc = "start"
  /\ Goto(h, "failed")
  /\ UNCHANGED <<lastCommand, action_map, metrics_map, cookies, procs, recycled, runs>>

\* GetMetricForPid finds an entry.
HasMetric(h) == call[h].pid \in DOMAIN metrics_map

\* Reset after Run: a failed run is reported in Success, and so is a successful
\* one with or without an observation.
ResetReply(h) ==
  /\ call[h].kind = "reset"
  /\ call[h].pc \in {"exited", "failed"}
  /\ Reply(h)
  /\ UNCHANGED <<lastCommand, action_map, metrics_map, cookies, procs, recycled, runs>>

\* Step after Run, failed or not: the observation, or the error that there is
\* none.
StepReply(h) ==
  /\ call[h].kind = "step"
  /\ call[h].pc \in {"exited", "failed"}
  /\ Reply(h)
  /\ UNCHANGED <<lastCommand, action_map, metrics_map, cookies, procs, recycled, runs>>

\* The agent's container is restarted: its processes die, its calls fail, and
\* the programs and maps are loaded anew.
Restart ==
  /\ call' = [h \in Handler |-> Idle]
  /\ lastCommand' = [data |-> NoCmd, len |-> NoCmd]
  /\ action_map' = EmptyMap
  /\ metrics_map' = EmptyMap
  /\ cookies' = 0
  /\ procs' = [p \in {q \in DOMAIN procs : procs[q].owner = NoHandler} |->
                 [procs[p] EXCEPT !.tracked = FALSE]]
  /\ recycled' = {}
  /\ UNCHANGED runs

-----------------------------------------------------------------------------

ProcessStep(p) ==
  \/ \E i \in Ip : ConnectCb(p, i)
  \/ ConnectFails(p)
  \/ EstablishedCb(p)
  \/ StateCb(p)
  \/ \E ok \in BOOLEAN : Exit(p, ok)

HandlerStep(h) ==
  \/ RejectCommand(h)
  \/ SetCommand(h)
  \/ CommandStored(h)
  \/ SetActionFails(h)
  \/ SetAction(h)
  \/ \E p \in Pid : StartCommand(h, p)
  \/ StartFails(h)
  \/ ResetReply(h)
  \/ StepReply(h)

Receive(h) ==
  \/ \E c \in Cmd : ReceiveReset(h, c)
  \/ \E i \in Ip \union {NoIp}, a \in Act : ReceiveStep(h, i, a)

Next ==
  \/ \E h \in Handler : Receive(h) \/ HandlerStep(h)
  \/ \E p \in DOMAIN procs : ProcessStep(p)
  \/ \E p \in Pid : OtherProcess(p)
  \/ Restart

Spec == Init /\ [][Next]_vars

-----------------------------------------------------------------------------
(* Properties.                                                             *)

\* A call is answered with an observation, ObservationOf(h).  Entries of
\* metrics_map outlive their process, and a handler looks its own up after its
\* process has ended: when the kernel gives the process id out again meanwhile,
\* one process is taken for the other.  Such ids are excluded.
Answers(h) ==
  /\ call[h].pc \in {"exited", "failed"}
  /\ call[h].kind = "reset" => call[h].pc = "exited"
  /\ HasMetric(h)
  /\ call[h].pid \notin recycled

ObservationOf(h) == metrics_map[call[h].pid]

\* "GetMetricForPid looks up exact metric payload for a specific process ID"
\* (manager.go:93): an observation was measured on the run of its own call,
\* whatever else the agent and the node do at the same time, unless the id was
\* recycled.
ObservationIsOfThisRun ==
  \A h \in Handler : Answers(h) => ObservationOf(h).run = call[h].run

\* "apply eBPF socket tuning and return resulting metrics" (agent.proto:11):
\* numbers measured on a connection to the address a Step has tuned come from
\* a connection with that Step's parameters.  Only another Step for the same
\* address that overtakes this one, between its SetAction and its answer, can
\* take its parameters away (server.go:86).
StepMeasuresItsAction ==
  \A h \in Handler :
    Answers(h) /\ call[h].kind = "step" /\ ~call[h].overtaken =>
      LET obs == ObservationOf(h)
      IN  obs.measured /\ obs.ip = call[h].ip => obs.applied = call[h].act

\* "SetCommand stores the command for the current episode" (executor.go:27):
\* the baseline of a Reset is a run of the command it asked for.
BaselineRunsItsCommand ==
  \A p \in DOMAIN procs :
    LET h == procs[p].owner
    IN  h # NoHandler /\ call[h].kind = "reset" =>
          procs[p].cmd = [data |-> call[h].cmd, len |-> call[h].cmd]

\* "Execute it once as a baseline without specific eBPF parameters."
\* (server.go:36)
BaselineIsUntuned ==
  \A h \in Handler :
    Answers(h) /\ call[h].kind = "reset" => ObservationOf(h).applied = NoAct
=============================================================================
