----------------------------- MODULE AgentProofs ----------------------------
(***************************************************************************)
(* Theorems about one agent, for every number of handlers, processes,      *)
(* addresses and commands and every size of the maps.                      *)
(***************************************************************************)
EXTENDS Agent, FiniteSetTheorems, TLAPS

FiniteMaps ==
  IsFiniteSet(DOMAIN action_map) /\ IsFiniteSet(DOMAIN metrics_map)

\* A Step has an action to install, and a Reset that stores a command has found
\* its hash on the list.
Checked(c) ==
  /\ c.pc = "action" => c.act \in Act
  /\ c.pc \in {"command_data", "command_len"} => c.cmd \in Allowed

InputChecked == \A h \in Handler : Checked(call[h])

\* A call has a process id only after it has started its process.
PidAfterStart ==
  \A h \in Handler :
    call[h].pid = NoPid \/ call[h].pc \in {"wait", "exited", "failed"}

\* The process of a handler is the one it waits for.
OwnerWaits ==
  \A p \in DOMAIN procs : \A h \in Handler :
    procs[p].owner = h => call[h].pc = "wait" /\ call[h].pid = p

\* The process id of a call means its own run, to the kernel and in metrics_map,
\* unless it was recycled.
PidMeansRun ==
  \A h \in Handler : \A p \in Pid \ recycled :
    call[h].pid = p =>
      /\ p \in DOMAIN procs => procs[p].run = call[h].run
      /\ p \in DOMAIN metrics_map => metrics_map[p].run = call[h].run

\* The entry of a process with a socket is about that socket's address.
EntryOfSocket ==
  \A p \in DOMAIN procs :
    procs[p].sock # "none" /\ p \in DOMAIN metrics_map =>
      metrics_map[p].ip = procs[p].ip

\* A Step whose action is installed and was not replaced.
Tuning(h) ==
  call[h].kind = "step" /\ call[h].pc # "action" /\ ~call[h].overtaken

ActionInstalled ==
  \A h \in Handler :
    Tuning(h) =>
      call[h].ip \in DOMAIN action_map /\ action_map[call[h].ip] = call[h].act

\* A connection to the tuned address has the parameters of the Step.
SocketTuned ==
  \A h \in Handler : \A p \in DOMAIN procs :
    /\ Tuning(h) /\ call[h].pid = p /\ p \notin recycled
    /\ procs[p].sock = "established" /\ procs[p].ip = call[h].ip
    => procs[p].applied = call[h].act

\* So do the numbers measured on it.
EntryTuned ==
  \A h \in Handler : \A p \in DOMAIN metrics_map :
    /\ Tuning(h) /\ call[h].pid = p /\ p \notin recycled
    /\ metrics_map[p].measured /\ metrics_map[p].ip = call[h].ip
    => metrics_map[p].applied = call[h].act

\* The inductive invariant.
AgentInv ==
  /\ TypeOK
  /\ FiniteMaps
  /\ InputChecked
  /\ PidAfterStart
  /\ OwnerWaits
  /\ PidMeansRun
  /\ EntryOfSocket
  /\ ActionInstalled
  /\ SocketTuned
  /\ EntryTuned

-----------------------------------------------------------------------------
(* Records and maps.                                                       *)

CallPc == {"idle", "command", "command_data", "command_len", "action", "start",
           "wait", "exited", "failed"}

LEMMA IdleCall ==
  /\ Idle \in Call
  /\ Idle.pc = "idle" /\ Idle.kind = "reset" /\ Idle.pid = NoPid
<1>1. FALSE \in BOOLEAN /\ 0 \in 0 .. MaxRuns
  BY AgentAssumption
<1>2. QED
  BY <1>1 DEF Idle, Call

\* A call with another pc.
LEMMA CallAt ==
  ASSUME NEW c \in Call, NEW pc \in CallPc
  PROVE  LET d == [c EXCEPT !.pc = pc]
         IN  /\ d \in Call /\ d.pc = pc
             /\ d.kind = c.kind /\ d.cmd = c.cmd /\ d.ip = c.ip /\ d.act = c.act
             /\ d.pid = c.pid /\ d.run = c.run /\ d.overtaken = c.overtaken
BY DEF Call, CallPc

\* Set makes or replaces one entry.
LEMMA SetEntry ==
  ASSUME NEW map, NEW key, NEW val
  PROVE  /\ DOMAIN Set(map, key, val) = DOMAIN map \union {key}
         /\ Set(map, key, val)[key] = val
         /\ \A k \in DOMAIN map : k # key => Set(map, key, val)[k] = map[k]
BY DEF Set

\* A map with room for a key stays within its limit.
LEMMA SetBounded ==
  ASSUME NEW map, NEW key, NEW val, NEW max \in Nat, IsFiniteSet(DOMAIN map),
         Cardinality(DOMAIN map) <= max, HasRoom(map, key, max)
  PROVE  /\ IsFiniteSet(DOMAIN Set(map, key, val))
         /\ Cardinality(DOMAIN Set(map, key, val)) <= max
<1>1. DOMAIN Set(map, key, val) = DOMAIN map \union {key}
  BY SetEntry
<1>2. /\ IsFiniteSet(DOMAIN map \union {key})
      /\ Cardinality(DOMAIN map \union {key}) =
           IF key \in DOMAIN map THEN Cardinality(DOMAIN map)
           ELSE Cardinality(DOMAIN map) + 1
  BY FS_AddElement
<1>3. Cardinality(DOMAIN map) \in Nat
  BY FS_CardinalityType
<1>4. QED
  BY <1>1, <1>2, <1>3 DEF HasRoom

-----------------------------------------------------------------------------
(* The invariant.                                                          *)

LEMMA InitAgent == Init => AgentInv
<1> SUFFICES ASSUME Init
             PROVE  AgentInv
  OBVIOUS
<1>1. DOMAIN action_map = {} /\ DOMAIN metrics_map = {} /\ DOMAIN procs = {}
  BY DEF Init, EmptyMap
<1>2. IsFiniteSet({}) /\ Cardinality({}) = 0
  BY FS_EmptySet
<1>3. call \in [Handler -> Call] /\ \A h \in Handler : call[h] = Idle
  BY IdleCall DEF Init
<1>4. {MaxActions, MaxMetrics, MaxCookies, MaxRuns} \subseteq Nat
  BY AgentAssumption
<1>5. lastCommand \in TwoWords
  BY DEF Init, TwoWords
<1>6. TypeOK
  BY <1>1, <1>2, <1>3, <1>4, <1>5 DEF Init, TypeOK, TwoWords
<1>7. FiniteMaps /\ OwnerWaits /\ EntryOfSocket
  BY <1>1, <1>2 DEF FiniteMaps, OwnerWaits, EntryOfSocket
<1>8. /\ InputChecked /\ PidAfterStart /\ PidMeansRun
      /\ ActionInstalled /\ SocketTuned /\ EntryTuned
  BY <1>1, <1>3, IdleCall, AgentAssumption
  DEF InputChecked, Checked, PidAfterStart, PidMeansRun, ActionInstalled, SocketTuned,
      EntryTuned, Tuning
<1>9. QED
  BY <1>6, <1>7, <1>8 DEF AgentInv

\* A handler that has no process moves, and leaves the maps and the processes
\* alone.
LEMMA CallStepInv ==
  ASSUME AgentInv, NEW h \in Handler, NEW c \in Call,
         call[h].pc # "wait", c.pid = NoPid, Checked(c),
         c.kind = "step" /\ c.pc # "action" /\ ~c.overtaken =>
           Tuning(h) /\ c.ip = call[h].ip /\ c.act = call[h].act,
         call' = [call EXCEPT ![h] = c],
         lastCommand' \in TwoWords,
         UNCHANGED <<action_map, metrics_map, cookies, procs, recycled, runs>>
  PROVE  AgentInv'
<1>1. /\ call \in [Handler -> Call] /\ call' \in [Handler -> Call]
      /\ call'[h] = c
      /\ \A g \in Handler : g # h => call'[g] = call[g]
  BY DEF AgentInv, TypeOK
<1>2. TypeOK'
  BY <1>1 DEF AgentInv, TypeOK, TwoWords
<1>3. FiniteMaps' /\ InputChecked' /\ PidAfterStart'
  BY <1>1 DEF AgentInv, FiniteMaps, InputChecked, PidAfterStart
<1>4. OwnerWaits'
  BY <1>1 DEF AgentInv, OwnerWaits
<1>5. PidMeansRun' /\ EntryOfSocket'
  BY <1>1, AgentAssumption DEF AgentInv, PidMeansRun, EntryOfSocket
<1>6. \A g \in Handler : Tuning(g)' =>
        /\ Tuning(g) /\ call'[g].ip = call[g].ip /\ call'[g].act = call[g].act
        /\ call'[g].pid \in {NoPid, call[g].pid}
  BY <1>1 DEF Tuning
<1>7. ActionInstalled'
  BY <1>6 DEF AgentInv, ActionInstalled
<1>8. SocketTuned'
  BY <1>6, AgentAssumption DEF AgentInv, TypeOK, SocketTuned
<1>9. EntryTuned'
  BY <1>6, AgentAssumption DEF AgentInv, TypeOK, EntryTuned
<1>10. QED
  BY <1>2, <1>3, <1>4, <1>5, <1>7, <1>8, <1>9 DEF AgentInv

\* The steps of a handler before it starts its process and when it answers.
LEMMA ReceiveInv ==
  ASSUME AgentInv, NEW h \in Handler, Receive(h)
  PROVE  AgentInv'
<1>1. ASSUME NEW c \in Cmd, ReceiveReset(h, c)
      PROVE  AgentInv'
  <2>. DEFINE d == [Idle EXCEPT !.pc = "command", !.kind = "reset", !.cmd = c]
  <2>1. d \in Call /\ d.pid = NoPid /\ d.kind = "reset" /\ d.pc = "command"
    BY IdleCall DEF Idle, Call
  <2>2. /\ call[h].pc # "wait" /\ call' = [call EXCEPT ![h] = d]
        /\ UNCHANGED <<lastCommand, action_map, metrics_map, cookies, procs, recycled, runs>>
    BY <1>1 DEF ReceiveReset
  <2>. HIDE DEF d
  <2>3. lastCommand' \in TwoWords
    BY <2>2 DEF AgentInv, TypeOK, TwoWords
  <2>4. Checked(d)
    BY <2>1 DEF Checked
  <2>5. QED
    BY <2>1, <2>2, <2>3, <2>4, CallStepInv
<1>2. ASSUME NEW i \in Ip \union {NoIp}, NEW a \in Act, ReceiveStep(h, i, a)
      PROVE  AgentInv'
  <2>. DEFINE d == [Idle EXCEPT !.pc = "action", !.kind = "step", !.ip = i, !.act = a]
  <2>1. d \in Call /\ d.pid = NoPid /\ d.pc = "action" /\ d.act = a
    BY IdleCall DEF Idle, Call
  <2>2. /\ call[h].pc # "wait" /\ call' = [call EXCEPT ![h] = d]
        /\ UNCHANGED <<lastCommand, action_map, metrics_map, cookies, procs, recycled, runs>>
    BY <1>2 DEF ReceiveStep
  <2>. HIDE DEF d
  <2>3. lastCommand' \in TwoWords
    BY <2>2 DEF AgentInv, TypeOK, TwoWords
  <2>4. Checked(d)
    BY <2>1 DEF Checked
  <2>5. QED
    BY <2>1, <2>2, <2>3, <2>4, CallStepInv
<1>3. QED
  BY <1>1, <1>2 DEF Receive

LEMMA ReplyInv ==
  ASSUME AgentInv, NEW h \in Handler, Reply(h), call[h].pc # "wait",
         UNCHANGED <<lastCommand, action_map, metrics_map, cookies, procs, recycled, runs>>
  PROVE  AgentInv'
<1>1. call' = [call EXCEPT ![h] = Idle]
  BY DEF Reply
<1>2. lastCommand' \in TwoWords
  BY DEF AgentInv, TypeOK, TwoWords
<1>3. Checked(Idle)
  BY IdleCall DEF Checked
<1>4. QED
  BY <1>1, <1>2, <1>3, IdleCall, CallStepInv

LEMMA GotoInv ==
  ASSUME AgentInv, NEW h \in Handler, NEW pc \in CallPc, pc # "action", Goto(h, pc),
         call[h].pc \in {"command", "command_data", "command_len", "start"},
         pc \in {"command_data", "command_len"} => call[h].cmd \in Allowed,
         lastCommand' \in TwoWords,
         UNCHANGED <<action_map, metrics_map, cookies, procs, recycled, runs>>
  PROVE  AgentInv'
<1>. DEFINE c == call[h]  d == [c EXCEPT !.pc = pc]
<1>1. c \in Call
  BY DEF AgentInv, TypeOK
<1>2. /\ d \in Call /\ d.pc = pc /\ d.kind = c.kind /\ d.cmd = c.cmd
      /\ d.ip = c.ip /\ d.act = c.act
      /\ d.pid = c.pid /\ d.overtaken = c.overtaken
  <2>. HIDE DEF c
  <2>1. QED
    BY <1>1, CallAt
<1>3. call' = [call EXCEPT ![h] = d]
  BY DEF Goto
<1>. HIDE DEF d
<1>4. d.pid = NoPid
  BY <1>2 DEF AgentInv, PidAfterStart
<1>5. d.kind = "step" /\ d.pc # "action" /\ ~d.overtaken =>
        Tuning(h) /\ d.ip = call[h].ip /\ d.act = call[h].act
  BY <1>2 DEF Tuning
<1>6. Checked(d)
  BY <1>2 DEF Checked
<1>7. QED
  BY <1>2, <1>3, <1>4, <1>5, <1>6, CallStepInv

LEMMA StoreCommandInv ==
  ASSUME AgentInv, NEW h \in Handler, SetCommand(h) \/ CommandStored(h)
  PROVE  AgentInv'
<1>1. call[h].cmd \in Allowed /\ lastCommand \in TwoWords
  BY DEF AgentInv, TypeOK, InputChecked, Checked, SetCommand, CommandStored
<1>2. \A w \in Allowed :
        /\ [lastCommand EXCEPT !.data = w] \in TwoWords
        /\ [lastCommand EXCEPT !.len = w] \in TwoWords
  BY <1>1 DEF TwoWords
<1>3. lastCommand' \in TwoWords
  BY <1>1, <1>2 DEF SetCommand, CommandStored
<1>4. PICK pc \in {"command_data", "command_len", "start"} : Goto(h, pc)
  BY DEF SetCommand, CommandStored
<1>5. /\ call[h].pc \in {"command", "command_data", "command_len", "start"}
      /\ UNCHANGED <<action_map, metrics_map, cookies, procs, recycled, runs>>
  BY DEF SetCommand, CommandStored
<1>6. pc \in CallPc /\ pc # "action"
  BY DEF CallPc
<1>7. QED
  BY <1>1, <1>3, <1>4, <1>5, <1>6, GotoInv

LEMMA StartFailsInv ==
  ASSUME AgentInv, NEW h \in Handler, StartFails(h)
  PROVE  AgentInv'
<1>1. /\ Goto(h, "failed") /\ call[h].pc = "start" /\ UNCHANGED lastCommand
      /\ UNCHANGED <<action_map, metrics_map, cookies, procs, recycled, runs>>
  BY DEF StartFails
<1>2. lastCommand' \in TwoWords /\ "failed" \in CallPc
  BY <1>1 DEF AgentInv, TypeOK, TwoWords, CallPc
<1>3. QED
  BY <1>1, <1>2, GotoInv

\* SetAction replaces the action of the address and marks the Steps that it
\* overtakes.
LEMMA SetActionInv ==
  ASSUME AgentInv, NEW h \in Handler, SetAction(h)
  PROVE  AgentInv'
<1>1. /\ call[h].pc = "action" /\ call[h].ip # NoIp
      /\ HasRoom(action_map, call[h].ip, MaxActions)
      /\ action_map' = Set(action_map, call[h].ip, call[h].act)
      /\ UNCHANGED <<lastCommand, metrics_map, cookies, procs, recycled, runs>>
  BY DEF SetAction
<1>2. call \in [Handler -> Call]
  BY DEF AgentInv, TypeOK
<1>3. ASSUME NEW g \in Handler
      PROVE  /\ call'[g] \in Call
             /\ call'[g].pc = IF g = h THEN "start" ELSE call[g].pc
             /\ call'[g].kind = call[g].kind /\ call'[g].cmd = call[g].cmd
             /\ call'[g].ip = call[g].ip /\ call'[g].act = call[g].act
             /\ call'[g].pid = call[g].pid /\ call'[g].run = call[g].run
             /\ g # h /\ Tuning(g)' => Tuning(g) /\ call[g].ip # call[h].ip
  <2>1. CASE g = h
    <3>1. call'[g] = [call[g] EXCEPT !.pc = "start"]
      BY <2>1 DEF SetAction, Installed
    <3>2. call[g] \in Call /\ "start" \in CallPc
      BY <1>2 DEF CallPc
    <3>3. QED
      BY <2>1, <3>1, <3>2, CallAt
  <2>2. CASE g # h
    <3>. DEFINE hit == /\ call[g].kind = "step" /\ call[g].pc # "action"
                       /\ call[g].ip = call[h].ip
                b == call[g].overtaken \/ hit
    <3>1. call'[g] = [call[g] EXCEPT !.overtaken = b]
      BY <2>2 DEF SetAction, Installed
    <3>2. b \in BOOLEAN
      OBVIOUS
    <3>3. ~b => ~call[g].overtaken /\ ~hit
      OBVIOUS
    <3>. HIDE DEF b
    <3>4. call[g] \in Call
      BY <1>2
    <3>5. /\ call'[g] \in Call /\ call'[g].overtaken = b
          /\ call'[g].pc = call[g].pc /\ call'[g].kind = call[g].kind
          /\ call'[g].cmd = call[g].cmd
          /\ call'[g].ip = call[g].ip /\ call'[g].act = call[g].act
          /\ call'[g].pid = call[g].pid /\ call'[g].run = call[g].run
      BY <3>1, <3>2, <3>4 DEF Call
    <3>6. Tuning(g)' => Tuning(g) /\ call[g].ip # call[h].ip
      BY <3>3, <3>5 DEF Tuning
    <3>7. QED
      BY <2>2, <3>5, <3>6
  <2>3. QED
    BY <2>1, <2>2
<1>4. call' \in [Handler -> Call]
  <2>1. call' = [g \in Handler |-> call'[g]]
    BY DEF SetAction, Installed
  <2>2. QED
    BY <1>3, <2>1
<1>5. call[h].ip \in Ip /\ call[h].act \in Act
  BY <1>1, <1>2 DEF Call, AgentInv, InputChecked, Checked
<1>. DEFINE i == call[h].ip  a == call[h].act
<1>6. action_map' = Set(action_map, i, a) /\ HasRoom(action_map, i, MaxActions)
  BY <1>1
<1>7. \A g \in Handler : g # h /\ Tuning(g)' => Tuning(g) /\ call[g].ip # i
  BY <1>3
<1>8. call'[h].ip = i /\ call'[h].act = a /\ i \in Ip /\ a \in Act
  BY <1>3, <1>5
<1>. HIDE DEF i, a
<1>9. /\ DOMAIN action_map' = DOMAIN action_map \union {i}
      /\ action_map'[i] = a
      /\ \A k \in DOMAIN action_map : k # i => action_map'[k] = action_map[k]
  BY <1>6 DEF Set
<1>10. IsFiniteSet(DOMAIN action_map') /\ Cardinality(DOMAIN action_map') <= MaxActions
  <2>1. /\ IsFiniteSet(DOMAIN action_map) /\ Cardinality(DOMAIN action_map) <= MaxActions
        /\ MaxActions \in Nat
    BY AgentAssumption DEF AgentInv, TypeOK, FiniteMaps
  <2>2. QED
    BY <1>6, <2>1, SetBounded
<1>11. TypeOK'
  <2>1. /\ DOMAIN action_map' \subseteq Ip
        /\ \A k \in DOMAIN action_map' : action_map'[k] \in Act
    BY <1>8, <1>9 DEF AgentInv, TypeOK
  <2>2. QED
    BY <1>1, <1>4, <1>10, <2>1 DEF AgentInv, TypeOK
<1>12. FiniteMaps' /\ InputChecked'
  BY <1>1, <1>3, <1>10 DEF AgentInv, FiniteMaps, InputChecked, Checked
<1>13. call[h].pid = NoPid
  BY <1>1 DEF AgentInv, PidAfterStart
<1>14. PidAfterStart' /\ OwnerWaits' /\ PidMeansRun' /\ EntryOfSocket'
  <2>1. PidAfterStart'
    BY <1>3, <1>13 DEF AgentInv, PidAfterStart
  <2>2. OwnerWaits'
    BY <1>1, <1>3 DEF AgentInv, OwnerWaits
  <2>3. PidMeansRun' /\ EntryOfSocket'
    BY <1>1, <1>3 DEF AgentInv, PidMeansRun, EntryOfSocket
  <2>4. QED
    BY <2>1, <2>2, <2>3
<1>15. ActionInstalled'
  BY <1>3, <1>7, <1>8, <1>9 DEF AgentInv, ActionInstalled
<1>16. SocketTuned'
  <2> SUFFICES ASSUME NEW g \in Handler, NEW p \in DOMAIN procs,
                      Tuning(g)', call'[g].pid = p, p \notin recycled,
                      procs[p].sock = "established", procs[p].ip = call'[g].ip
               PROVE  procs[p].applied = call'[g].act
    BY <1>1 DEF SocketTuned
  <2>1. g # h
    BY <1>3, <1>13, AgentAssumption DEF AgentInv, TypeOK
  <2>2. Tuning(g)
    BY <1>7, <2>1
  <2>3. QED
    BY <1>3, <2>2 DEF AgentInv, SocketTuned
<1>17. EntryTuned'
  <2> SUFFICES ASSUME NEW g \in Handler, NEW p \in DOMAIN metrics_map,
                      Tuning(g)', call'[g].pid = p, p \notin recycled,
                      metrics_map[p].measured, metrics_map[p].ip = call'[g].ip
               PROVE  metrics_map[p].applied = call'[g].act
    BY <1>1 DEF EntryTuned
  <2>1. g # h
    BY <1>3, <1>13, AgentAssumption DEF AgentInv, TypeOK
  <2>2. Tuning(g)
    BY <1>7, <2>1
  <2>3. QED
    BY <1>3, <2>2 DEF AgentInv, EntryTuned
<1>18. QED
  BY <1>11, <1>12, <1>14, <1>15, <1>16, <1>17 DEF AgentInv

-----------------------------------------------------------------------------
(* Processes.                                                              *)

\* A process id that is not recycled is new to the maps and to the handlers.
LEMMA SpawnFacts ==
  ASSUME AgentInv, NEW p \in Pid, NEW owner \in Handler \union {NoHandler},
         NEW cmd \in TwoWords, Spawn(p, owner, cmd)
  PROVE  /\ runs' = runs + 1 /\ runs' \in 1 .. MaxRuns
         /\ p \notin DOMAIN procs
         /\ DOMAIN procs' = DOMAIN procs \union {p}
         /\ \A q \in DOMAIN procs : procs'[q] = procs[q]
         /\ procs'[p] \in Process
         /\ procs'[p].owner = owner /\ procs'[p].run = runs + 1
         /\ procs'[p].sock = "none"
         /\ recycled \subseteq recycled' /\ recycled' \subseteq recycled \union {p}
         /\ p \notin recycled' =>
              p \notin DOMAIN metrics_map /\ \A h \in Handler : call[h].pid # p
<1>. DEFINE new == [owner |-> owner, run |-> runs + 1, cmd |-> cmd, sock |-> "none",
                    ip |-> NoIp, applied |-> NoAct, tracked |-> FALSE]
<1>1. /\ runs' = runs + 1 /\ runs' \in 1 .. MaxRuns /\ p \notin DOMAIN procs
  BY AgentAssumption DEF Spawn, AgentInv, TypeOK
<1>2. new \in Process
  <2>1. FALSE \in BOOLEAN /\ runs + 1 \in 1 .. MaxRuns
    BY <1>1
  <2>2. QED
    BY <2>1 DEF Process, TwoWords
<1>3. new.owner = owner /\ new.run = runs + 1 /\ new.sock = "none"
  OBVIOUS
<1>4. procs' = Set(procs, p, new)
  BY DEF Spawn
<1>. HIDE DEF new
<1>5. /\ DOMAIN procs' = DOMAIN procs \union {p} /\ procs'[p] = new
      /\ \A q \in DOMAIN procs : procs'[q] = procs[q]
  BY <1>1, <1>4 DEF Set
<1>6. /\ recycled \subseteq recycled' /\ recycled' \subseteq recycled \union {p}
      /\ p \notin recycled' =>
           p \notin DOMAIN metrics_map /\ \A h \in Handler : call[h].pid # p
  BY DEF Spawn
<1>7. QED
  BY <1>1, <1>2, <1>3, <1>5, <1>6

LEMMA OtherProcessInv ==
  ASSUME AgentInv, NEW p \in Pid, OtherProcess(p)
  PROVE  AgentInv'
<1>1. UNCHANGED <<call, lastCommand, action_map, metrics_map, cookies>>
  BY DEF OtherProcess, agentVars
<1>2. /\ runs' \in 1 .. MaxRuns
      /\ p \notin DOMAIN procs
      /\ DOMAIN procs' = DOMAIN procs \union {p}
      /\ \A q \in DOMAIN procs : procs'[q] = procs[q]
      /\ procs'[p] \in Process
      /\ procs'[p].owner = NoHandler /\ procs'[p].sock = "none"
      /\ recycled \subseteq recycled' /\ recycled' \subseteq recycled \union {p}
      /\ p \notin recycled' => \A h \in Handler : call[h].pid # p
  <2>. DEFINE none == [data |-> NoCmd, len |-> NoCmd]
  <2>1. none \in TwoWords
    BY DEF TwoWords
  <2>2. Spawn(p, NoHandler, none)
    BY DEF OtherProcess
  <2>. HIDE DEF none
  <2>3. QED
    BY <2>1, <2>2, SpawnFacts
<1>3. TypeOK'
  BY <1>1, <1>2 DEF AgentInv, TypeOK
<1>4. FiniteMaps' /\ InputChecked' /\ PidAfterStart' /\ ActionInstalled'
  BY <1>1 DEF AgentInv, FiniteMaps, InputChecked, PidAfterStart, ActionInstalled, Tuning
<1>5. OwnerWaits'
  BY <1>1, <1>2, AgentAssumption DEF AgentInv, OwnerWaits
<1>6. PidMeansRun'
  BY <1>1, <1>2 DEF AgentInv, PidMeansRun
<1>7. EntryOfSocket'
  BY <1>1, <1>2 DEF AgentInv, EntryOfSocket
<1>8. SocketTuned'
  BY <1>1, <1>2 DEF AgentInv, SocketTuned, Tuning
<1>9. EntryTuned'
  BY <1>1, <1>2 DEF AgentInv, EntryTuned, Tuning
<1>10. QED
  BY <1>3, <1>4, <1>5, <1>6, <1>7, <1>8, <1>9 DEF AgentInv

LEMMA StartCommandInv ==
  ASSUME AgentInv, NEW h \in Handler, NEW p \in Pid, StartCommand(h, p)
  PROVE  AgentInv'
<1>1. /\ call[h].pc = "start" /\ Spawn(p, h, lastCommand)
      /\ call' = [call EXCEPT ![h].pc = "wait", ![h].pid = p, ![h].run = runs + 1]
      /\ UNCHANGED <<lastCommand, action_map, metrics_map, cookies>>
  BY DEF StartCommand
<1>2. lastCommand \in TwoWords /\ call \in [Handler -> Call]
  BY DEF AgentInv, TypeOK, TwoWords
<1>3. /\ runs' = runs + 1 /\ runs' \in 1 .. MaxRuns
      /\ p \notin DOMAIN procs
      /\ DOMAIN procs' = DOMAIN procs \union {p}
      /\ \A q \in DOMAIN procs : procs'[q] = procs[q]
      /\ procs'[p] \in Process
      /\ procs'[p].owner = h /\ procs'[p].run = runs + 1
      /\ procs'[p].sock = "none"
      /\ recycled \subseteq recycled' /\ recycled' \subseteq recycled \union {p}
      /\ p \notin recycled' =>
           p \notin DOMAIN metrics_map /\ \A g \in Handler : call[g].pid # p
  BY <1>1, <1>2, SpawnFacts
<1>4. /\ call' \in [Handler -> Call]
      /\ \A g \in Handler : g # h => call'[g] = call[g]
      /\ call'[h].pc = "wait" /\ call'[h].pid = p /\ call'[h].run = runs + 1
      /\ call'[h].kind = call[h].kind /\ call'[h].ip = call[h].ip
      /\ call'[h].act = call[h].act /\ call'[h].overtaken = call[h].overtaken
  <2>. DEFINE c == call[h]
              d == [c EXCEPT !.pc = "wait", !.pid = p, !.run = runs + 1]
  <2>1. c \in Call /\ runs + 1 \in 0 .. MaxRuns
    BY <1>2, <1>3
  <2>2. call' = [call EXCEPT ![h] = d]
    BY <1>1
  <2>3. /\ d \in Call /\ d.pc = "wait" /\ d.pid = p /\ d.run = runs + 1
        /\ d.kind = c.kind /\ d.ip = c.ip /\ d.act = c.act /\ d.overtaken = c.overtaken
    <3>. HIDE DEF c
    <3>1. QED
      BY <2>1 DEF Call
  <2>. HIDE DEF d
  <2>4. QED
    BY <1>2, <2>2, <2>3
<1>5. \A g \in Handler : Tuning(g)' => Tuning(g)
  BY <1>1, <1>4 DEF Tuning
<1>6. TypeOK'
  BY <1>1, <1>3, <1>4 DEF AgentInv, TypeOK
<1>7. FiniteMaps' /\ InputChecked' /\ PidAfterStart'
  BY <1>1, <1>4 DEF AgentInv, FiniteMaps, InputChecked, Checked, PidAfterStart
<1>8. OwnerWaits'
  BY <1>1, <1>3, <1>4 DEF AgentInv, OwnerWaits
<1>9. PidMeansRun'
  <2> SUFFICES ASSUME NEW g \in Handler, NEW q \in Pid \ recycled', call'[g].pid = q
               PROVE  /\ q \in DOMAIN procs' => procs'[q].run = call'[g].run
                      /\ q \in DOMAIN metrics_map => metrics_map[q].run = call'[g].run
    BY <1>1 DEF PidMeansRun
  <2>1. CASE g = h
    BY <1>3, <1>4, <2>1
  <2>2. CASE g # h
    <3>1. q # p /\ q \notin recycled /\ call[g].pid = q /\ call'[g] = call[g]
      BY <1>3, <1>4, <2>2
    <3>2. QED
      BY <1>3, <3>1 DEF AgentInv, PidMeansRun
  <2>3. QED
    BY <2>1, <2>2
<1>10. EntryOfSocket'
  BY <1>1, <1>3 DEF AgentInv, EntryOfSocket
<1>11. ActionInstalled'
  BY <1>1, <1>4, <1>5 DEF AgentInv, ActionInstalled
<1>12. SocketTuned'
  BY <1>3, <1>4, <1>5 DEF AgentInv, SocketTuned
<1>13. EntryTuned'
  BY <1>1, <1>3, <1>4, <1>5 DEF AgentInv, EntryTuned
<1>14. QED
  BY <1>6, <1>7, <1>8, <1>9, <1>10, <1>11, <1>12, <1>13 DEF AgentInv

\* update_metrics of an established socket: the entry stays that of its run and
\* its address, and gets the parameters the socket was tuned with.
LEMMA UpdateMetricsFacts ==
  ASSUME AgentInv, NEW p \in DOMAIN procs, procs[p].sock = "established",
         UpdateMetrics(p)
  PROVE  /\ DOMAIN metrics_map' = DOMAIN metrics_map
         /\ \A q \in DOMAIN metrics_map :
              /\ metrics_map'[q] \in Metrics
              /\ metrics_map'[q].run = metrics_map[q].run
              /\ metrics_map'[q].ip = metrics_map[q].ip
              /\ q # p => metrics_map'[q] = metrics_map[q]
         /\ \A h \in Handler : \A q \in DOMAIN metrics_map :
              /\ Tuning(h) /\ call[h].pid = q /\ q \notin recycled
              /\ metrics_map'[q].measured /\ metrics_map'[q].ip = call[h].ip
              => metrics_map'[q].applied = call[h].act
<1>1. CASE procs[p].tracked /\ p \in DOMAIN metrics_map
  <2>. DEFINE m == metrics_map[p]  a == procs[p].applied
              n == [m EXCEPT !.measured = TRUE, !.applied = a]
  <2>1. m \in Metrics /\ a \in Act \union {NoAct}
    BY <1>1 DEF AgentInv, TypeOK, Process
  <2>2. metrics_map' = [metrics_map EXCEPT ![p] = n]
    BY <1>1 DEF UpdateMetrics
  <2>3. n \in Metrics /\ n.run = m.run /\ n.ip = m.ip /\ n.applied = a
    <3>. HIDE DEF m, a
    <3>1. TRUE \in BOOLEAN
      OBVIOUS
    <3>2. QED
      BY <2>1, <3>1 DEF Metrics
  <2>. HIDE DEF n
  <2>4. /\ DOMAIN metrics_map' = DOMAIN metrics_map
        /\ metrics_map'[p] = n
        /\ \A q \in DOMAIN metrics_map : q # p => metrics_map'[q] = metrics_map[q]
    BY <1>1, <2>2
  <2>5. /\ \A q \in DOMAIN metrics_map :
             /\ metrics_map'[q] \in Metrics
             /\ metrics_map'[q].run = metrics_map[q].run
             /\ metrics_map'[q].ip = metrics_map[q].ip
    BY <2>3, <2>4 DEF AgentInv, TypeOK
  <2>6. ASSUME NEW h \in Handler, NEW q \in DOMAIN metrics_map,
               Tuning(h), call[h].pid = q, q \notin recycled,
               metrics_map'[q].measured, metrics_map'[q].ip = call[h].ip
        PROVE  metrics_map'[q].applied = call[h].act
    <3>1. CASE q = p
      <4>1. procs[p].ip = call[h].ip
        BY <1>1, <2>5, <2>6, <3>1 DEF AgentInv, EntryOfSocket
      <4>2. procs[p].applied = call[h].act
        BY <2>6, <3>1, <4>1 DEF AgentInv, SocketTuned
      <4>3. QED
        BY <2>3, <2>4, <3>1, <4>2
    <3>2. CASE q # p
      BY <2>4, <2>6, <3>2 DEF AgentInv, EntryTuned
    <3>3. QED
      BY <3>1, <3>2
  <2>7. QED
    BY <2>4, <2>5, <2>6
<1>2. CASE ~(procs[p].tracked /\ p \in DOMAIN metrics_map)
  <2>1. metrics_map' = metrics_map
    BY <1>2 DEF UpdateMetrics
  <2>2. QED
    BY <2>1 DEF AgentInv, TypeOK, EntryTuned
<1>3. QED
  BY <1>1, <1>2

\* Every step of a process that updates its entry, or does not, and leaves the
\* entries as UpdateMetricsFacts says.
LEMMA StateCbInv ==
  ASSUME AgentInv, NEW p \in DOMAIN procs, StateCb(p)
  PROVE  AgentInv'
<1>1. /\ procs[p].sock = "established" /\ UpdateMetrics(p)
      /\ UNCHANGED <<call, lastCommand, action_map, cookies, procs, recycled, runs>>
  BY DEF StateCb
<1>2. /\ DOMAIN metrics_map' = DOMAIN metrics_map
      /\ \A q \in DOMAIN metrics_map :
           /\ metrics_map'[q] \in Metrics
           /\ metrics_map'[q].run = metrics_map[q].run
           /\ metrics_map'[q].ip = metrics_map[q].ip
      /\ \A h \in Handler : \A q \in DOMAIN metrics_map :
           /\ Tuning(h) /\ call[h].pid = q /\ q \notin recycled
           /\ metrics_map'[q].measured /\ metrics_map'[q].ip = call[h].ip
           => metrics_map'[q].applied = call[h].act
  BY <1>1, UpdateMetricsFacts
<1>3. TypeOK'
  BY <1>1, <1>2 DEF AgentInv, TypeOK
<1>4. /\ FiniteMaps' /\ InputChecked' /\ PidAfterStart' /\ OwnerWaits'
      /\ ActionInstalled' /\ SocketTuned'
  BY <1>1, <1>2
  DEF AgentInv, FiniteMaps, InputChecked, PidAfterStart, OwnerWaits, ActionInstalled,
      SocketTuned, Tuning
<1>5. PidMeansRun' /\ EntryOfSocket'
  BY <1>1, <1>2 DEF AgentInv, PidMeansRun, EntryOfSocket
<1>6. EntryTuned'
  BY <1>1, <1>2 DEF EntryTuned, Tuning
<1>7. QED
  BY <1>3, <1>4, <1>5, <1>6 DEF AgentInv

\* A process ends: its handler goes on, and the id no longer has a process.
LEMMA ExitInv ==
  ASSUME AgentInv, NEW p \in DOMAIN procs, NEW ok \in BOOLEAN, Exit(p, ok)
  PROVE  AgentInv'
<1>1. /\ procs' = Without(procs, p)
      /\ UNCHANGED <<lastCommand, action_map, cookies, recycled, runs>>
  BY DEF Exit
<1>2. /\ DOMAIN procs' = DOMAIN procs \ {p}
      /\ \A q \in DOMAIN procs' : procs'[q] = procs[q]
  BY <1>1 DEF Without
<1>3. /\ DOMAIN metrics_map' = DOMAIN metrics_map
      /\ \A q \in DOMAIN metrics_map :
           /\ metrics_map'[q] \in Metrics
           /\ metrics_map'[q].run = metrics_map[q].run
           /\ metrics_map'[q].ip = metrics_map[q].ip
      /\ \A h \in Handler : \A q \in DOMAIN metrics_map :
           /\ Tuning(h) /\ call[h].pid = q /\ q \notin recycled
           /\ metrics_map'[q].measured /\ metrics_map'[q].ip = call[h].ip
           => metrics_map'[q].applied = call[h].act
  <2>1. CASE procs[p].sock = "established"
    BY <2>1, UpdateMetricsFacts DEF Exit
  <2>2. CASE procs[p].sock # "established"
    BY <2>2 DEF Exit, AgentInv, TypeOK, EntryTuned
  <2>3. QED
    BY <2>1, <2>2
<1>4. ASSUME NEW h \in Handler
      PROVE  /\ call'[h] \in Call
             /\ call'[h].kind = call[h].kind /\ call'[h].cmd = call[h].cmd
             /\ call'[h].ip = call[h].ip /\ call'[h].act = call[h].act
             /\ call'[h].pid = call[h].pid /\ call'[h].run = call[h].run
             /\ call'[h].overtaken = call[h].overtaken
             /\ IF procs[p].owner = h
                THEN call[h].pc = "wait" /\ call'[h].pc \in {"exited", "failed"}
                ELSE call'[h].pc = call[h].pc
  <2>1. call[h] \in Call
    BY DEF AgentInv, TypeOK
  <2>2. CASE procs[p].owner = h
    <3>1. PICK pc \in {"exited", "failed"} : call'[h] = [call[h] EXCEPT !.pc = pc]
      BY <2>2 DEF Exit
    <3>2. pc \in CallPc
      BY DEF CallPc
    <3>3. call[h].pc = "wait"
      BY <2>2 DEF AgentInv, OwnerWaits
    <3>4. QED
      BY <2>1, <2>2, <3>1, <3>2, <3>3, CallAt
  <2>3. CASE procs[p].owner # h
    <3>1. call'[h] = call[h]
      BY <2>3 DEF Exit
    <3>2. QED
      BY <2>1, <2>3, <3>1
  <2>4. QED
    BY <2>2, <2>3
<1>5. call' \in [Handler -> Call]
  <2>1. call' = [h \in Handler |-> call'[h]]
    BY DEF Exit
  <2>2. QED
    BY <1>4, <2>1
<1>6. \A h \in Handler : Tuning(h)' => Tuning(h)
  BY <1>4 DEF Tuning
<1>7. TypeOK'
  BY <1>1, <1>2, <1>3, <1>5 DEF AgentInv, TypeOK
<1>8. FiniteMaps' /\ InputChecked' /\ PidAfterStart'
  BY <1>1, <1>3, <1>4 DEF AgentInv, FiniteMaps, InputChecked, Checked, PidAfterStart
<1>9. OwnerWaits'
  BY <1>2, <1>4 DEF AgentInv, OwnerWaits
<1>10. PidMeansRun' /\ EntryOfSocket'
  BY <1>1, <1>2, <1>3, <1>4 DEF AgentInv, PidMeansRun, EntryOfSocket
<1>11. ActionInstalled'
  BY <1>1, <1>4, <1>6 DEF AgentInv, ActionInstalled
<1>12. SocketTuned'
  BY <1>1, <1>2, <1>4, <1>6 DEF AgentInv, SocketTuned
<1>13. EntryTuned'
  BY <1>1, <1>3, <1>4, <1>6 DEF EntryTuned
<1>14. QED
  BY <1>7, <1>8, <1>9, <1>10, <1>11, <1>12, <1>13 DEF AgentInv

\* A connect makes the entry of the process anew, or finds the map full.
LEMMA ConnectCbInv ==
  ASSUME AgentInv, NEW p \in DOMAIN procs, NEW i \in Ip, ConnectCb(p, i)
  PROVE  AgentInv'
<1>1. UNCHANGED <<call, lastCommand, action_map, recycled, runs>>
  BY DEF ConnectCb
<1>2. /\ DOMAIN procs' = DOMAIN procs
      /\ \A q \in DOMAIN procs : q # p => procs'[q] = procs[q]
      /\ procs'[p] \in Process
      /\ procs'[p].owner = procs[p].owner /\ procs'[p].run = procs[p].run
      /\ procs'[p].sock = "connecting" /\ procs'[p].ip = i
  <2>. DEFINE r == procs[p]  b == cookies < MaxCookies
              n == [r EXCEPT !.sock = "connecting", !.ip = i, !.tracked = b]
  <2>1. r \in Process
    BY DEF AgentInv, TypeOK
  <2>2. b \in BOOLEAN
    OBVIOUS
  <2>3. procs' = [procs EXCEPT ![p] = n]
    BY DEF ConnectCb
  <2>4. /\ n \in Process /\ n.owner = r.owner /\ n.run = r.run
        /\ n.sock = "connecting" /\ n.ip = i
    <3>. HIDE DEF r, b
    <3>1. QED
      BY <2>1, <2>2 DEF Process
  <2>. HIDE DEF n
  <2>5. QED
    BY <2>3, <2>4
<1>3. cookies' \in 0 .. MaxCookies
  BY AgentAssumption DEF ConnectCb, AgentInv, TypeOK
<1>4. /\ IsFiniteSet(DOMAIN metrics_map') /\ Cardinality(DOMAIN metrics_map') <= MaxMetrics
      /\ DOMAIN metrics_map' \subseteq DOMAIN metrics_map \union {p}
      /\ \A q \in DOMAIN metrics_map' :
           q # p => q \in DOMAIN metrics_map /\ metrics_map'[q] = metrics_map[q]
      /\ p \in DOMAIN metrics_map' =>
           /\ metrics_map'[p] \in Metrics
           /\ metrics_map'[p].run = procs[p].run /\ metrics_map'[p].ip = i
           /\ ~metrics_map'[p].measured
  <2>. DEFINE r == procs[p].run
              n == [run |-> r, ip |-> i, applied |-> NoAct, measured |-> FALSE]
  <2>1. n \in Metrics /\ n.run = r /\ n.ip = i
    <3>1. r \in 1 .. MaxRuns /\ FALSE \in BOOLEAN
      BY DEF AgentInv, TypeOK, Process
    <3>. HIDE DEF r
    <3>2. QED
      BY <3>1 DEF Metrics
  <2>2. ~n.measured
    OBVIOUS
  <2>3. metrics_map' = Put(metrics_map, p, n, MaxMetrics)
    BY DEF ConnectCb
  <2>. HIDE DEF n
  <2>4. /\ IsFiniteSet(DOMAIN metrics_map) /\ Cardinality(DOMAIN metrics_map) <= MaxMetrics
        /\ MaxMetrics \in Nat
    BY AgentAssumption DEF AgentInv, TypeOK, FiniteMaps
  <2>5. CASE HasRoom(metrics_map, p, MaxMetrics)
    <3>1. metrics_map' = Set(metrics_map, p, n)
      BY <2>3, <2>5 DEF Put
    <3>2. /\ IsFiniteSet(DOMAIN metrics_map')
          /\ Cardinality(DOMAIN metrics_map') <= MaxMetrics
      BY <2>4, <2>5, <3>1, SetBounded
    <3>3. /\ DOMAIN metrics_map' = DOMAIN metrics_map \union {p}
          /\ metrics_map'[p] = n
          /\ \A q \in DOMAIN metrics_map : q # p => metrics_map'[q] = metrics_map[q]
      BY <3>1 DEF Set
    <3>4. QED
      BY <2>1, <2>2, <3>2, <3>3
  <2>6. CASE ~HasRoom(metrics_map, p, MaxMetrics)
    <3>1. metrics_map' = metrics_map /\ p \notin DOMAIN metrics_map
      BY <2>3, <2>6 DEF Put, HasRoom
    <3>2. QED
      BY <2>4, <3>1
  <2>7. QED
    BY <2>5, <2>6
<1>5. TypeOK'
  <2>1. /\ DOMAIN metrics_map' \subseteq Pid
        /\ \A q \in DOMAIN metrics_map' : metrics_map'[q] \in Metrics
    BY <1>4 DEF AgentInv, TypeOK
  <2>2. DOMAIN procs' \subseteq Pid /\ \A q \in DOMAIN procs' : procs'[q] \in Process
    BY <1>2 DEF AgentInv, TypeOK
  <2>3. QED
    BY <1>1, <1>3, <1>4, <2>1, <2>2 DEF AgentInv, TypeOK
<1>6. FiniteMaps' /\ InputChecked' /\ PidAfterStart' /\ ActionInstalled'
  BY <1>1, <1>4
  DEF AgentInv, FiniteMaps, InputChecked, PidAfterStart, ActionInstalled, Tuning
<1>7. OwnerWaits'
  BY <1>1, <1>2 DEF AgentInv, OwnerWaits
<1>8. PidMeansRun'
  BY <1>1, <1>2, <1>4 DEF AgentInv, PidMeansRun
<1>9. EntryOfSocket'
  BY <1>2, <1>4 DEF AgentInv, EntryOfSocket
<1>10. SocketTuned'
  BY <1>1, <1>2 DEF AgentInv, SocketTuned, Tuning
<1>11. EntryTuned'
  BY <1>1, <1>4 DEF AgentInv, EntryTuned, Tuning
<1>12. QED
  BY <1>5, <1>6, <1>7, <1>8, <1>9, <1>10, <1>11 DEF AgentInv

\* A connection fails or is established; an established one is tuned with the
\* action of its address.
LEMMA SocketInv ==
  ASSUME AgentInv, NEW p \in DOMAIN procs, ConnectFails(p) \/ EstablishedCb(p)
  PROVE  AgentInv'
<1>1. UNCHANGED <<call, lastCommand, action_map, metrics_map, cookies, recycled, runs>>
  BY DEF ConnectFails, EstablishedCb, agentVars
<1>2. /\ DOMAIN procs' = DOMAIN procs
      /\ \A q \in DOMAIN procs : q # p => procs'[q] = procs[q]
      /\ procs'[p] \in Process
      /\ procs'[p].owner = procs[p].owner /\ procs'[p].run = procs[p].run
      /\ procs'[p].ip = procs[p].ip /\ procs[p].sock = "connecting"
      /\ procs'[p].sock = "established" /\ procs[p].ip \in DOMAIN action_map =>
           procs'[p].applied = action_map[procs[p].ip]
  <2>. DEFINE r == procs[p]
  <2>1. r \in Process
    BY DEF AgentInv, TypeOK
  <2>2. CASE ConnectFails(p)
    <3>. DEFINE n == [r EXCEPT !.sock = "none"]
    <3>1. procs' = [procs EXCEPT ![p] = n] /\ r.sock = "connecting"
      BY <2>2 DEF ConnectFails
    <3>2. n \in Process /\ n.owner = r.owner /\ n.run = r.run /\ n.ip = r.ip /\ n.sock = "none"
      <4>. HIDE DEF r
      <4>1. QED
        BY <2>1 DEF Process
    <3>. HIDE DEF n
    <3>3. QED
      BY <3>1, <3>2
  <2>3. CASE EstablishedCb(p)
    <3>. DEFINE a == IF r.ip \in DOMAIN action_map THEN action_map[r.ip] ELSE NoAct
                n == [r EXCEPT !.sock = "established", !.applied = a]
    <3>1. procs' = [procs EXCEPT ![p] = n] /\ r.sock = "connecting"
      BY <2>3 DEF EstablishedCb
    <3>2. /\ a \in Act \union {NoAct}
          /\ r.ip \in DOMAIN action_map => a = action_map[r.ip]
      BY DEF AgentInv, TypeOK
    <3>3. /\ n \in Process /\ n.owner = r.owner /\ n.run = r.run /\ n.ip = r.ip
          /\ n.applied = a
      <4>. HIDE DEF r, a
      <4>1. QED
        BY <2>1, <3>2 DEF Process
    <3>. HIDE DEF n, a
    <3>4. QED
      BY <3>1, <3>2, <3>3
  <2>4. QED
    BY <2>2, <2>3
<1>3. TypeOK'
  <2>1. DOMAIN procs' \subseteq Pid /\ \A q \in DOMAIN procs' : procs'[q] \in Process
    BY <1>2 DEF AgentInv, TypeOK
  <2>2. QED
    BY <1>1, <2>1 DEF AgentInv, TypeOK
<1>4. FiniteMaps' /\ InputChecked' /\ PidAfterStart' /\ ActionInstalled'
  BY <1>1
  DEF AgentInv, FiniteMaps, InputChecked, PidAfterStart, ActionInstalled, Tuning
<1>5. OwnerWaits' /\ PidMeansRun'
  BY <1>1, <1>2 DEF AgentInv, OwnerWaits, PidMeansRun
<1>6. EntryOfSocket'
  BY <1>1, <1>2 DEF AgentInv, EntryOfSocket
<1>7. SocketTuned'
  <2> SUFFICES ASSUME NEW h \in Handler, NEW q \in DOMAIN procs,
                      Tuning(h), call[h].pid = q, q \notin recycled,
                      procs'[q].sock = "established", procs'[q].ip = call[h].ip
               PROVE  procs'[q].applied = call[h].act
    BY <1>1, <1>2 DEF SocketTuned, Tuning
  <2>1. CASE q = p
    BY <1>2, <2>1 DEF AgentInv, ActionInstalled
  <2>2. CASE q # p
    BY <1>2, <2>2 DEF AgentInv, SocketTuned
  <2>3. QED
    BY <2>1, <2>2
<1>8. EntryTuned'
  BY <1>1 DEF AgentInv, EntryTuned, Tuning
<1>9. QED
  BY <1>3, <1>4, <1>5, <1>6, <1>7, <1>8 DEF AgentInv

\* A restart starts from nothing, except for the other processes of the node.
LEMMA RestartInv ==
  ASSUME AgentInv, Restart
  PROVE  AgentInv'
<1>1. DOMAIN action_map' = {} /\ DOMAIN metrics_map' = {}
  BY DEF Restart, EmptyMap
<1>2. IsFiniteSet({}) /\ Cardinality({}) = 0
  BY FS_EmptySet
<1>3. call' \in [Handler -> Call] /\ \A h \in Handler : call'[h] = Idle
  BY IdleCall DEF Restart
<1>4. lastCommand' \in TwoWords
  BY DEF Restart, TwoWords
<1>5. ASSUME NEW p \in DOMAIN procs'
      PROVE  /\ p \in DOMAIN procs /\ procs'[p] \in Process
             /\ procs'[p].owner = NoHandler
  <2>. DEFINE r == procs[p]  n == [r EXCEPT !.tracked = FALSE]
  <2>1. p \in DOMAIN procs /\ r.owner = NoHandler /\ procs'[p] = n
    BY DEF Restart
  <2>2. r \in Process /\ FALSE \in BOOLEAN
    BY <2>1 DEF AgentInv, TypeOK
  <2>3. n \in Process /\ n.owner = r.owner
    <3>. HIDE DEF r
    <3>1. QED
      BY <2>2 DEF Process
  <2>4. QED
    BY <2>1, <2>3
<1>6. TypeOK'
  <2>1. DOMAIN procs' \subseteq Pid /\ \A p \in DOMAIN procs' : procs'[p] \in Process
    BY <1>5 DEF AgentInv, TypeOK
  <2>2. cookies' = 0 /\ recycled' = {} /\ runs' = runs
    BY DEF Restart
  <2>3. {MaxActions, MaxMetrics, MaxCookies, MaxRuns} \subseteq Nat
    BY AgentAssumption
  <2>4. QED
    BY <1>1, <1>2, <1>3, <1>4, <2>1, <2>2, <2>3 DEF AgentInv, TypeOK, TwoWords
<1>7. FiniteMaps' /\ EntryOfSocket'
  BY <1>1, <1>2 DEF FiniteMaps, EntryOfSocket
<1>8. OwnerWaits'
  BY <1>5, AgentAssumption DEF OwnerWaits
<1>9. /\ InputChecked' /\ PidAfterStart' /\ PidMeansRun'
      /\ ActionInstalled' /\ SocketTuned' /\ EntryTuned'
  BY <1>1, <1>3, IdleCall, AgentAssumption
  DEF InputChecked, Checked, PidAfterStart, PidMeansRun, ActionInstalled, SocketTuned,
      EntryTuned, Tuning
<1>10. QED
  BY <1>6, <1>7, <1>8, <1>9 DEF AgentInv

-----------------------------------------------------------------------------

LEMMA NextAgent == AgentInv /\ [Next]_vars => AgentInv'
<1> SUFFICES ASSUME AgentInv, [Next]_vars
             PROVE  AgentInv'
  OBVIOUS
<1>1. ASSUME NEW h \in Handler, HandlerStep(h)
      PROVE  AgentInv'
  <2>1. CASE RejectCommand(h) \/ SetActionFails(h) \/ ResetReply(h) \/ StepReply(h)
    <3>1. /\ Reply(h) /\ call[h].pc # "wait"
          /\ UNCHANGED <<lastCommand, action_map, metrics_map, cookies, procs,
                         recycled, runs>>
      BY <2>1 DEF RejectCommand, SetActionFails, ResetReply, StepReply
    <3>2. QED
      BY <3>1, ReplyInv
  <2>2. CASE SetCommand(h) \/ CommandStored(h)
    BY <2>2, StoreCommandInv
  <2>3. CASE SetAction(h)
    BY <2>3, SetActionInv
  <2>4. CASE \E p \in Pid : StartCommand(h, p)
    BY <2>4, StartCommandInv
  <2>5. CASE StartFails(h)
    BY <2>5, StartFailsInv
  <2>6. QED
    BY <1>1, <2>1, <2>2, <2>3, <2>4, <2>5 DEF HandlerStep
<1>2. ASSUME NEW p \in DOMAIN procs, ProcessStep(p)
      PROVE  AgentInv'
  BY <1>2, ConnectCbInv, SocketInv, StateCbInv, ExitInv DEF ProcessStep
<1>3. CASE UNCHANGED vars
  <2>1. UNCHANGED <<call, lastCommand, action_map, metrics_map, cookies, procs,
                    recycled, runs>>
    BY <1>3 DEF vars, agentVars
  <2>2. QED
    BY <2>1
    DEF AgentInv, TypeOK, FiniteMaps, InputChecked, PidAfterStart, OwnerWaits,
        PidMeansRun, EntryOfSocket, ActionInstalled, SocketTuned, EntryTuned, Tuning
<1>4. QED
  BY <1>1, <1>2, <1>3, ReceiveInv, OtherProcessInv, RestartInv DEF Next

-----------------------------------------------------------------------------
(* Theorems.                                                               *)

\* The variables keep their types: no map grows beyond its max_entries, whatever
\* runs on the node, and overlapping Resets store and run words of allowed
\* commands only (socket_tuner.c:88; executor.go:33-37).
THEOREM AgentTypeCorrect == Spec => []TypeOK
<1>1. AgentInv => TypeOK
  BY DEF AgentInv
<1>2. QED
  BY <1>1, InitAgent, NextAgent, PTL DEF Spec

\* "GetMetricForPid looks up exact metric payload for a specific process ID"
\* (manager.go:93): an observation is of the run of its own call, unless the
\* process id was recycled.
THEOREM AgentObservationIsOfThisRun == Spec => []ObservationIsOfThisRun
<1>1. AgentInv => ObservationIsOfThisRun
  <2> SUFFICES ASSUME AgentInv, NEW h \in Handler, Answers(h)
               PROVE  metrics_map[call[h].pid].run = call[h].run
    BY DEF ObservationIsOfThisRun, ObservationOf
  <2>1. call[h].pid \in DOMAIN metrics_map /\ call[h].pid \notin recycled
    BY DEF Answers, HasMetric
  <2>2. call[h].pid \in Pid
    BY <2>1 DEF AgentInv, TypeOK
  <2>3. QED
    BY <2>1, <2>2 DEF AgentInv, PidMeansRun
<1>2. QED
  BY <1>1, InitAgent, NextAgent, PTL DEF Spec

\* "apply eBPF socket tuning and return resulting metrics" (agent.proto:11):
\* the numbers a Step reports for the address it tuned come from a connection
\* with its parameters, unless another Step for the address overtook it.
THEOREM AgentStepMeasuresItsAction == Spec => []StepMeasuresItsAction
<1>1. AgentInv => StepMeasuresItsAction
  <2> SUFFICES ASSUME AgentInv, NEW h \in Handler, Answers(h),
                      call[h].kind = "step", ~call[h].overtaken,
                      metrics_map[call[h].pid].measured,
                      metrics_map[call[h].pid].ip = call[h].ip
               PROVE  metrics_map[call[h].pid].applied = call[h].act
    BY DEF StepMeasuresItsAction, ObservationOf
  <2>1. call[h].pid \in DOMAIN metrics_map /\ call[h].pid \notin recycled
    BY DEF Answers, HasMetric
  <2>2. Tuning(h)
    BY DEF Answers, Tuning
  <2>3. QED
    BY <2>1, <2>2 DEF AgentInv, EntryTuned
<1>2. QED
  BY <1>1, InitAgent, NextAgent, PTL DEF Spec
=============================================================================
