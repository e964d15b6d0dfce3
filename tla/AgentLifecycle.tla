--------------------------- MODULE AgentLifecycle ---------------------------
(***************************************************************************)
(* What the pool promises about one agent address, whoever calls it and in *)
(* whatever order.  An address is                                          *)
(*   absent    not in the pool                                             *)
(*   idle      in the pool, may be handed to an episode                    *)
(*   leased    locked by an episode                                        *)
(*   draining  locked by an episode, its pod gone from the endpoints       *)
(* and every call of the pool moves the addresses it touches along one of  *)
(* the arrows below.  There is no arrow from leased to absent: an agent    *)
(* whose pod is still listed does not leave the pool under an episode.     *)
(* There is none from draining to idle either: an agent whose pod is gone  *)
(* is not handed to another episode.                                       *)
(***************************************************************************)
CONSTANT Addr

VARIABLE status

Init == status = [a \in Addr |-> "absent"]

\* A pod's address is registered.
Register(a) ==
  /\ status[a] = "absent"
  /\ status' = [status EXCEPT ![a] = "idle"]

\* An episode locks an agent.
Lease(a) ==
  /\ status[a] = "idle"
  /\ status' = [status EXCEPT ![a] = "leased"]

\* The pod of a draining agent is back.
Readmit(a) ==
  /\ status[a] = "draining"
  /\ status' = [status EXCEPT ![a] = "leased"]

\* Episodes end: their agents become available, or leave if they were draining.
EndLeases(S) ==
  /\ \A a \in S : status[a] \in {"leased", "draining"}
  /\ status' = [a \in Addr |->
                  IF a \notin S THEN status[a]
                  ELSE IF status[a] = "leased" THEN "idle" ELSE "absent"]

\* Pods disappear: idle agents leave at once, leased ones drain.
Withdraw(S) ==
  /\ \A a \in S : status[a] \in {"idle", "leased"}
  /\ status' = [a \in Addr |->
                  IF a \notin S THEN status[a]
                  ELSE IF status[a] = "leased" THEN "draining" ELSE "absent"]

Next ==
  \/ \E a \in Addr : Register(a) \/ Lease(a) \/ Readmit(a)
  \/ \E S \in SUBSET Addr : EndLeases(S) \/ Withdraw(S)

Spec == Init /\ [][Next]_status
=============================================================================
