------------------------------ MODULE MCAgent -------------------------------
(* The agent for TLC.  Handlers, allowed commands, addresses, tuning actions *)
(* and process ids are interchangeable.                                      *)
EXTENDS Agent, TLC

Symmetry ==
  UNION {Permutations(S) : S \in {Handler, Allowed, Ip, Act, Pid}}
=============================================================================
