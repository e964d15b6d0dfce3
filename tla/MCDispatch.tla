----------------------------- MODULE MCDispatch -----------------------------
(* The router and its agents for TLC.  Dialable addresses, clients, handlers *)
(* and commands are interchangeable.                                         *)
EXTENDS Dispatch, TLC

Symmetry ==
  UNION {Permutations(S) : S \in {Addr \ Undialable, Client, Handler, Cmd}}
=============================================================================
