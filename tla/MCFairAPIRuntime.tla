-------------------------- MODULE MCFairAPIRuntime --------------------------
(***************************************************************************)
(* A small instance of FairAPIRuntime, with the history of RoundRobin.     *)
(***************************************************************************)
EXTENDS RoundRobin, TLC

CONSTANTS big, small

MCSize == (big :> 3) @@ (small :> 2)
=============================================================================
