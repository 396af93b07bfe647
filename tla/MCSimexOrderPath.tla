-------------------------- MODULE MCSimexOrderPath --------------------------
(***************************************************************************)
(* Orders of two lots against a limit of four, so that both sides can work *)
(* and executions can be partial.  The capacities are the smallest with    *)
(* which the path never ends the process.                                  *)
(***************************************************************************)
EXTENDS SimexOrderPath
=============================================================================
