----------------------------- MODULE MCHostedRun -----------------------------
(***************************************************************************)
(* Two runs of one Mac and a version of another, two conversations of two  *)
(* messages: a change may add nothing, shorten one or delete one.          *)
(***************************************************************************)
EXTENDS HostedRun, TLC

Symmetry == Permutations(Runs)
TwoMessages == {[t \in Threads |-> 2]}
=============================================================================
