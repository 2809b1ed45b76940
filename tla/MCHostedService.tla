-------------------------- MODULE MCHostedService ---------------------------
(***************************************************************************)
(* Two uploads over two keys, each with its own bytes or with the same.    *)
(***************************************************************************)
EXTENDS HostedService, TLC

Symmetry == Permutations(Reservations) \cup Permutations(Keys)
            \cup Permutations(Encryptions)
=============================================================================
