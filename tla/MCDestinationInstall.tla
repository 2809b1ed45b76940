----------------------- MODULE MCDestinationInstall -----------------------
(* Two entries, two versions of the user's work, two attempts.             *)
EXTENDS DestinationInstall, TLC

CONSTANTS u1, u2, s1, s2

MCUserData == {u1, u2}
MCShells == {s1, s2}

\* Neither the names of the user's versions nor those of the attempts matter.
MCSymmetry == Permutations(MCUserData) \cup Permutations(MCShells)
=============================================================================
