--------------------------- MODULE MCVaultInstall ---------------------------
(* A small Vault installation for TLC: two folders, two processes. *)
EXTENDS VaultInstall, TLC

Symmetry == Permutations(Process)

\* bound: two commands that change the history, beside recovery and backups.
MaxCommands == 2
TwoCommands == used'.installs + used'.adds <= MaxCommands

SmallNext == Next /\ TwoCommands
SmallSpec == Init /\ [][SmallNext]_vars
=============================================================================
