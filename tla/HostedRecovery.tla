--------------------------- MODULE HostedRecovery ---------------------------
(***************************************************************************)
(* Hosted recovery into a folder of its own, once this Mac is paired       *)
(* (HostedPairing): versions, preparation, key and download of             *)
(* vault_hosted_recovery_flow.py, over vault_hosted_disaster_recovery.py   *)
(* and the receiver of vault_remote_recovery.py.  The command line runs    *)
(* the same three operations (cli.py), and nothing keeps it out of the     *)
(* app's folder: two receivers may work in it, and each may be killed.     *)
(*                                                                         *)
(* One published version is recovered.  Its metadata, its sealed manifest  *)
(* and the rest of it (chunks and reference) are items 1 to 3, latest.json *)
(* is item 4.  A file is whole or torn, or still written by a receiver: a  *)
(* hard link to it shows the same bytes.  What the service lists and       *)
(* grants is HostedService's; that a loss of power undoes a directory      *)
(* entry is left out.                                                      *)
(***************************************************************************)
EXTENDS HostedPairing

CONSTANT MaxOperations  \* bound: operations of the command line

ASSUME RecoveryAssumption == MaxOperations \in Nat

VARIABLES folder,    \* "none", "bare", "marked" or "complete": directory and marker
          final,     \* the items, by their names
          partial,   \* the items' .cvdownload names
          twin,      \* items whose two names are one file
          receiver,  \* the two receivers
          imported,  \* the key is in the Keychain
          issued     \* operations of the command line so far

recoveryVars == <<folder, final, partial, twin, receiver, imported, issued>>

Items     == 1..4
Latest    == 4
Receivers == {"app", "cli"}
Away      == [op |-> "none", pc |-> "none", item |-> 0]

RecoveryInit == /\ folder = "none" /\ twin = {}
                /\ final = [i \in Items |-> "none"] /\ partial = [i \in Items |-> "none"]
                /\ receiver = [p \in Receivers |-> Away]
                /\ imported = FALSE /\ issued = 0

Is(p, pc)     == receiver[p].pc = pc
Item(p)       == receiver[p].item
Turns(p, pc)   == receiver' = [receiver EXCEPT ![p].pc = pc]
Written(p, v) == /\ final' = [i \in Items |-> IF final[i] = p THEN v ELSE final[i]]
                 /\ partial' = [i \in Items |-> IF partial[i] = p THEN v ELSE partial[i]]

-----------------------------------------------------------------------------
(* An operation begins. *)

Phase == wizard["recovery"].phase
Wizard(phase) == wizard' = [wizard EXCEPT !["recovery"].phase = phase]

ListVersions == /\ Free /\ Phase \in {"paired", "versions"}
            /\ Wizard("versions")
            /\ UNCHANGED <<registry, durable, doing, minted, account, claims, recoveryVars>>

\* The phase that lets the app begin it.
Before(op) == CASE op = "prepare" -> "versions" [] op = "import" -> "prepared"
                [] OTHER -> "key_verified"
After(op)  == CASE op = "prepare" -> "prepared" [] op = "import" -> "key_verified"
                [] OTHER -> "verified"

\* _prepare_root: a new folder is marked; another one must bear the marker.
Opens(p, op) ==
    /\ \/ /\ folder = "none" /\ folder' = "bare"
          /\ receiver' = [receiver EXCEPT ![p] = [op |-> op, pc |-> "mark", item |-> 1]]
       \/ /\ folder = "marked" /\ UNCHANGED folder
          /\ receiver' = [receiver EXCEPT ![p] = [op |-> op, pc |-> "clear", item |-> 1]]
    /\ UNCHANGED <<final, partial, twin, imported>>

AppOpens == /\ Free
            /\ \E op \in {"prepare", "import", "download"} :
                  Phase = Before(op) /\ Opens("app", op)
            /\ doing' = [flow |-> "recovery", pc |-> "folder"]
            /\ UNCHANGED <<registry, durable, wizard, minted, account, claims, issued>>

CliOpens == /\ receiver["cli"] = Away /\ account.bound["recovery"] # {}
            /\ issued < MaxOperations /\ issued' = issued + 1
            /\ \E op \in {"prepare", "import", "download"} : Opens("cli", op)
            /\ UNCHANGED pairingVars

Mark(p) == /\ Is(p, "mark")
           /\ folder' = "marked" /\ Turns(p, "clear")
           /\ UNCHANGED <<final, partial, twin, imported, issued, pairingVars>>

-----------------------------------------------------------------------------
(* _fetch_item, and the same steps for latest.json in _finish. *)

\* _clear_partial unlinks an unfinished download, but no file of two names.
ClearPartial(p) ==
    /\ Is(p, "clear") /\ Item(p) \notin twin
    /\ partial' = [partial EXCEPT ![Item(p)] = "none"]
    /\ Turns(p, "check")
    /\ UNCHANGED <<folder, final, twin, imported, issued, pairingVars>>

\* _checked_file: a whole file under its one name is kept.
Check(p) == /\ Is(p, "check")
            /\ \/ final[Item(p)] = "none" /\ Turns(p, "create")
               \/ final[Item(p)] = "whole" /\ Item(p) \notin twin /\ Turns(p, "next")
            /\ UNCHANGED <<folder, final, partial, twin, imported, issued, pairingVars>>

CreatePartial(p) == /\ Is(p, "create") /\ partial[Item(p)] = "none"
             /\ partial' = [partial EXCEPT ![Item(p)] = p]
             /\ Turns(p, "copy")
             /\ UNCHANGED <<folder, final, twin, imported, issued, pairingVars>>

\* Synced, and what the receipt says.
Copy(p) == /\ Is(p, "copy")
           /\ Written(p, "whole") /\ Turns(p, "link")
           /\ UNCHANGED <<folder, twin, imported, issued, pairingVars>>

\* Stop, the network, or other bytes than the receipt's.
CopyFails(p) == /\ Is(p, "copy")
                /\ Written(p, "torn") /\ Turns(p, "undo")
                /\ UNCHANGED <<folder, twin, imported, issued, pairingVars>>

\* The link takes whatever bears the name by now.
Link(p) == /\ Is(p, "link")
           /\ IF partial[Item(p)] # "none" /\ final[Item(p)] = "none"
              THEN /\ final' = [final EXCEPT ![Item(p)] = partial[Item(p)]]
                   /\ twin' = twin \cup {Item(p)}
                   /\ Turns(p, "unlink")
              ELSE UNCHANGED <<final, twin>> /\ Turns(p, "undo")
           /\ UNCHANGED <<folder, partial, imported, issued, pairingVars>>

Unlinks(p) == /\ partial' = [partial EXCEPT ![Item(p)] = "none"]
              /\ twin' = twin \ {Item(p)}
              /\ UNCHANGED <<folder, final, imported, issued>>

UnlinkPartial(p) == /\ Is(p, "unlink") /\ Unlinks(p) /\ Turns(p, "next")
                    /\ UNCHANGED pairingVars

-----------------------------------------------------------------------------
(* From item to item. *)

Moves(p, pc, item) == receiver' = [receiver EXCEPT ![p].pc = pc, ![p].item = item]

\* Preparation fetches item 1, the import of the key 2 as well.
Onward(p) ==
    /\ Is(p, "next")
    /\ CASE Item(p) = 1 -> IF receiver[p].op = "prepare" THEN Turns(p, "done")
                           ELSE Moves(p, "clear", 2)
         [] Item(p) = 2 -> Turns(p, "key")
         [] Item(p) = 3 -> Turns(p, "verify")
         [] OTHER -> Turns(p, "unmark")
    /\ UNCHANGED <<folder, final, partial, twin, imported, issued, pairingVars>>

\* The helper opens the manifest, with the key typed or with the one it has.
ImportKey(p) ==
    /\ Is(p, "key") /\ receiver[p].op = "import"
    /\ final[1] = "whole" /\ final[2] = "whole"
    /\ imported' = TRUE /\ Turns(p, "done")
    /\ UNCHANGED <<folder, final, partial, twin, issued, pairingVars>>

CheckKey(p) ==
    /\ Is(p, "key") /\ receiver[p].op = "download"
    /\ final[1] = "whole" /\ final[2] = "whole" /\ imported
    /\ Moves(p, "clear", 3)
    /\ UNCHANGED <<folder, final, partial, twin, imported, issued, pairingVars>>

\* (mutant) What the receipts said of each item is taken for the whole.
VerifyNothing(p) ==
    /\ Is(p, "verify")
    /\ Moves(p, "clear", Latest)
    /\ UNCHANGED <<folder, final, partial, twin, imported, issued, pairingVars>>

\* verify_snapshot, and the reference once more: then latest.json is written.
Verify(p) ==
    /\ Is(p, "verify")
    /\ \A i \in 1..3 : final[i] = "whole"
    /\ imported /\ 3 \notin twin
    /\ Moves(p, "clear", Latest)
    /\ UNCHANGED <<folder, final, partial, twin, imported, issued, pairingVars>>

Unmark(p) == /\ Is(p, "unmark") /\ folder = "marked"
             /\ folder' = "complete" /\ Turns(p, "done")
             /\ UNCHANGED <<final, partial, twin, imported, issued, pairingVars>>

-----------------------------------------------------------------------------
(* An operation ends. *)

Rests(p) == /\ receiver' = [receiver EXCEPT ![p] = Away]
            /\ doing' = IF p = "app" THEN Resting ELSE doing
            /\ UNCHANGED <<registry, durable, minted, account, claims>>

Done(p) == /\ Is(p, "done") /\ Rests(p)
           /\ IF p = "app" THEN Wizard(After(receiver[p].op)) ELSE UNCHANGED wizard
           /\ UNCHANGED <<folder, final, partial, twin, imported, issued>>

\* A refusal, Stop or any failure: nothing but its own download is removed.
GivesUp(p) == /\ receiver[p].pc \notin {"none", "copy", "undo", "unlink", "done"}
              /\ Rests(p)
              /\ UNCHANGED <<folder, final, partial, twin, imported, issued, wizard>>

Undo(p) == Is(p, "undo") /\ Unlinks(p) /\ Rests(p) /\ UNCHANGED wizard

\* Killed: what it was writing stays as it is.
Dies(p) == /\ Written(p, "torn")
           /\ receiver' = [receiver EXCEPT ![p] = Away]
           /\ UNCHANGED <<folder, twin, imported, issued>>

CliDies == receiver["cli"] # Away /\ Dies("cli") /\ UNCHANGED pairingVars
AppDies == Reopens /\ Dies("app")

Receives(p) == \/ Mark(p) \/ ClearPartial(p) \/ Check(p) \/ CreatePartial(p)
               \/ Copy(p) \/ CopyFails(p) \/ Link(p) \/ UnlinkPartial(p)
               \/ Onward(p) \/ ImportKey(p) \/ CheckKey(p) \/ Verify(p) \/ Unmark(p)
               \/ Done(p) \/ GivesUp(p) \/ Undo(p)

RecoveryStep == ListVersions \/ AppOpens \/ CliOpens \/ CliDies
                \/ \E p \in Receivers : Receives(p)

RecoverySpec == /\ PairingInit /\ RecoveryInit
                /\ [][\/ RecoveryStep \/ AppDies
                      \/ PairingStep /\ UNCHANGED recoveryVars]_<<pairingVars, recoveryVars>>

-----------------------------------------------------------------------------
(* A folder that names a version as its latest holds the whole version,     *)
(* and the key that opens it is on this Mac: whatever two receivers, and    *)
(* the death of either, did to its files, and whoever completed it.         *)
RecoveredIsWhole ==
    final[Latest] # "none" => imported /\ \A i \in 1..3 : final[i] = "whole"
-----------------------------------------------------------------------------
(* The inductive invariant. *)

Contents   == {"none", "whole", "torn"} \cup Receivers
Stages     == {"mark", "clear", "check", "create", "copy", "link", "unlink", "next", "key",
               "verify", "unmark", "undo", "done"}
Receptions == {Away} \cup [op : {"prepare", "import", "download"}, pc : Stages, item : Items]

RecoveryTypeOK ==
    /\ folder \in {"none", "bare", "marked", "complete"}
    /\ final \in [Items -> Contents] /\ partial \in [Items -> Contents]
    /\ twin \subseteq Items /\ receiver \in [Receivers -> Receptions]
    /\ imported \in BOOLEAN /\ issued \in Nat

\* A receiver comes to latest.json once the rest is whole, and stays whole.
RecoveryInv ==
    /\ RecoveryTypeOK
    /\ final[Latest] # "none" \/ (\E p \in Receivers : Item(p) = Latest) =>
         imported /\ \A i \in 1..3 : final[i] = "whole"

\* The app's receiver is at work as long as its step is.
AppReceives == doing.pc = "folder" <=> receiver["app"] # Away
=============================================================================
