---------------------------- MODULE VaultInstall ----------------------------
(***************************************************************************)
(* Recovery of a Vault snapshot into the local Codex history               *)
(* (src/codex_migrate/vault_install.py): the exchange of the two history   *)
(* folders under a crash journal, its rollback in the same process or in a *)
(* later `install-recover`, and the addition of one selected conversation, *)
(* beside backups that share the history lock and a Codex that opens and   *)
(* writes whenever the user likes.                                         *)
(*                                                                         *)
(* A folder's tree is the set of its conversations, or Missing.  Every     *)
(* step is one rename, unlink or file the code makes visible.  An fsync    *)
(* that fails is a failure of the step after it, except where the code     *)
(* treats it differently ("recordSync", "unlinkSync", "rbUnlinkSync").     *)
(***************************************************************************)
EXTENDS Integers

CONSTANTS
    N,              \* number of history folders (TRANSCRIPT_FOLDERS has 2)
    Process,        \* processes that run vault commands
    MaxInstalls,    \* bound on whole-history installations
    MaxAdds,        \* bound on additions of one conversation
    MaxEdits,       \* bound on conversations Codex starts
    MaxKills,       \* bound on processes killed or machines stopped
    MaxFaults       \* bound on calls that fail

ASSUME NAssumption == N \in Nat \ {0}
ASSUME BoundsAssumption ==
    /\ MaxInstalls \in Nat /\ MaxAdds \in Nat /\ MaxEdits \in Nat
    /\ MaxKills \in Nat /\ MaxFaults \in Nat

Folder == 1..N

(***************************************************************************)
(* "own" and "note" are the user's conversations, "snap" the snapshot's,   *)
(* "pick" the snapshot's conversation that can be added alone, "fork" one  *)
(* of the user's with pick's file name and other content, "tmp" the hidden *)
(* staging file of an addition.                                            *)
(***************************************************************************)
Conversation == {"own", "note", "snap", "pick", "fork", "tmp"}
Missing == {"missing"}
Trees == (SUBSET Conversation) \cup {Missing}
None == <<>>
Nowhere == [f \in Folder |-> Missing]
Empty == [f \in Folder |-> {}]
Snapshot == [f \in Folder |-> IF f = 1 THEN {"snap", "pick"} ELSE {"snap"}]

VARIABLES
    pc,         \* what each process is doing
    at,         \* folder the exchange or its rollback has come to
    base,       \* digest of the history before it was touched
    live,       \* ~/.codex/<folder>
    incoming,   \* <stage>/recovered/<folder>
    saved,      \* <backup>/<folder>
    failed,     \* <backup>/failed-install/<folder>
    backup,     \* whether the backup folder exists
    archive,    \* what earlier backup folders hold
    receipts,   \* receipts in the backup folder and the thread's one
    journal,    \* the crash journal: the original digest, or None
    codex,      \* whether Codex runs
    written,    \* conversations of the user, by folder
    used        \* how much of each bound is used

vars == <<pc, at, base, live, incoming, saved, failed, backup, archive,
          receipts, journal, codex, written, used>>

kept == <<incoming, saved, failed, backup, archive>>
rest == <<codex, written>>

Exchanging == {"stage", "survey", "record", "recordSync", "mark", "move",
               "place", "verify", "unstage", "receipt", "unlink",
               "unlinkSync"}
RollingBack == {"rbReceipt", "rbFolder", "rbPut", "rbVerify", "rbNote",
                "rbUnlink", "rbUnlinkSync", "rbUnstage"}
Adding == {"select", "copy", "link", "linked", "compare", "addReceipt",
           "remove"}
Done == {"idle", "installed", "restored", "failed", "added", "unadded"}
Labels == Exchanging \cup RollingBack \cup Adding \cup Done \cup {"reading"}

Journals == {None} \cup [Folder -> SUBSET Conversation]
Bounds == [installs : 0..MaxInstalls, adds : 0..MaxAdds, edits : 0..MaxEdits,
           kills : 0..MaxKills, faults : 0..MaxFaults]

TypeOK ==
    /\ pc \in [Process -> Labels]
    /\ at \in Folder
    /\ base \in [Folder -> SUBSET Conversation]
    /\ live \in [Folder -> Trees] /\ incoming \in [Folder -> Trees]
    /\ saved \in [Folder -> Trees] /\ failed \in [Folder -> Trees]
    /\ backup \in BOOLEAN
    /\ archive \in [Folder -> SUBSET Conversation]
    /\ receipts \subseteq {"install", "rollback", "thread"}
    /\ journal \in Journals
    /\ codex \in BOOLEAN
    /\ written \in [Folder -> SUBSET Conversation]
    /\ used \in Bounds

-----------------------------------------------------------------------------
Held(tree) == tree \ Missing
Summary(trees) == [f \in Folder |-> Held(trees[f])]
\* _tree_records refuses a history with a file that is no transcript.
Readable(trees) == \A f \in Folder : "tmp" \notin trees[f]
\* rename(2) replaces no folder but an empty one.
Replaceable(tree) == Held(tree) = {}

Free(p) == pc[p] \in Done
InstallLockFree == \A p \in Process : Free(p) \/ pc[p] = "reading"
HistoryLockFree == \A p \in Process : Free(p)
Locks(p) == Free(p) /\ InstallLockFree /\ HistoryLockFree

At(p, label) == pc[p] = label
Goto(p, label) == pc' = [pc EXCEPT ![p] = label]
Init ==
    /\ pc = [p \in Process |-> "idle"]
    /\ at = 1 /\ base = Empty
    /\ live \in [Folder -> {Missing, {}, {"own"}}]
    /\ incoming = Nowhere /\ saved = Nowhere /\ failed = Nowhere
    /\ backup = FALSE /\ archive = Empty /\ receipts = {} /\ journal = None
    /\ codex = FALSE
    /\ written = Summary(live)
    /\ used = [installs |-> 0, adds |-> 0, edits |-> 0, kills |-> 0,
               faults |-> 0]

-----------------------------------------------------------------------------
(* install_snapshot *)

\* Both locks, no pending journal, Codex closed; a new stage and backup
\* folder.  What earlier attempts kept stays in their own backup folders.
Begin(p) ==
    /\ Locks(p) /\ journal = None /\ ~codex
    /\ used.installs < MaxInstalls /\ used' = [used EXCEPT !.installs = @ + 1]
    /\ Goto(p, "stage")
    /\ archive' = [f \in Folder |->
                     archive[f] \cup Held(saved[f]) \cup Held(failed[f])]
    /\ saved' = Nowhere /\ failed' = Nowhere /\ incoming' = Nowhere
    /\ backup' = TRUE /\ receipts' = {}
    /\ UNCHANGED <<at, base, live, journal, rest>>

\* restore_snapshot into the stage; a folder the snapshot lacks is made.
Stage(p) ==
    /\ At(p, "stage") /\ Goto(p, "survey")
    /\ incoming' = Snapshot
    /\ UNCHANGED <<at, base, live, saved, failed, backup, archive, receipts,
                   journal, rest, used>>

Survey(p) ==
    /\ At(p, "survey") /\ Readable(live) /\ Goto(p, "record")
    /\ base' = Summary(live)
    /\ UNCHANGED <<at, live, kept, receipts, journal, rest, used>>

\* Mutant: the exchange starts without its journal.
RecordNothing(p) ==
    /\ At(p, "record") /\ Goto(p, "recordSync")
    /\ UNCHANGED <<at, base, live, kept, receipts, journal, rest, used>>

\* _atomic_json(journal): visible after its rename, then synced.
Record(p) ==
    /\ At(p, "record") /\ Goto(p, "recordSync")
    /\ journal' = base
    /\ UNCHANGED <<at, base, live, kept, receipts, rest, used>>

RecordSynced(p) ==
    /\ At(p, "recordSync") /\ Goto(p, "mark")
    /\ UNCHANGED <<at, base, live, kept, receipts, journal, rest, used>>

\* Codex is looked for again, then the journal says "installing" (its status
\* decides nothing later).
Mark(p) ==
    /\ At(p, "mark") /\ ~codex /\ Goto(p, "move")
    /\ at' = 1
    /\ UNCHANGED <<base, live, kept, receipts, journal, rest, used>>

Move(p) ==
    /\ At(p, "move") /\ Goto(p, "place")
    /\ saved' = [saved EXCEPT ![at] = live[at]]
    /\ live' = [live EXCEPT ![at] = Missing]
    /\ UNCHANGED <<at, base, incoming, failed, backup, archive, receipts,
                   journal, rest, used>>

Place(p) ==
    /\ At(p, "place") /\ Replaceable(live[at])
    /\ live' = [live EXCEPT ![at] = incoming[at]]
    /\ incoming' = [incoming EXCEPT ![at] = Missing]
    /\ IF at < N THEN Goto(p, "move") /\ at' = at + 1
                 ELSE Goto(p, "verify") /\ at' = at
    /\ UNCHANGED <<base, saved, failed, backup, archive, receipts, journal,
                   rest, used>>

\* Mutant: the displaced history is not compared with the original digest.
VerifiedLiveOnly == Readable(live) /\ Summary(live) = Snapshot

Verified == Readable(live) /\ Summary(live) = Snapshot /\ Summary(saved) = base

Verify(p) ==
    /\ At(p, "verify") /\ Verified /\ ~codex /\ Goto(p, "unstage")
    /\ UNCHANGED <<at, base, live, kept, receipts, journal, rest, used>>

Unstage(p) ==
    /\ At(p, "unstage") /\ Goto(p, "receipt")
    /\ incoming' = Nowhere
    /\ UNCHANGED <<at, base, live, saved, failed, backup, archive, receipts,
                   journal, rest, used>>

Receipt(p) ==
    /\ At(p, "receipt") /\ Goto(p, "unlink")
    /\ receipts' = receipts \cup {"install"}
    /\ UNCHANGED <<at, base, live, kept, journal, rest, used>>

Unlink(p) ==
    /\ At(p, "unlink") /\ Goto(p, "unlinkSync")
    /\ journal' = None
    /\ UNCHANGED <<at, base, live, kept, receipts, rest, used>>

Installed(p) ==
    /\ At(p, "unlinkSync") /\ Goto(p, "installed")
    /\ UNCHANGED <<at, base, live, kept, receipts, journal, rest, used>>

-----------------------------------------------------------------------------
(* recover_interrupted_install and _rollback *)

Recover(p) ==
    /\ Locks(p) /\ journal # None /\ ~codex /\ Goto(p, "rbReceipt")
    /\ base' = journal
    /\ UNCHANGED <<at, live, kept, receipts, journal, rest, used>>

\* A completed install's receipt goes to failed-install first.
RollbackReceipt(p) ==
    /\ At(p, "rbReceipt") /\ backup /\ Goto(p, "rbFolder")
    /\ receipts' = receipts \ {"install"}
    /\ at' = N
    /\ UNCHANGED <<base, live, kept, journal, rest, used>>

NextFolder(p) ==
    IF at > 1 THEN Goto(p, "rbFolder") /\ at' = at - 1
              ELSE Goto(p, "rbVerify") /\ at' = at

\* The live tree has to leave, for its saved original or because there was
\* no such folder before the installation.
Displaced(f) ==
    /\ live[f] # Missing
    /\ saved[f] # Missing \/ incoming[f] = Missing

\* Mutant: the tree that has to leave is removed.
QuarantineDiscards(p) ==
    /\ At(p, "rbFolder") /\ Displaced(at) /\ failed[at] = Missing
    /\ live' = [live EXCEPT ![at] = Missing]
    /\ IF saved[at] # Missing THEN Goto(p, "rbPut") /\ at' = at
                              ELSE NextFolder(p)
    /\ UNCHANGED <<base, incoming, saved, failed, backup, archive, receipts,
                   journal, rest, used>>

Quarantine(p) ==
    /\ At(p, "rbFolder") /\ Displaced(at) /\ failed[at] = Missing
    /\ failed' = [failed EXCEPT ![at] = live[at]]
    /\ live' = [live EXCEPT ![at] = Missing]
    /\ IF saved[at] # Missing THEN Goto(p, "rbPut") /\ at' = at
                              ELSE NextFolder(p)
    /\ UNCHANGED <<base, incoming, saved, backup, archive, receipts, journal,
                   rest, used>>

RollbackPass(p) ==
    /\ At(p, "rbFolder") /\ ~Displaced(at)
    /\ IF saved[at] # Missing THEN Goto(p, "rbPut") /\ at' = at
                              ELSE NextFolder(p)
    /\ UNCHANGED <<base, live, kept, receipts, journal, rest, used>>

PutBack(p) ==
    /\ At(p, "rbPut") /\ Replaceable(live[at]) /\ NextFolder(p)
    /\ live' = [live EXCEPT ![at] = saved[at]]
    /\ saved' = [saved EXCEPT ![at] = Missing]
    /\ UNCHANGED <<base, incoming, failed, backup, archive, receipts, journal,
                   rest, used>>

RollbackVerify(p) ==
    /\ At(p, "rbVerify") /\ Readable(live) /\ Summary(live) = base
    /\ Goto(p, "rbNote")
    /\ UNCHANGED <<at, base, live, kept, receipts, journal, rest, used>>

\* _atomic_json does not replace the receipt of an earlier rollback.
RollbackNote(p) ==
    /\ At(p, "rbNote") /\ "rollback" \notin receipts /\ Goto(p, "rbUnlink")
    /\ receipts' = receipts \cup {"rollback"}
    /\ UNCHANGED <<at, base, live, kept, journal, rest, used>>

RollbackUnlink(p) ==
    /\ At(p, "rbUnlink") /\ Goto(p, "rbUnlinkSync")
    /\ journal' = None
    /\ UNCHANGED <<at, base, live, kept, receipts, rest, used>>

RollbackUnlinked(p) ==
    /\ At(p, "rbUnlinkSync") /\ Goto(p, "rbUnstage")
    /\ UNCHANGED <<at, base, live, kept, receipts, journal, rest, used>>

RolledBack(p) ==
    /\ At(p, "rbUnstage") /\ Goto(p, "restored")
    /\ incoming' = Nowhere
    /\ UNCHANGED <<at, base, live, saved, failed, backup, archive, receipts,
                   journal, rest, used>>

-----------------------------------------------------------------------------
(* install_thread *)

AddBegin(p) ==
    /\ Locks(p) /\ journal = None /\ ~codex
    /\ used.adds < MaxAdds /\ used' = [used EXCEPT !.adds = @ + 1]
    /\ Goto(p, "select")
    /\ receipts' = receipts \ {"thread"}
    /\ UNCHANGED <<at, base, live, kept, journal, rest>>

\* _selected_action: the same conversation ends the operation as done,
\* another one of its identity refuses it.
Select(p) ==
    /\ At(p, "select") /\ Readable(live)
    /\ base' = Summary(live)
    /\ IF "pick" \in live[1]
       THEN Goto(p, "added") /\ live' = live
       ELSE /\ "fork" \notin live[1] /\ ~codex /\ Goto(p, "copy")
            /\ live' = [live EXCEPT ![1] = Held(@)]
    /\ UNCHANGED <<at, kept, receipts, journal, rest, used>>

Occupied == live[1] \cap {"pick", "fork"} # {}

Copy(p) ==
    /\ At(p, "copy") /\ ~Occupied /\ Goto(p, "link")
    /\ live' = [live EXCEPT ![1] = @ \cup {"tmp"}]
    /\ UNCHANGED <<at, base, kept, receipts, journal, rest, used>>

\* link(2) refuses a name that has appeared since.
Link(p) ==
    /\ At(p, "link") /\ ~Occupied /\ Goto(p, "linked")
    /\ live' = [live EXCEPT ![1] = @ \cup {"pick"}]
    /\ UNCHANGED <<at, base, kept, receipts, journal, rest, used>>

Linked(p) ==
    /\ At(p, "linked") /\ Goto(p, "compare")
    /\ live' = [live EXCEPT ![1] = @ \ {"tmp"}]
    /\ UNCHANGED <<at, base, kept, receipts, journal, rest, used>>

Compare(p) ==
    /\ At(p, "compare") /\ ~codex /\ Goto(p, "addReceipt")
    /\ Summary(live) = [base EXCEPT ![1] = @ \cup {"pick"}]
    /\ UNCHANGED <<at, base, live, kept, receipts, journal, rest, used>>

AddReceipt(p) ==
    /\ At(p, "addReceipt") /\ Goto(p, "added")
    /\ receipts' = receipts \cup {"thread"}
    /\ UNCHANGED <<at, base, live, kept, journal, rest, used>>

\* The comparison of the target with what was added and its unlink are one
\* step, and so is the verification of the history that follows.
Remove(p) ==
    /\ At(p, "remove")
    /\ receipts' = receipts \ {"thread"}
    /\ live' = [live EXCEPT ![1] = @ \ {"pick"}]
    /\ Goto(p, IF Summary(live') = base THEN "unadded" ELSE "failed")
    /\ UNCHANGED <<at, base, kept, journal, rest, used>>

-----------------------------------------------------------------------------
(* Failures: what each exception handler does from where it is raised.     *)
(* _copy_selected takes away what it made, but the failure can be that of  *)
(* either unlink: what stays is then nobody's, and its caller leaves it.   *)

Raise(p) ==
    \/ /\ pc[p] \in {"stage", "survey", "record", "recordSync"}
       /\ Goto(p, "failed")
       /\ incoming' = Nowhere /\ backup' = FALSE
       /\ UNCHANGED <<base, live, saved, failed, archive>>
    \/ /\ pc[p] \in Exchanging
       /\ pc[p] \notin {"stage", "survey", "record", "recordSync"}
       /\ Goto(p, IF journal = None THEN "restored" ELSE "rbReceipt")
       /\ UNCHANGED <<base, live, kept>>
    \/ /\ pc[p] \in RollingBack \cup {"select", "copy", "remove"}
       /\ Goto(p, "failed")
       /\ UNCHANGED <<base, live, kept>>
    \/ /\ pc[p] \in {"link", "linked"}
       /\ Goto(p, "failed")
       /\ \E gone \in SUBSET (IF At(p, "link") THEN {"tmp"} ELSE {"tmp", "pick"}) :
            live' = [live EXCEPT ![1] = @ \ gone]
       /\ UNCHANGED <<base, kept>>
    \/ /\ pc[p] \in {"compare", "addReceipt"}
       /\ Goto(p, "remove")
       /\ UNCHANGED <<base, live, kept>>

\* The checks of the code that stop an operation where it is.
Refused(p) ==
    \/ At(p, "survey") /\ ~Readable(live)
    \/ At(p, "mark") /\ codex
    \/ At(p, "place") /\ ~Replaceable(live[at])
    \/ At(p, "verify") /\ (~Verified \/ codex)
    \/ At(p, "rbReceipt") /\ ~backup
    \/ At(p, "rbFolder") /\ Displaced(at) /\ failed[at] # Missing
    \/ At(p, "rbPut") /\ ~Replaceable(live[at])
    \/ At(p, "rbVerify") /\ ~(Readable(live) /\ Summary(live) = base)
    \/ At(p, "rbNote") /\ "rollback" \in receipts
    \/ At(p, "select") /\ (~Readable(live) \/ "fork" \in live[1]
                              \/ (codex /\ "pick" \notin live[1]))
    \/ pc[p] \in {"copy", "link"} /\ Occupied
    \/ At(p, "compare")
         /\ (codex \/ Summary(live) # [base EXCEPT ![1] = @ \cup {"pick"}])

Refuse(p) ==
    /\ Refused(p) /\ Raise(p)
    /\ UNCHANGED <<at, receipts, journal, rest, used>>

Fail(p) ==
    /\ Raise(p) /\ used.faults < MaxFaults /\ used' = [used EXCEPT !.faults = @ + 1]
    /\ UNCHANGED <<at, receipts, journal, rest>>

\* The kernel releases both locks of a process that dies.
Kill(p) ==
    /\ ~Free(p) /\ Goto(p, "idle")
    /\ used.kills < MaxKills /\ used' = [used EXCEPT !.kills = @ + 1]
    /\ UNCHANGED <<at, base, live, kept, receipts, journal, rest>>

-----------------------------------------------------------------------------
(* backup: the history lock alone, while the folders are read *)

BackupBegin(p) ==
    /\ Free(p) /\ HistoryLockFree /\ Goto(p, "reading")
    /\ UNCHANGED <<at, base, live, kept, receipts, journal, rest, used>>

BackupEnd(p) ==
    /\ At(p, "reading") /\ Goto(p, "idle")
    /\ UNCHANGED <<at, base, live, kept, receipts, journal, rest, used>>

(* Codex *)

Toggle ==
    /\ codex' = ~codex
    /\ UNCHANGED <<pc, at, base, live, kept, receipts, journal, written, used>>

\* A new conversation, in a folder Codex makes when it finds none.
Write(f) ==
    /\ codex /\ used.edits < MaxEdits /\ used' = [used EXCEPT !.edits = @ + 1]
    /\ \E c \in {"note", "fork"} :
         /\ c = "fork" => f = 1 /\ ~Occupied
         /\ live' = [live EXCEPT ![f] = Held(@) \cup {c}]
         /\ written' = [written EXCEPT ![f] = @ \cup {c}]
    /\ UNCHANGED <<pc, at, base, kept, receipts, journal, codex>>

Next ==
    \/ \E p \in Process :
         \/ Begin(p) \/ Stage(p) \/ Survey(p) \/ Record(p) \/ RecordSynced(p)
         \/ Mark(p) \/ Move(p) \/ Place(p) \/ Verify(p) \/ Unstage(p)
         \/ Receipt(p) \/ Unlink(p) \/ Installed(p)
         \/ Recover(p) \/ RollbackReceipt(p) \/ Quarantine(p)
         \/ RollbackPass(p) \/ PutBack(p) \/ RollbackVerify(p)
         \/ RollbackNote(p) \/ RollbackUnlink(p) \/ RollbackUnlinked(p)
         \/ RolledBack(p)
         \/ AddBegin(p) \/ Select(p) \/ Copy(p) \/ Link(p) \/ Linked(p)
         \/ Compare(p) \/ AddReceipt(p) \/ Remove(p)
         \/ Refuse(p) \/ Fail(p) \/ Kill(p)
         \/ BackupBegin(p) \/ BackupEnd(p)
    \/ Toggle
    \/ \E f \in Folder : Write(f)

Spec == Init /\ [][Next]_vars

-----------------------------------------------------------------------------
\* No conversation of the user is ever lost: whatever is killed, fails or
\* races with Codex, each is still in the live folder, in its saved original,
\* in failed-install or in an earlier attempt's backup folder.
NothingLost ==
    \A f \in Folder :
        written[f] \subseteq live[f] \cup saved[f] \cup failed[f] \cup archive[f]

\* While no crash journal exists, the live history is wholly the snapshot's
\* or wholly not: an exchange is never left half done and unrecorded.
UnjournalledIsWhole ==
    journal = None =>
        \A f, g \in Folder : "snap" \in live[f] <=> "snap" \in live[g]

\* The snapshot is live and the history it displaced is saved, as digested
\* before the first rename.
SnapshotIsIn ==
    /\ "install" \in receipts
    /\ \A f \in Folder : Snapshot[f] \subseteq live[f]
    /\ Summary(saved) = base

\* The history digested before the first rename is live, with nothing but what
\* Codex has written.
HistoryIsBack ==
    \A f \in Folder : /\ base[f] \subseteq live[f]
                      /\ Held(live[f]) \subseteq base[f] \cup written[f]

\* What a command answers is so when it answers.  "Installed": nothing is
\* pending and the snapshot is in.  "Stopped safely and rollback was verified":
\* nothing is pending and the previous history is back; but when only the
\* flush of the journal's removal failed, this is answered too, and the
\* installation stands whole.  "Added": the conversation is there, beside all
\* that was.  "Removed and verified": the history is the one it found.
AnswerIsTrue(p) ==
    /\ pc'[p] = "installed" => (journal = None /\ SnapshotIsIn)'
    /\ pc'[p] = "restored" =>
         /\ journal' = None
         /\ IF At(p, "unlinkSync") THEN SnapshotIsIn' ELSE HistoryIsBack'
    /\ pc'[p] = "added" =>
         ("pick" \in live[1] /\ \A f \in Folder : base[f] \subseteq live[f])'
    /\ pc'[p] = "unadded" => (Summary(live) = base)'
AnswersAreTrue ==
    [][\A p \in Process : pc'[p] # pc[p] => AnswerIsTrue(p)]_vars

\* "Vault installation stopped safely and rollback was verified. The previous
\* Codex history was restored." (vault_install.py:940-941): whenever it is
\* answered, the previous history is live.
RestoredIsBack ==
    [][\A p \in Process :
         pc'[p] # pc[p] /\ pc'[p] = "restored" => HistoryIsBack']_vars

\* Nobody exchanges or removes anything while a backup reads the folders:
\* in that time conversations only appear, and only Codex adds them.
ReadsStill ==
    \A p \in Process : At(p, "reading") /\ At(p, "reading")' =>
        \A f \in Folder : /\ Held(live[f]) \subseteq live'[f]
                          /\ live'[f] # live[f] => codex
BackupReadsStill == [][ReadsStill]_vars

\* An interrupted installation can be rolled back: whenever its journal is
\* pending and nothing runs, the quarantine has room for each tree that has
\* to leave, the backup folder is there and its receipt can be written.
RollbackCanFinish ==
    journal # None /\ (\A p \in Process : Free(p)) =>
        /\ backup /\ "rollback" \notin receipts
        /\ \A f \in Folder : Displaced(f) => failed[f] = Missing

-----------------------------------------------------------------------------
(* The inductive invariant behind TypeOK and NothingLost. *)

\* One command at a time holds the history lock.
OneHolder == \A p, q \in Process : ~Free(p) /\ ~Free(q) => p = q

\* A slot of the backup folder is still free when the exchange comes to it.
SavedRoom ==
    \A p \in Process : \A f \in Folder :
        /\ pc[p] \in {"stage", "survey", "record", "recordSync", "mark"} =>
             saved[f] = Missing
        /\ At(p, "move") /\ f >= at => saved[f] = Missing
        /\ At(p, "place") /\ f > at => saved[f] = Missing

\* An addition has made the folder it adds to.
AddRoom ==
    \A p \in Process : pc[p] \in {"copy", "link", "linked"} => live[1] # Missing

\* What counts as the user's is neither the snapshot's nor a staging file.
UsersOwn == \A f \in Folder : written[f] \subseteq {"own", "note", "fork"}

IInv ==
    /\ TypeOK
    /\ OneHolder
    /\ SavedRoom
    /\ AddRoom
    /\ UsersOwn
    /\ NothingLost

(* What UnjournalledIsWhole and AnswersAreTrue need besides IInv. *)

\* All folders hold the snapshot, or none of them does.
Whole(trees) == \A f, g \in Folder : "snap" \in trees[f] <=> "snap" \in trees[g]

\* Where a command has a journal, has none, and has a digest to go back to.
Recorded == {"recordSync", "mark", "move", "place", "verify", "unstage",
             "receipt", "unlink", "rbReceipt", "rbFolder", "rbPut",
             "rbVerify", "rbNote", "rbUnlink"}
Unrecorded == {"stage", "survey", "record", "unlinkSync", "rbUnlinkSync",
               "rbUnstage"} \cup Adding
Digested == (Exchanging \ {"stage", "survey"}) \cup RollingBack
Checked == {"unstage", "receipt", "unlink", "unlinkSync"}
Returned == {"rbNote", "rbUnlink"}
Restored == Returned \cup {"rbUnlinkSync", "rbUnstage"}

\* The exchange and its rollback touch the folders under a journal only, and
\* no other command runs beside one.
JournalInv ==
    \A p \in Process : /\ pc[p] \in Recorded => journal # None
                       /\ pc[p] \in Unrecorded => journal = None

\* The digest an exchange goes back to, in memory or in the journal, is of a
\* history that was whole; so is the live history when nothing is recorded or
\* when a rollback has verified it.
WholeInv ==
    /\ IF journal = None THEN Whole(live) ELSE Whole(journal)
    /\ \A p \in Process : /\ pc[p] \in Digested => Whole(base)
                          /\ pc[p] \in Returned => Whole(live)

\* A verified exchange stays verified until its command answers.
CheckedInv ==
    \A p \in Process :
        /\ pc[p] \in Checked => /\ \A f \in Folder : Snapshot[f] \subseteq live[f]
                               /\ Summary(saved) = base
        /\ pc[p] \in {"unlink", "unlinkSync"} => "install" \in receipts

\* So do a verified rollback and a verified addition, but for what Codex adds.
BackInv ==
    \A p \in Process :
        /\ pc[p] \in Restored => HistoryIsBack
        /\ At(p, "addReceipt") =>
             "pick" \in live[1] /\ \A f \in Folder : base[f] \subseteq live[f]

WInv == JournalInv /\ WholeInv /\ CheckedInv
=============================================================================
