------------------------- MODULE DestinationInstall -------------------------
(***************************************************************************)
(* The protected installation on the destination Mac: the shell program    *)
(* that migration.py (_install_and_verify) sends over SSH, the Perl helper *)
(* of transaction.py it calls at each durable boundary, the backup checks  *)
(* of backup.py and the kernel lock of destination_lock.py.                *)
(*                                                                         *)
(* A shell replaces N destination entries (entry 1 is ~/.codex) by staged  *)
(* ones.  Before the first removal it copies every original, freezes the   *)
(* digests of the copies in a journal record and forces both to the        *)
(* device.  A failure rolls back from the copies; a killed shell or a      *)
(* power loss leaves the journal record, which blocks every later writer.  *)
(*                                                                         *)
(* Trees are abstracted to what digests tell apart: a version the user     *)
(* wrote, the verified staged tree (New), the staged .codex before the     *)
(* destination identity is put in it (Bare), no entry (Absent), or any     *)
(* other tree, part of one or a damaged one (Torn).  Every variable that   *)
(* starts with d is what the device holds if the power goes now.           *)
(***************************************************************************)
EXTENDS Naturals

CONSTANTS
    N,            \* number of entries in the transaction scope
    UserData,     \* versions of an entry that the user can write
    Absent, Torn, New, Bare,
    Shells,       \* installation attempts; each has its own backup folder
    NoOne,        \* no journal record, or nobody holds the lock
    Receiver,     \* an rsync receiver that writes staging under the lock
    Broken,       \* a journal entry that no longer reads as a record
    MaxFaults     \* bound on power losses and copies that go bad on the disk

Items == 1..N
Content == UserData \cup {Absent, Torn, New, Bare}
Trees == [Items -> Content]

ASSUME ScopeAssumption == N \in Nat \ {0}
ASSUME BoundAssumption == MaxFaults \in Nat
ASSUME ContentAssumption ==
    /\ UserData \cap {Absent, Torn, New, Bare} = {}
    /\ Absent # Torn /\ Absent # New /\ Absent # Bare
    /\ Torn # New /\ Torn # Bare /\ New # Bare
ASSUME ActorAssumption ==
    /\ Shells \cap {NoOne, Receiver, Broken} = {}
    /\ NoOne # Receiver /\ NoOne # Broken /\ Receiver # Broken

VARIABLES
    pc,           \* where each shell is
    idx,          \* the entry the shell's loop is at
    holder,       \* who holds the flock on .codex-migrate-destination.lock
    staged,       \* the staging folder
    orig, dOrig,  \* the destination entries
    bak, dBak,    \* each attempt's backup folder
    frozen,       \* digests that the attempt's journal record froze
    journal, dJournal,    \* whose record is in .codex-migrate-transaction.json
    receipt, dReceipt,    \* phase in the backup's transaction-receipt.json
    leftover,     \* a half-written receipt file is in the way of another
    latest,       \* (history) the last version the user wrote of each entry
    losses, damage        \* how many power losses and damaged copies so far

disk == <<orig, dOrig, bak, dBak, frozen, journal, dJournal,
          receipt, dReceipt, leftover>>
faults == <<losses, damage>>
vars == <<pc, idx, holder, staged, disk, latest, faults>>

\* Before the journal record exists.
Preparing == {"check", "copy", "prepare", "begin"}
\* The record exists and the EXIT trap is not set.
Recorded == {"arm", "guard"}
\* The EXIT trap is set: an ordinary failure rolls back.
Trapped == {"remove", "place", "verify", "receipt", "seal"}
Rollback == {"rbCheck", "rbRemove", "rbCopy", "rbVerify", "rbReceipt", "rbSeal"}
\* The terminal receipt is durable and the trap is removed.
Clearing == {"clear", "clearSync"}
\* The shell is gone but its rm or cp is still running and keeps the lock.
Orphan == {"orphanRm", "orphanCp"}
Running == Preparing \cup Recorded \cup Trapped \cup Rollback \cup Clearing
Active == Running \cup Orphan
Protected == Active \ Preparing

Phases == {"none", "installed", "restored", "torn"}
Journals == Shells \cup {NoOne, Broken}

TypeOK ==
    /\ pc \in [Shells -> Active \cup {"off", "done", "dead"}]
    /\ idx \in [Shells -> Items]
    /\ holder \in Shells \cup {NoOne, Receiver}
    /\ staged \in Trees /\ orig \in Trees /\ dOrig \in Trees /\ latest \in Trees
    /\ bak \in [Shells -> Trees] /\ dBak \in [Shells -> Trees]
    /\ frozen \in [Shells -> Trees]
    /\ journal \in Journals /\ dJournal \in Journals
    /\ receipt \in [Shells -> Phases] /\ dReceipt \in [Shells -> Phases]
    /\ leftover \in [Shells -> BOOLEAN]
    /\ losses \in 0..MaxFaults /\ damage \in 0..MaxFaults

\* A signed-in destination: .codex is there, other entries may not be.
Init ==
    /\ pc = [s \in Shells |-> "off"]
    /\ idx = [s \in Shells |-> 1]
    /\ holder = NoOne
    /\ staged = [i \in Items |-> Torn]
    /\ orig \in [Items -> UserData \cup {Absent}] /\ orig[1] # Absent
    /\ dOrig = orig /\ latest = orig
    /\ bak = [s \in Shells |-> [i \in Items |-> Absent]] /\ dBak = bak
    /\ frozen = bak
    /\ journal = NoOne /\ dJournal = NoOne
    /\ receipt = [s \in Shells |-> "none"] /\ dReceipt = receipt
    /\ leftover = [s \in Shells |-> FALSE]
    /\ losses = 0 /\ damage = 0

-----------------------------------------------------------------------------
(* Helpers of the program.                                                 *)

Goto(s, l) == pc' = [pc EXCEPT ![s] = l]

\* The shell ends: with it, the last open descriptor of the lock.
Exit(s, l) == Goto(s, l) /\ holder' = NoOne

\* verify_frozen on every backup item of the record.
BackupMatches(s) == bak[s] = frozen[s]

\* Go to the next entry, or to label l after the last one, from label here.
Advance(s, here, l) ==
    /\ idx' = [idx EXCEPT ![s] = IF idx[s] < N THEN @ + 1 ELSE 1]
    /\ Goto(s, IF idx[s] < N THEN here ELSE l)

\* (mutant) Only the record keeps writers out.
CanLockBusy == journal = NoOne

\* flock LOCK_EX then PENDING_GUARD; a refused caller exits and changes nothing.
CanLock == holder = NoOne /\ journal = NoOne

-----------------------------------------------------------------------------
(* The user, and the transfers that fill staging before an installation.   *)

\* Apps write an entry.  They are asked to stay closed from the record on;
\* before it begin() compares the original with the copy once more.
Edit(i) ==
    /\ \A s \in Shells : pc[s] \notin Protected
    /\ \E d \in UserData \cup (IF i = 1 THEN {} ELSE {Absent}) :
          /\ d # orig[i]
          /\ orig' = [orig EXCEPT ![i] = d]
          /\ dOrig' = [dOrig EXCEPT ![i] = d]
          /\ latest' = [latest EXCEPT ![i] = d]
    /\ UNCHANGED <<pc, idx, holder, staged, bak, dBak, frozen, journal,
                   dJournal, receipt, dReceipt, leftover, faults>>

\* A receiver takes the lock and starts to write; its client may be gone.
StageBegin ==
    /\ CanLock
    /\ holder' = Receiver
    /\ staged' = [i \in Items |-> Torn]
    /\ UNCHANGED <<pc, idx, disk, latest, faults>>

\* It ends, with the staged trees complete or not.
StageEnd ==
    /\ holder = Receiver
    /\ holder' = NoOne
    /\ staged' \in {[i \in Items |-> IF i = 1 THEN Bare ELSE New], staged}
    /\ UNCHANGED <<pc, idx, disk, latest, faults>>

-----------------------------------------------------------------------------
(* The installation, in the order of the script.                           *)

Start(s) ==
    /\ pc[s] = "off"
    /\ CanLock
    /\ holder' = s
    /\ Goto(s, "check")
    /\ UNCHANGED <<idx, staged, disk, latest, faults>>

\* Staged contents match the digests frozen on the source, no identity is
\* in staging yet, this attempt's backup folder is new.
Check(s) ==
    /\ pc[s] = "check"
    /\ staged[1] = Bare /\ \A i \in Items \ {1} : staged[i] = New
    /\ Goto(s, "copy")
    /\ UNCHANGED <<idx, holder, staged, disk, latest, faults>>

\* cp and verify_backup of one entry; a bad copy ends the shell.
CopyItem(s) ==
    /\ pc[s] = "copy"
    /\ LET i == idx[s] IN
       \/ /\ bak' = [bak EXCEPT ![s][i] = orig[i]]
          /\ Advance(s, "copy", "prepare")
          /\ UNCHANGED holder
       \/ /\ orig[i] # Absent
          /\ bak' = [bak EXCEPT ![s][i] = Torn]
          /\ Exit(s, "dead")
          /\ UNCHANGED idx
    /\ UNCHANGED <<staged, orig, dOrig, dBak, frozen, journal, dJournal,
                   receipt, dReceipt, leftover, latest, faults>>

\* (mutant) The identity files follow after the move.
PrepareNothing(s) ==
    /\ pc[s] = "prepare" /\ Goto(s, "begin")
    /\ UNCHANGED <<idx, holder, staged, disk, latest, faults>>

\* The backed-up identity files go into the staged .codex and are compared.
PrepareIdentity(s) ==
    /\ pc[s] = "prepare"
    /\ staged' = [staged EXCEPT ![1] = IF @ = Bare THEN New ELSE @]
    /\ Goto(s, "begin")
    /\ UNCHANGED <<idx, holder, disk, latest, faults>>

\* (mutant) The originals are not compared again.
BeginUnchecked(s) ==
    /\ pc[s] = "begin" /\ journal = NoOne
    /\ frozen' = [frozen EXCEPT ![s] = bak[s]] /\ journal' = s /\ Goto(s, "arm")
    /\ UNCHANGED <<idx, holder, staged, orig, dOrig, bak, dBak, dJournal,
                   receipt, dReceipt, leftover, latest, faults>>

\* cm_transaction begin: no record yet, each original still equals its copy,
\* flush the backup, rename the record into place.
Begin(s) ==
    /\ pc[s] = "begin"
    /\ journal = NoOne
    /\ \A i \in Items : bak[s][i] = orig[i]
    /\ frozen' = [frozen EXCEPT ![s] = bak[s]]
    /\ journal' = s
    /\ Goto(s, "arm")
    /\ UNCHANGED <<idx, holder, staged, orig, dOrig, bak, dBak, dJournal,
                   receipt, dReceipt, leftover, latest, faults>>

\* (mutant) The record is forced to the device, the backup is not.
ArmRecordOnly(s) ==
    /\ pc[s] = "arm" /\ dJournal' = journal /\ Goto(s, "guard")
    /\ UNCHANGED <<idx, holder, staged, orig, dOrig, bak, dBak, frozen, journal,
                   receipt, dReceipt, leftover, latest, faults>>

\* The rest of save_new: fsync of the folder and F_FULLFSYNC, which also
\* covers the backup files that begin has flushed.
Arm(s) ==
    /\ pc[s] = "arm"
    /\ dJournal' = journal
    /\ dBak' = [dBak EXCEPT ![s] = bak[s]]
    /\ Goto(s, "guard")
    /\ UNCHANGED <<idx, holder, staged, orig, dOrig, bak, frozen, journal,
                   receipt, dReceipt, leftover, latest, faults>>

\* Codex is still closed after the long flush; now the trap is set.
Guard(s) ==
    /\ pc[s] = "guard"
    /\ idx' = [idx EXCEPT ![s] = 1]
    /\ Goto(s, "remove")
    /\ UNCHANGED <<holder, staged, disk, latest, faults>>

\* rm -rf of one original is under way.
RemoveItem(s) ==
    /\ pc[s] = "remove"
    /\ LET i == idx[s] IN
       orig' = [orig EXCEPT ![i] = IF @ = Absent THEN @ ELSE Torn]
    /\ Goto(s, "place")
    /\ UNCHANGED <<idx, holder, staged, dOrig, bak, dBak, frozen, journal,
                   dJournal, receipt, dReceipt, leftover, latest, faults>>

\* It has ended, and mv puts the staged entry in its place.
PlaceItem(s) ==
    /\ pc[s] = "place"
    /\ LET i == idx[s] IN
       /\ orig' = [orig EXCEPT ![i] = staged[i]]
       /\ staged' = [staged EXCEPT ![i] = Absent]
    /\ Advance(s, "remove", "verify")
    /\ UNCHANGED <<holder, dOrig, bak, dBak, frozen, journal, dJournal,
                   receipt, dReceipt, leftover, latest, faults>>

\* Every installed entry still has the frozen source digest.
Verify(s) ==
    /\ pc[s] = "verify"
    /\ \A i \in Items : orig[i] = New
    /\ Goto(s, "receipt")
    /\ UNCHANGED <<idx, holder, staged, disk, latest, faults>>

\* cm_transaction installed: the backup still matches, originals are
\* flushed, the receipt is renamed into place ...
SaveInstalled(s) ==
    /\ pc[s] = "receipt"
    /\ journal = s
    /\ BackupMatches(s)
    /\ \A i \in Items : orig[i] # Absent
    /\ receipt[s] = "none" /\ ~leftover[s]
    /\ receipt' = [receipt EXCEPT ![s] = "installed"]
    /\ Goto(s, "seal")
    /\ UNCHANGED <<idx, holder, staged, orig, dOrig, bak, dBak, frozen, journal,
                   dJournal, dReceipt, leftover, latest, faults>>

\* (mutant) The receipt is forced to the device, the entries are not.
SealReceiptOnly(s) ==
    /\ pc[s] \in {"seal", "rbSeal"}
    /\ dReceipt' = [dReceipt EXCEPT ![s] = receipt[s]] /\ Goto(s, "clear")
    /\ UNCHANGED <<idx, holder, staged, orig, dOrig, bak, dBak, frozen, journal,
                   dJournal, receipt, leftover, latest, faults>>

\* ... and its barrier returns; only then is rollback_needed reset.
Seal(s) ==
    /\ pc[s] \in {"seal", "rbSeal"}
    /\ dReceipt' = [dReceipt EXCEPT ![s] = receipt[s]]
    /\ dOrig' = orig
    /\ Goto(s, "clear")
    /\ UNCHANGED <<idx, holder, staged, orig, bak, dBak, frozen, journal,
                   dJournal, receipt, leftover, latest, faults>>

\* cm_transaction clear: the terminal receipt must repeat the record.
Clear(s) ==
    /\ pc[s] = "clear"
    /\ journal = s
    /\ receipt[s] \in {"installed", "restored"}
    /\ journal' = NoOne
    /\ Goto(s, "clearSync")
    /\ UNCHANGED <<idx, holder, staged, orig, dOrig, bak, dBak, frozen,
                   dJournal, receipt, dReceipt, leftover, latest, faults>>

\* The removal of the record reaches the device and the shell ends.
ClearSync(s) ==
    /\ pc[s] = "clearSync"
    /\ dJournal' = NoOne
    /\ Exit(s, IF receipt[s] = "installed" THEN "done" ELSE "dead")
    /\ UNCHANGED <<idx, staged, orig, dOrig, bak, dBak, frozen, journal,
                   receipt, dReceipt, leftover, latest, faults>>

-----------------------------------------------------------------------------
(* Ordinary failures: a command of the script returns non-zero.            *)

\* Before the trap: the shell just ends, and from begin's rename on the
\* record stays although nothing was replaced.  After the trap is removed a
\* failed clear does not roll back either.
FailOutsideTrap(s) ==
    /\ pc[s] \in Preparing \cup Recorded \cup Clearing
    /\ Exit(s, "dead")
    /\ UNCHANGED <<idx, staged, disk, latest, faults>>

\* Under the trap: rollback starts.  A failed receipt may leave its
\* temporary file, which the exclusive create of a later one runs into.
FailUnderTrap(s) ==
    /\ pc[s] \in Trapped
    /\ leftover' \in {leftover, [leftover EXCEPT ![s] = @ \/ pc[s] = "receipt"]}
    /\ Goto(s, "rbCheck")
    /\ UNCHANGED <<idx, holder, staged, orig, dOrig, bak, dBak, frozen, journal,
                   dJournal, receipt, dReceipt, latest, faults>>

-----------------------------------------------------------------------------
(* The rollback function of the script; any doubt keeps the record.        *)

RollbackCheck(s) ==
    /\ pc[s] = "rbCheck"
    /\ journal = s
    /\ BackupMatches(s)
    /\ idx' = [idx EXCEPT ![s] = 1]
    /\ Goto(s, "rbRemove")
    /\ UNCHANGED <<holder, staged, disk, latest, faults>>

RollbackRemove(s) ==
    /\ pc[s] = "rbRemove"
    /\ LET i == idx[s] IN
       orig' = [orig EXCEPT ![i] = IF @ = Absent THEN @ ELSE Torn]
    /\ Goto(s, "rbCopy")
    /\ UNCHANGED <<idx, holder, staged, dOrig, bak, dBak, frozen, journal,
                   dJournal, receipt, dReceipt, leftover, latest, faults>>

\* set +e: a failed rm or cp leaves a wrong tree and the loop goes on.
RollbackCopy(s) ==
    /\ pc[s] = "rbCopy"
    /\ LET i == idx[s] IN
       \E c \in {bak[s][i], Torn} : orig' = [orig EXCEPT ![i] = c]
    /\ Advance(s, "rbRemove", "rbVerify")
    /\ UNCHANGED <<holder, staged, dOrig, bak, dBak, frozen, journal,
                   dJournal, receipt, dReceipt, leftover, latest, faults>>

\* rollback_checks: each original against its copy.
RollbackVerify(s) ==
    /\ pc[s] = "rbVerify"
    /\ \A i \in Items : orig[i] = bak[s][i]
    /\ Goto(s, "rbReceipt")
    /\ UNCHANGED <<idx, holder, staged, disk, latest, faults>>

\* (mutant) Originals were compared with the copies already.
SaveRestoredTrusting(s) ==
    /\ pc[s] = "rbReceipt" /\ journal = s
    /\ receipt[s] = "none" /\ ~leftover[s]
    /\ receipt' = [receipt EXCEPT ![s] = "restored"] /\ Goto(s, "rbSeal")
    /\ UNCHANGED <<idx, holder, staged, orig, dOrig, bak, dBak, frozen, journal,
                   dJournal, dReceipt, leftover, latest, faults>>

\* cm_transaction restored: copy and original against the frozen digests.
SaveRestored(s) ==
    /\ pc[s] = "rbReceipt"
    /\ journal = s
    /\ BackupMatches(s) /\ orig = frozen[s]
    /\ receipt[s] = "none" /\ ~leftover[s]
    /\ receipt' = [receipt EXCEPT ![s] = "restored"]
    /\ Goto(s, "rbSeal")
    /\ UNCHANGED <<idx, holder, staged, orig, dOrig, bak, dBak, frozen, journal,
                   dJournal, dReceipt, leftover, latest, faults>>

\* Any check or write of the rollback fails: the record stays for recovery.
RollbackUnconfirmed(s) ==
    /\ pc[s] \in Rollback \ {"rbRemove", "rbCopy"}
    /\ Exit(s, "dead")
    /\ UNCHANGED <<idx, staged, disk, latest, faults>>

-----------------------------------------------------------------------------
(* Crashes, power losses and damage.                                       *)

\* SIGKILL or a lost session.  A running rm or cp inherited the lock and
\* can outlive its shell.
Kill(s) ==
    /\ pc[s] \in Running
    /\ \/ Exit(s, "dead")
       \/ pc[s] \in {"place", "rbRemove"} /\ Goto(s, "orphanRm") /\ UNCHANGED holder
       \/ pc[s] = "rbCopy" /\ Goto(s, "orphanCp") /\ UNCHANGED holder
    /\ UNCHANGED <<idx, staged, disk, latest, faults>>

OrphanEnds(s) ==
    /\ pc[s] \in Orphan
    /\ LET i == idx[s] IN
       orig' = IF pc[s] = "orphanCp"
               THEN [orig EXCEPT ![i] = bak[s][i]]
               ELSE [orig EXCEPT ![i] = IF @ = Absent THEN @ ELSE Torn]
    /\ Exit(s, "dead")
    /\ UNCHANGED <<idx, staged, dOrig, bak, dBak, frozen, journal, dJournal,
                   receipt, dReceipt, leftover, latest, faults>>

\* What may be found after a power loss where v was visible and d durable.
Survivor(v, d, torn) == IF v = d THEN {v} ELSE {v, d, torn}

TreeSurvivors(t, d) ==
    {u \in [Items -> UNION {Survivor(t[i], d[i], Torn) : i \in Items}] :
        \A i \in Items : u[i] \in Survivor(t[i], d[i], Torn)}

\* A record that is not on the device may be gone or unreadable; a removal
\* that is not may be undone.
JournalSurvivor ==
    {journal, dJournal} \cup
    IF journal \in Shells /\ journal # dJournal THEN {NoOne, Broken} ELSE {}

PowerLoss ==
    /\ losses + damage < MaxFaults
    /\ losses' = losses + 1
    /\ pc' = [s \in Shells |-> IF pc[s] \in Active THEN "dead" ELSE pc[s]]
    /\ holder' = NoOne
    /\ staged' = [i \in Items |-> Torn]
    /\ orig' \in TreeSurvivors(orig, dOrig)
    /\ bak' \in {b \in [Shells -> UNION {TreeSurvivors(bak[s], dBak[s]) : s \in Shells}] :
                     \A s \in Shells : b[s] \in TreeSurvivors(bak[s], dBak[s])}
    /\ journal' \in JournalSurvivor
    /\ receipt' \in {r \in [Shells -> Phases] : \A s \in Shells :
                      r[s] \in Survivor(receipt[s], dReceipt[s], "torn")}
    /\ dOrig' = orig' /\ dBak' = bak' /\ dJournal' = journal' /\ dReceipt' = receipt'
    /\ UNCHANGED <<idx, frozen, leftover, latest, damage>>

\* A recorded backup copy goes bad on the disk.
DamageBackup(s, i) ==
    /\ losses + damage < MaxFaults
    /\ journal = s
    /\ damage' = damage + 1
    /\ bak' = [bak EXCEPT ![s][i] = Torn]
    /\ dBak' = [dBak EXCEPT ![s][i] = Torn]
    /\ UNCHANGED <<pc, idx, holder, staged, orig, dOrig, frozen, journal,
                   dJournal, receipt, dReceipt, leftover, latest, losses>>

Step(s) ==
    \/ Start(s) \/ Check(s) \/ CopyItem(s) \/ PrepareIdentity(s) \/ Begin(s)
    \/ Arm(s) \/ Guard(s) \/ RemoveItem(s) \/ PlaceItem(s) \/ Verify(s)
    \/ SaveInstalled(s) \/ Seal(s) \/ Clear(s) \/ ClearSync(s)
    \/ RollbackCheck(s) \/ RollbackRemove(s) \/ RollbackCopy(s)
    \/ RollbackVerify(s) \/ SaveRestored(s)

Fault(s) ==
    \/ FailOutsideTrap(s) \/ FailUnderTrap(s) \/ RollbackUnconfirmed(s)
    \/ Kill(s) \/ OrphanEnds(s)
    \/ \E i \in Items : DamageBackup(s, i)

Next ==
    \/ \E i \in Items : Edit(i)
    \/ StageBegin \/ StageEnd
    \/ \E s \in Shells : Step(s) \/ Fault(s)
    \/ PowerLoss

Spec == Init /\ [][Next]_vars

-----------------------------------------------------------------------------
(* What the installation promises.                                         *)

\* The attempt whose backup a recovery would be told to use for an entry.
Named(s) == journal = s \/ receipt[s] = "installed"

\* The last version the user wrote of an entry is never lost: it is still in
\* the destination, or in the backup of an attempt that the pending record or
\* an installation receipt names.  No claim is made once a copy went bad.
NoUserWorkLost ==
    damage = 0 =>
        \A i \in Items :
            \/ orig[i] = latest[i]
            \/ \E s \in Shells : Named(s) /\ bak[s][i] = latest[i]

\* Copies that still have, and on the device too, what their record froze.
Recoverable(s) == damage = 0 => bak[s] = frozen[s] /\ dBak[s] = frozen[s]

\* An entry is a part of a tree only under a record that is on the device,
\* with a backup that is on the device and has the digests it froze: nothing
\* is removed before recovery from a power loss is possible.
TornOnlyUnderDurableRecord ==
    \A i \in Items : orig[i] = Torn =>
        \E s \in Shells :
            journal = s /\ dJournal = s /\ Recoverable(s)

\* No moment of an installation shows a complete .codex without the
\* destination's identity files, which recovery would take for a logout.
NoIdentityGap == orig[1] # Bare

\* Whoever replaces entries, a child that outlived its shell included, holds
\* the lock, works under its own record, and no other attempt is under way.
OneReplacer ==
    \A s \in Shells : pc[s] \in Protected =>
        /\ holder = s
        /\ pc[s] # "clearSync" => journal = s
        /\ \A t \in Shells \ {s} : pc[t] \notin Active

\* The record disappears only when its outcome is settled on the device:
\* everything is the verified new tree, or everything is what was frozen.
\* The one other way is a power loss that undoes an unarmed record.
ClearedMeansSettled ==
    [][\A s \in Shells : journal = s /\ journal' # s =>
          \/ /\ receipt[s] = "installed" /\ dReceipt[s] = "installed"
             /\ \A i \in Items : orig[i] = New /\ dOrig[i] = New
          \/ /\ receipt[s] = "restored" /\ dReceipt[s] = "restored"
             /\ orig = frozen[s] /\ dOrig = frozen[s]
          \/ dJournal # s]_vars

\* A shell reports INSTALLED only after all of the outcome is on the device.
SuccessIsDurable ==
    [][\A s \in Shells : pc[s] # "done" /\ pc'[s] = "done" =>
          /\ \A i \in Items : dOrig'[i] = New /\ orig'[i] = New
          /\ dReceipt'[s] = "installed" /\ journal' = NoOne /\ dJournal' = NoOne]_vars

-----------------------------------------------------------------------------
(* The inductive invariant behind these properties.                        *)

Fresh == {"off"} \cup Preparing

\* A running shell, or a child that outlived it, holds the lock; a record
\* that has an effect belongs to the shell that does.
LockInv ==
    \A s \in Shells :
        /\ pc[s] \in Active => holder = s
        /\ pc[s] \in Protected \ {"clearSync"} => journal = s
        /\ pc[s] \in Protected \ {"arm"} => dJournal = s
        /\ pc[s] = "clearSync" => journal = NoOne

\* An attempt that has written no record has left no trace of one.
FreshInv ==
    \A s \in Shells : pc[s] \in Fresh =>
        journal # s /\ dJournal # s /\ receipt[s] = "none" /\ dReceipt[s] = "none"

\* A running shell's record freezes whole trees, and its copies have what it
\* froze.  (A power loss before the barrier can leave a record without.)
RecordInv ==
    \A s \in Shells : pc[s] \in Protected =>
        /\ \A i \in Items : frozen[s][i] # Torn
        /\ damage = 0 => bak[s] = frozen[s]
        /\ pc[s] # "arm" => Recoverable(s)

\* Originals differ from their durable state, or are torn, only under a
\* record that is visible and durable.
OriginalInv ==
    \A i \in Items :
        orig[i] # dOrig[i] \/ orig[i] = Torn \/ dOrig[i] = Torn =>
            \E s \in Shells : journal = s /\ dJournal = s /\ Recoverable(s)

\* What a protected shell knows of the originals at each point.
ProgressInv ==
    \A s \in Shells :
        /\ pc[s] \in {"arm", "guard"} => orig = frozen[s]
        /\ pc[s] \in {"receipt", "seal"} => \A i \in Items : orig[i] = New
        /\ pc[s] = "seal" => receipt[s] = "installed"
        /\ pc[s] = "rbSeal" => receipt[s] = "restored" /\ orig = frozen[s]
        /\ pc[s] \in Clearing =>
              /\ receipt[s] \in {"installed", "restored"}
              /\ receipt[s] = dReceipt[s] /\ orig = dOrig
              /\ receipt[s] = "installed" => \A i \in Items : orig[i] = New
              /\ receipt[s] = "restored" => orig = frozen[s]

\* The .codex tree without identity exists in staging only, and no longer
\* there when a shell can move it.
IdentityInv ==
    /\ orig[1] # Bare /\ dOrig[1] # Bare
    /\ \A s \in Shells :
          /\ bak[s][1] # Bare /\ dBak[s][1] # Bare
          /\ pc[s] \in Active \ {"check", "copy", "prepare"} => staged[1] # Bare

\* The user's last version of an entry is in the durable backup of a durable
\* installation receipt.
Kept(i) ==
    \E t \in Shells :
        /\ receipt[t] = "installed" /\ dReceipt[t] = "installed"
        /\ bak[t][i] = latest[i] /\ dBak[t][i] = latest[i]

\* It is there, or in the destination for good, or under the pending record;
\* and it is under the running shell's record before that shell removes it.
SafeInv ==
    damage = 0 =>
        \A i \in Items :
            /\ \/ orig[i] = latest[i] /\ dOrig[i] = latest[i]
               \/ Kept(i)
               \/ \E s \in Shells : /\ journal = s /\ dJournal = s
                                    /\ bak[s][i] = latest[i] /\ dBak[s][i] = latest[i]
            /\ \A s \in Shells : pc[s] \in Protected =>
                    frozen[s][i] = latest[i] \/ Kept(i)

IInv ==
    /\ TypeOK /\ LockInv /\ FreshInv /\ RecordInv /\ OriginalInv
    /\ ProgressInv /\ IdentityInv /\ SafeInv
=============================================================================
