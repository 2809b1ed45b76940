------------------------- MODULE DestinationRestore -------------------------
(***************************************************************************)
(* The confirmed restoration that follows an interrupted installation:     *)
(* restore.py, with the locked context of recovery.py and the read-only    *)
(* verdict of reconciliation.py.                                           *)
(*                                                                         *)
(* It starts where DestinationInstall stops: a record is pending, its      *)
(* backup has the digests it froze, and each of the N destination entries  *)
(* may hold the original, the installed tree, a part of either, or         *)
(* nothing.  An attempt freezes what it found (plan.json), builds the      *)
(* trees to put back (prepared/), freezes those (ready.json), and then     *)
(* moves each current entry to current/ and each prepared one into its     *)
(* place by renames that replace nothing.  Any attempt can stop anywhere;  *)
(* the next one resumes from the records.                                  *)
(*                                                                         *)
(* Every variable that starts with d is what the device holds if the power *)
(* goes now.  A rename between two folders is one change on the device.    *)
(***************************************************************************)
EXTENDS Naturals, FiniteSets

CONSTANTS
    N,           \* number of entries in the record's scope; entry 1 is ~/.codex
    Slots,       \* folders incomplete/0..Slots-1 (100 in the code)
    MaxStops,    \* bound on attempts that end early
    MaxEdits,    \* bound on changes by apps on the destination
    MaxFaults    \* bound on power losses and copies that go bad on the disk

Items == 1..N

ASSUME ScopeAssumption == N \in Nat \ {0}
ASSUME BoundAssumption ==
    Slots \in Nat /\ MaxStops \in Nat /\ MaxEdits \in Nat /\ MaxFaults \in Nat

\* What a digest tells apart: the data of an entry, and for ~/.codex whose
\* auth.json and installation_id it has.
Bodies == {"gone", "old", "new", "part", "later"}
Identities == {"none", "dest", "later"}
Tree == [body : Bodies, id : Identities]
Gone == [body |-> "gone", id |-> "none"]
Part == [body |-> "part", id |-> "none"]
There(t) == t # Gone

\* An entry's path, its slot in current/ and its candidate in prepared/.
Place == [orig : Tree, saved : Tree, prep : Tree]
Records == {"plan", "ready", "done"}

VARIABLES
    pc, at,            \* the running attempt and the entry its loop is at
    orphan,            \* a child of a dead shell that still holds the lock
    place, dPlace,
    files, dFiles,     \* plan.json, ready.json, complete.json
    current,           \* digests in plan.json
    desired,           \* digests in ready.json
    kept,              \* slots of incomplete/ in use
    frozen,            \* digests in the pending record (a constant of the run)
    rotten,            \* entries whose backup copy has gone bad
    journal, dJournal, \* whose record is pending: this one, another's, nobody's
    latest,            \* (history) what the destination last had, but for our moves
    meddled,           \* (history) an app changed an entry during an attempt
    hasty,             \* (history) the power went before ready.json's barrier
    edits, stops, faults

disk == <<place, dPlace, files, dFiles, current, desired, kept, journal, dJournal>>
world == <<frozen, rotten, latest, meddled, hasty, edits, stops, faults>>
vars == <<pc, at, orphan, disk, world>>

Labels == {"idle", "plan", "planSync", "prepare", "clone", "overlay", "recheck",
           "ready", "readySync", "guard", "validate", "verifyOld", "moveOld",
           "syncOld", "moveNew", "syncNew", "check", "final", "doneSync",
           "unlink", "unlinkSync"}

TypeOK ==
    /\ pc \in Labels /\ at \in Items
    /\ orphan \in {"none", "rm", "cp"}
    /\ place \in [Items -> Place] /\ dPlace \in [Items -> Place]
    /\ files \in [Records -> {"none", "partial", "whole"}]
    /\ dFiles \in [Records -> {"none", "partial", "whole"}]
    /\ current \in [Items -> Tree] /\ desired \in [Items -> Tree]
    /\ frozen \in [Items -> Tree] /\ latest \in [Items -> Tree]
    /\ rotten \subseteq Items
    /\ kept \in 0..Slots
    /\ journal \in {"this", "other", "none"} /\ dJournal \in {"this", "other", "none"}
    /\ meddled \in BOOLEAN /\ hasty \in BOOLEAN
    /\ edits \in 0..MaxEdits /\ stops \in 0..MaxStops /\ faults \in 0..MaxFaults

\* Trees that an interrupted installation or rollback can leave.  Removing
\* ~/.codex takes its files one by one, the identity files among them.
Interrupted(i) ==
    {frozen[i], Gone, Part} \cup
    IF i = 1 THEN {[body |-> "new", id |-> "dest"], [body |-> "part", id |-> "dest"]}
             ELSE {[body |-> "new", id |-> "none"]}

Init ==
    /\ frozen \in {f \in [Items -> Tree] :
          /\ f[1] = [body |-> "old", id |-> "dest"]
          /\ \A i \in Items \ {1} : f[i] \in {Gone, [body |-> "old", id |-> "none"]}}
    /\ latest \in {t \in [Items -> Tree] : \A i \in Items : t[i] \in Interrupted(i)}
    /\ place = [i \in Items |-> [orig |-> latest[i], saved |-> Gone, prep |-> Gone]]
    /\ dPlace = place
    /\ orphan \in {"none", "rm"}
    /\ pc = "idle" /\ at = 1
    /\ files = [r \in Records |-> "none"] /\ dFiles = files
    /\ current = [i \in Items |-> Gone] /\ desired = current
    /\ kept = 0 /\ rotten = {}
    /\ journal = "this" /\ dJournal = "this"
    /\ meddled = FALSE /\ hasty = FALSE
    /\ edits = 0 /\ stops = 0 /\ faults = 0

-----------------------------------------------------------------------------
(* Apps on the destination, and children of dead shells.                   *)

Goto(l) == pc' = l
Running == pc # "idle"
LockFree == ~Running /\ orphan = "none"

\* The change is on the device when made, and so are earlier renames of the
\* same path.
PutOrig(i, t) ==
    /\ place' = [place EXCEPT ![i].orig = t]
    /\ dPlace' = [dPlace EXCEPT ![i] = IF dFiles["ready"] = "whole" THEN place'[i]
                                       ELSE [@ EXCEPT !.orig = t]]
    /\ latest' = [latest EXCEPT ![i] = t]

\* The process check is no prohibition: an app can start at any time.
Edit(i) ==
    LET t == place[i].orig IN
    /\ edits < MaxEdits
    /\ \E new \in {Gone, [body |-> "later", id |-> t.id]} \cup
                  (IF i = 1 /\ There(t)
                   THEN {[t EXCEPT !.id = d] : d \in {"none", "later"}} ELSE {}) :
          new # t /\ PutOrig(i, new)
    /\ edits' = edits + 1
    /\ meddled' = (meddled \/ Running)
    /\ UNCHANGED <<pc, at, orphan, files, dFiles, current, desired, kept, journal,
                   dJournal, frozen, rotten, hasty, stops, faults>>

\* The installer's rm goes on after its shell has died, or a dead attempt's
\* cp; either keeps the inherited lock until it ends.
OrphanEnds ==
    /\ orphan' = "none"
    /\ \/ /\ orphan = "rm"
          /\ \E i \in Items, t \in {Gone, Part} : There(place[i].orig) /\ PutOrig(i, t)
       \/ /\ orphan = "rm" /\ UNCHANGED <<place, dPlace, latest>>
       \/ /\ orphan = "cp"
          /\ \E t \in {frozen[at], Part} : place' = [place EXCEPT ![at].prep = t]
          /\ UNCHANGED <<dPlace, latest>>
    /\ UNCHANGED <<pc, at, files, dFiles, current, desired, kept, journal,
                   dJournal, frozen, rotten, meddled, hasty, edits, stops, faults>>

\* Once nothing is pending another installation may run, to its end or not.
OtherInstall ==
    /\ LockFree /\ journal = "none"
    /\ edits < MaxEdits
    /\ edits' = edits + 1
    /\ place' = [i \in Items |-> [place[i] EXCEPT !.orig =
                    [body |-> "new", id |-> IF i = 1 THEN "dest" ELSE "none"]]]
    /\ dPlace' = place'
    /\ latest' = [i \in Items |-> place'[i].orig]
    /\ journal' \in {"none", "other"} /\ dJournal' = journal'
    /\ UNCHANGED <<pc, at, orphan, files, dFiles, current, desired, kept, frozen,
                   rotten, meddled, hasty, stops, faults>>

-----------------------------------------------------------------------------
(* One attempt, in the order of restore.py.                                *)

\* The confirmed record is pending, every backup copy has the digest the
\* record froze, Codex is closed.  Where the attempt goes on depends on the
\* records of earlier ones; without a plan the folder must hold nothing else.
Open ==
    /\ LockFree /\ journal = "this" /\ rotten = {}
    /\ at' = 1
    /\ \/ /\ files["plan"] # "whole"
          /\ files["ready"] = "none" /\ files["done"] = "none"
          /\ \A i \in Items : ~There(place[i].saved) /\ ~There(place[i].prep)
          /\ Goto("plan")
       \/ /\ files["plan"] = "whole" /\ files["ready"] # "whole"
          /\ \A i \in Items : ~There(place[i].saved)
          /\ Goto("prepare")
       \/ /\ files["plan"] = "whole" /\ files["ready"] = "whole"
          /\ Goto("guard")
    /\ UNCHANGED <<orphan, disk, world>>

\* (mutant) Left-over temporary files are not moved away.
SetAsideNever == FALSE /\ UNCHANGED kept

\* quarantine: what an interrupted write left is moved into a free slot.
SetAside == kept < Slots /\ kept' = kept + 1

SavingAt(r) == pc = [plan |-> "plan", ready |-> "ready", done |-> "final"][r]

SetRecordAside(r) ==
    /\ SavingAt(r) /\ files[r] = "partial"
    /\ SetAside
    /\ files' = [files EXCEPT ![r] = "none"]
    /\ dFiles' = [dFiles EXCEPT ![r] = "none"]
    /\ UNCHANGED <<pc, at, orphan, place, dPlace, current, desired, journal,
                   dJournal, world>>

\* Freeze what is there now; the rename of plan.json into place.
SavePlan ==
    /\ pc = "plan" /\ files["plan"] # "partial"
    /\ current' = [i \in Items |-> place[i].orig]
    /\ files' = [files EXCEPT !["plan"] = "whole"]
    /\ Goto("planSync")
    /\ UNCHANGED <<at, orphan, place, dPlace, dFiles, desired, kept, journal,
                   dJournal, world>>

PlanSynced ==
    /\ pc = "planSync"
    /\ dFiles' = [dFiles EXCEPT !["plan"] = "whole"]
    /\ Goto("prepare")
    /\ UNCHANGED <<at, orphan, place, dPlace, files, current, desired, kept,
                   journal, dJournal, world>>

\* An unfinished candidate of an earlier attempt is never trusted.
SetCandidateAside ==
    /\ pc = "prepare" /\ place[at].orig = current[at]
    /\ There(place[at].prep)
    /\ SetAside
    /\ place' = [place EXCEPT ![at].prep = Gone]
    /\ dPlace' = [dPlace EXCEPT ![at].prep = Gone]
    /\ UNCHANGED <<pc, at, orphan, files, dFiles, current, desired, journal,
                   dJournal, world>>

\* Clone the backup copy and compare the clone with the frozen digest.
Clone ==
    /\ pc = "prepare" /\ place[at].orig = current[at]
    /\ ~There(place[at].prep)
    /\ at \notin rotten
    /\ place' = [place EXCEPT ![at].prep = frozen[at]]
    /\ Goto(IF at = 1 THEN "overlay" ELSE "recheck")
    /\ UNCHANGED <<at, orphan, dPlace, files, dFiles, current, desired, kept,
                   journal, dJournal, world>>

\* The candidate for ~/.codex takes over the identity files of the entry that
\* is there now, and their absence; only an absent entry leaves the backup's.
Overlay ==
    /\ pc = "overlay"
    /\ place' = IF There(place[1].orig)
                THEN [place EXCEPT ![1].prep.id = place[1].orig.id] ELSE place
    /\ Goto("recheck")
    /\ UNCHANGED <<at, orphan, dPlace, files, dFiles, current, desired, kept,
                   journal, dJournal, world>>

\* Go to the next entry, or to label l after the last one, from label here.
Advance(here, l) ==
    /\ at' = IF at < N THEN at + 1 ELSE 1
    /\ Goto(IF at < N THEN here ELSE l)

\* The entry is still what the plan froze; note the candidate's digest.
Recheck ==
    /\ pc = "recheck" /\ place[at].orig = current[at]
    /\ desired' = [desired EXCEPT ![at] = place[at].prep]
    /\ Advance("prepare", "ready")
    /\ UNCHANGED <<orphan, place, dPlace, files, dFiles, current, kept, journal,
                   dJournal, world>>

SaveReady ==
    /\ pc = "ready" /\ files["ready"] # "partial"
    /\ files' = [files EXCEPT !["ready"] = "whole"]
    /\ Goto("readySync")
    /\ UNCHANGED <<at, orphan, place, dPlace, dFiles, current, desired, kept,
                   journal, dJournal, world>>

\* A device barrier: records that are visible become durable, and with the
\* first one for ready.json the candidates, which were flushed before it.
Barrier ==
    /\ dFiles' = [dFiles EXCEPT !["plan"] = "whole", !["ready"] = "whole"]
    /\ dPlace' = IF dFiles["ready"] = "whole" THEN dPlace
                 ELSE [i \in Items |-> [dPlace[i] EXCEPT !.prep = place[i].prep]]

ReadySynced ==
    /\ pc = "readySync"
    /\ Barrier
    /\ Goto("guard")
    /\ UNCHANGED <<at, orphan, place, files, current, desired, kept, journal,
                   dJournal, world>>

\* Codex is closed; both records are flushed again, whoever wrote them.
Resync ==
    /\ pc = "guard"
    /\ Barrier
    /\ Goto("validate")
    /\ UNCHANGED <<at, orphan, place, files, current, desired, kept, journal,
                   dJournal, world>>

\* (mutant) A candidate still in prepared/ means that its path is free.
ValidMoved(i) ==
    LET p == place[i]  old == current[i]  new == desired[i] IN
    /\ There(p.saved) => There(old) /\ p.saved = old
    /\ ~There(p.saved) /\ There(old) =>
          p.orig = old /\ (There(new) => There(p.prep))
    /\ There(p.prep) => p.prep = new /\ ~There(p.orig)
    /\ ~There(p.prep) /\ (There(p.saved) \/ ~There(old)) => p.orig = new

\* The states that an entry can legally be in before, between and after its
\* two renames.
Valid(i) ==
    LET p == place[i]  old == current[i]  new == desired[i] IN
    /\ There(p.saved) => There(old) /\ p.saved = old
    /\ ~There(p.saved) /\ There(old) =>
          p.orig = old /\ (There(new) => There(p.prep))
    /\ There(p.prep) =>
          p.prep = new /\ ((~There(p.saved) /\ There(old)) \/ ~There(p.orig))
    /\ ~There(p.prep) /\ (There(p.saved) \/ ~There(old)) => p.orig = new

\* All entries are validated before any is moved.
Validate ==
    /\ pc = "validate"
    /\ \A i \in Items : Valid(i)
    /\ Goto("verifyOld")
    /\ UNCHANGED <<at, orphan, disk, world>>

VerifyOld ==
    /\ pc = "verifyOld"
    /\ IF There(current[at]) /\ ~There(place[at].saved)
       THEN place[at].orig = current[at] /\ Goto("moveOld")
       ELSE Goto("moveNew")
    /\ UNCHANGED <<at, orphan, disk, world>>

\* Exclusive renames: the target must not exist at that moment.
MoveOld ==
    /\ pc = "moveOld"
    /\ There(place[at].orig) /\ ~There(place[at].saved)
    /\ place' = [place EXCEPT ![at].saved = place[at].orig, ![at].orig = Gone]
    /\ Goto("syncOld")
    /\ UNCHANGED <<at, orphan, dPlace, files, dFiles, current, desired, kept,
                   journal, dJournal, world>>

\* (mutant) A rename that replaces its target.
MoveNewOver ==
    /\ pc = "moveNew"
    /\ IF There(place[at].prep)
       THEN /\ place[at].prep = desired[at]
            /\ place' = [place EXCEPT ![at].orig = place[at].prep, ![at].prep = Gone]
            /\ Goto("syncNew")
       ELSE UNCHANGED place /\ Goto("check")
    /\ UNCHANGED <<at, orphan, dPlace, files, dFiles, current, desired, kept,
                   journal, dJournal, world>>

MoveNew ==
    /\ pc = "moveNew"
    /\ IF There(place[at].prep)
       THEN /\ place[at].prep = desired[at]
            /\ ~There(place[at].orig)
            /\ place' = [place EXCEPT ![at].orig = place[at].prep, ![at].prep = Gone]
            /\ Goto("syncNew")
       ELSE UNCHANGED place /\ Goto("check")
    /\ UNCHANGED <<at, orphan, dPlace, files, dFiles, current, desired, kept,
                   journal, dJournal, world>>

\* (mutant) Only the destination's folder is flushed.
MoveHalfSynced ==
    /\ pc \in {"syncOld", "syncNew"}
    /\ dPlace' = [dPlace EXCEPT ![at].orig = place[at].orig]
    /\ Goto(IF pc = "syncOld" THEN "moveNew" ELSE "check")
    /\ UNCHANGED <<at, orphan, place, files, dFiles, current, desired, kept,
                   journal, dJournal, world>>

\* Both folders of a rename are flushed, then the device.
MoveSynced ==
    /\ pc \in {"syncOld", "syncNew"}
    /\ dPlace' = [dPlace EXCEPT ![at] = place[at]]
    /\ Goto(IF pc = "syncOld" THEN "moveNew" ELSE "check")
    /\ UNCHANGED <<at, orphan, place, files, dFiles, current, desired, kept,
                   journal, dJournal, world>>

Check ==
    /\ pc = "check"
    /\ place[at].orig = desired[at] /\ place[at].saved = current[at]
    /\ Advance("verifyOld", "final")
    /\ UNCHANGED <<orphan, disk, world>>

\* Everything once more, flushed; then complete.json repeats ready.json.
SaveDone ==
    /\ pc = "final" /\ files["done"] # "partial"
    /\ \A i \in Items : place[i].orig = desired[i] /\ place[i].saved = current[i]
    /\ files' = [files EXCEPT !["done"] = "whole"]
    /\ Goto("doneSync")
    /\ UNCHANGED <<at, orphan, place, dPlace, dFiles, current, desired, kept,
                   journal, dJournal, world>>

\* (mutant) The completion record is not forced to the device.
DoneUnsynced ==
    /\ pc = "doneSync" /\ dPlace' = place /\ Goto("unlink")
    /\ UNCHANGED <<at, orphan, place, files, dFiles, current, desired, kept,
                   journal, dJournal, world>>

DoneSynced ==
    /\ pc = "doneSync"
    /\ dFiles' = [dFiles EXCEPT !["done"] = "whole"]
    /\ dPlace' = place
    /\ Goto("unlink")
    /\ UNCHANGED <<at, orphan, place, files, current, desired, kept, journal,
                   dJournal, world>>

\* Only then is the pending record removed.
Unlink ==
    /\ pc = "unlink"
    /\ journal' = "none"
    /\ Goto("unlinkSync")
    /\ UNCHANGED <<at, orphan, place, dPlace, files, dFiles, current, desired, kept,
                   dJournal, world>>

UnlinkSynced ==
    /\ pc = "unlinkSync"
    /\ dJournal' = "none"
    /\ Goto("idle")
    /\ UNCHANGED <<at, orphan, place, dPlace, files, dFiles, current, desired, kept,
                   journal, world>>

-----------------------------------------------------------------------------
(* Attempts that end early, and the device.                                *)

\* A check fails, the session is lost, or the process is killed.  A write
\* under way leaves its temporary file, a copy a part of a tree.
Stop ==
    /\ Running /\ stops < MaxStops
    /\ stops' = stops + 1
    /\ Goto("idle")
    /\ \/ UNCHANGED <<orphan, place, files>>
       \/ /\ \E r \in Records : SavingAt(r) /\ files[r] = "none"
                                 /\ files' = [files EXCEPT ![r] = "partial"]
          /\ UNCHANGED <<orphan, place>>
       \/ /\ pc \in {"prepare", "overlay"} /\ There(frozen[at])
          /\ pc = "prepare" => ~There(place[at].prep)
          /\ place' = [place EXCEPT ![at].prep = Part]
          /\ orphan' \in {"none", "cp"}
          /\ UNCHANGED files
    /\ UNCHANGED <<at, dPlace, dFiles, current, desired, kept, journal, dJournal,
                   frozen, rotten, latest, meddled, hasty, edits, faults>>

\* A record whose rename is not on the device may be gone, or be its
\* temporary file; a candidate that is not may be torn; a rename may be undone.
\* What was made later in the same folder, prepared/ too, is not there without
\* what was made before.
RecordSurvivor(r) ==
    IF files[r] = dFiles[r] THEN {files[r]} ELSE {files[r], dFiles[r], "partial"}

PlaceSurvivor(i) ==
    {place[i], dPlace[i]} \cup
    IF dFiles["ready"] # "whole" /\ place[i].prep # dPlace[i].prep
    THEN {[place[i] EXCEPT !.prep = Part]} ELSE {}

PowerLoss ==
    /\ faults < MaxFaults
    /\ faults' = faults + 1
    /\ pc' = "idle" /\ orphan' = "none"
    /\ files' \in {f \in [Records -> {"none", "partial", "whole"}] :
                      /\ \A r \in Records : f[r] \in RecordSurvivor(r)
                      /\ f["ready"] # "none" => f["plan"] = "whole"
                      /\ f["done"] # "none" => f["ready"] = "whole"}
    /\ place' \in {p \in [Items -> UNION {PlaceSurvivor(i) : i \in Items}] :
                      \A i \in Items :
                          /\ p[i] \in PlaceSurvivor(i)
                          /\ There(p[i].prep) => files'["plan"] = "whole"}
    /\ journal' \in {journal, dJournal}
    /\ dFiles' = files' /\ dPlace' = place' /\ dJournal' = journal'
    /\ hasty' = (hasty \/ (files["ready"] = "whole" /\ dFiles["ready"] # "whole"))
    /\ UNCHANGED <<at, current, desired, kept, frozen, rotten, latest, meddled,
                   edits, stops>>

Rot(i) ==
    /\ faults < MaxFaults
    /\ There(frozen[i])
    /\ faults' = faults + 1
    /\ rotten' = rotten \cup {i}
    /\ UNCHANGED <<pc, at, orphan, disk, frozen, latest, meddled, hasty, edits,
                   stops>>

Attempt ==
    \/ Open \/ SavePlan \/ PlanSynced \/ SetCandidateAside \/ Clone \/ Overlay
    \/ Recheck \/ SaveReady \/ ReadySynced \/ Resync \/ Validate \/ VerifyOld
    \/ MoveOld \/ MoveNew \/ MoveSynced \/ Check \/ SaveDone \/ DoneSynced
    \/ Unlink \/ UnlinkSynced \/ \E r \in Records : SetRecordAside(r)

Next ==
    \/ Attempt \/ OrphanEnds \/ Stop \/ PowerLoss \/ OtherInstall
    \/ \E i \in Items : Edit(i) \/ Rot(i)

Spec == Init /\ [][Next]_vars

\* A person who asks for the restoration again whenever it is not running,
\* and processes that run until they end.
FairSpec == Spec /\ WF_vars(Attempt) /\ WF_vars(OrphanEnds)

-----------------------------------------------------------------------------
(* What a later read-only check says (reconciliation.py).                  *)

Unfinished ==
    IF journal = "this" THEN "restore_incomplete" ELSE "restore_unconfirmed"

\* (mutant) The completion record is believed without looking at the entries.
ReconcileTrusting ==
    IF ~LockFree THEN "busy"
    ELSE IF journal = "other" THEN "different_transaction"
    ELSE IF files["done"] # "whole" THEN Unfinished
    ELSE IF journal = "this" THEN "restore_pending_cleanup" ELSE "restore_verified"

ReconcileStatus ==
    IF ~LockFree THEN "busy"
    ELSE IF journal = "other" THEN "different_transaction"
    ELSE IF files["plan"] # "whole" /\ files["ready"] # "whole" /\ files["done"] # "whole"
        THEN Unfinished
    ELSE IF files["plan"] # "whole" \/ rotten # {} THEN "refused"
    ELSE IF files["done"] # "whole" THEN Unfinished
    ELSE IF files["ready"] # "whole" \/ \E i \in Items : There(place[i].prep)
        THEN "refused"
    ELSE IF \E i \in Items : place[i].orig # desired[i] \/ place[i].saved # current[i]
        THEN "restore_changed"
    ELSE IF journal = "this" THEN "restore_pending_cleanup" ELSE "restore_verified"

-----------------------------------------------------------------------------
(* What restoration promises.                                              *)

\* What the destination last had of an entry, through installation or by its
\* apps, is in its path or in its slot, on the device too: "current
\* destination entries are never deleted".
NothingDiscarded ==
    \A i \in Items : There(latest[i]) =>
        \A p \in {place[i], dPlace[i]} : latest[i] \in {p.orig, p.saved}

\* An entry in its slot stays there unchanged for ever, but for a power loss
\* that undoes the whole rename, which brings it back to its path.
SavedForGood ==
    [][\A i \in Items :
          LET p == place[i] IN
          There(p.saved) /\ place'[i].saved # p.saved =>
              ~There(place'[i].saved) /\ place'[i].orig = p.saved]_vars

\* When an attempt would find that it cannot go on.
CanResume ==
    IF files["plan"] # "whole"
    THEN /\ files["ready"] = "none" /\ files["done"] = "none"
         /\ \A i \in Items : ~There(place[i].saved) /\ ~There(place[i].prep)
    ELSE IF files["ready"] # "whole"
    THEN \A i \in Items : ~There(place[i].saved) /\ place[i].orig = current[i]
    ELSE \A i \in Items : Valid(i)

\* Stopped or cut off from power, restoration can be resumed: while nobody
\* changes an entry or a copy, no attempt leaves a state that the checks of
\* the next one refuse.  The exception is a power loss between the rename of
\* ready.json and its barrier, the first one after the candidates' flush.
NeverWedged ==
    ~Running /\ orphan = "none" /\ journal = "this" /\ edits = 0 /\ rotten = {}
        => CanResume \/ hasty

\* The entry is the frozen backup with the identity of the displaced entry.
Restored(i) ==
    LET p == place[i] IN
    /\ p.orig.body = frozen[i].body
    /\ p.saved = current[i]
    /\ ~meddled => p.orig.id = IF i = 1 /\ There(p.saved) THEN p.saved.id
                               ELSE frozen[i].id

\* The record disappears only when all entries are restored and the displaced
\* ones are in their slots, on the device, with a completion record that says
\* so.  An app may since have changed an entry, never a slot.
ClearedMeansRestored ==
    [][journal = "this" /\ journal' # "this" /\ dJournal = "this" =>
          /\ dFiles["done"] = "whole"
          /\ \A i \in Items :
                /\ place[i].saved = current[i] /\ dPlace[i] = place[i]
                /\ ~meddled => Restored(i)]_vars

\* A verdict of restore_verified is true, and no power loss can undo what it
\* says of the entries, even when it is given before the attempt's own report
\* was delivered.
VerifiedIsTrue ==
    ReconcileStatus = "restore_verified" =>
        \A i \in Items : Restored(i) /\ dPlace[i] = place[i]

\* If apps leave it alone, the copies hold and the slots last, restoration that
\* is asked for again after each early end finishes, and stays finished.
RestoreCompletes ==
    \/ <>[](journal # "this")
    \/ <>(edits > 0 \/ rotten # {} \/ hasty \/ kept = Slots)

\* The destination stays signed in through an interrupted installation and
\* its restoration when nobody signs out.
SignedInStays ==
    ReconcileStatus = "restore_verified" /\ edits = 0 =>
        place[1].orig.id = "dest"
=============================================================================
