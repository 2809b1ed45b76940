--------------------------- MODULE MigrationEngine ---------------------------
(***************************************************************************)
(* The engine on the source Mac (migration.py), driven by the dashboard:   *)
(* one worker thread that inspects, stages, finalizes, checks recovery,    *)
(* restores or checks paths and Git; request handlers that start it, pause *)
(* it and stop it; the saved state that outlives the process (state.py);   *)
(* and the destination, seen through the SSH requests it serves.           *)
(*                                                                         *)
(* The worker takes the engine lock for some of its writes and not for     *)
(* others, so a handler and the worker interleave.  The process can be     *)
(* killed, the Mac can lose its power, a reply can be lost while the       *)
(* destination goes on working: each is an action of its own.              *)
(*                                                                         *)
(* The protected installation and the restoration are seen here only as    *)
(* what they do to the destination as a whole; DestinationInstall and      *)
(* DestinationRestore have their steps.  The engine is that of the full    *)
(* migration (requires_home_compatibility), started with --apply.          *)
(***************************************************************************)
EXTENDS Naturals, Sequences

CONSTANTS
    Requests,     \* bound: which requests are made, of those one can do without
    MaxInstalls,  \* bound on installations that write a transaction record
    MaxCrashes,   \* bound on killed processes
    MaxLosses,    \* bound on power losses of the source Mac
    MaxEdits,     \* bound on work the user does on the destination
    MaxFaults     \* bound on the three together

ASSUME BoundAssumption ==
    /\ Requests \subseteq {"inspect", "check_paths", "pause", "cancel",
                     "stop_checks", "quit"}
    /\ MaxInstalls \in Nat /\ MaxEdits \in Nat
    /\ MaxCrashes \in Nat /\ MaxLosses \in Nat /\ MaxFaults \in Nat

VARIABLES
    st, dSt,      \* state.json, and what the disk has of it if the power goes
    prog, pc,     \* the worker's program and where it is in it
    verdict,      \* the worker's last report from the destination
    flag,         \* _cancel_requested and its likes
    requested,    \* a start that passed its checks outside the lock
    ctl,          \* the stop whose handler is between reading and writing
    up, closing,  \* the process runs; its server is closed
    remote,       \* the writer that holds the destination's lock
    journal,      \* transaction of the pending record; 0 when there is none
    content,      \* what the destination has
    base,         \* what it had when that record was written
    restored,     \* transactions with a complete.json
    asked,        \* transaction that the last restore request names
    txn, crashes, losses, edits

local == <<st, dSt, prog, pc, verdict, flag, requested, ctl, up, closing>>
record == <<journal, content, base, restored, txn>>
destination == <<remote, asked, record>>
faults == <<crashes, losses, edits>>
Within == crashes + losses + edits < MaxFaults
vars == <<local, destination, faults>>

\* The worker's programs: the order in which each thread target does things.
Script == [
    none    |-> <<>>,
    raised  |-> <<"guard", "fail">>,
    inspect |-> <<"check", "probe", "publish", "stop">>,
    preseed |-> <<"begin", "check", "probe", "publish", "stop", "prepare",
                  "stop", "enter", "copy", "copying", "stop", "staged">>,
    finalize |-> <<"check", "probe", "publish", "closed", "prepare",
                  "freeze", "reading", "baseline", "stop", "enter", "copy",
                  "copying", "stop", "freeze", "reading", "stop", "reclosed",
                  "commit", "install", "reply", "complete",
                  "paths", "handoff", "git", "probeGit", "verified">>,
    recover |-> <<"look", "report">>,
    restore |-> <<"send", "reply", "judge", "report">>,
    paths   |-> <<"paths", "handoff", "git", "probeGit", "verified">>]

Programs == DOMAIN Script
Stopping == {"pause", "cancel", "quit", "quitInstalling"}
Protected == {"restoring", "restored", "recovery_required"}
Installed == {"path_compatibility", "git_verification", "verified"}
Contents == {"old", "edited", "new", "mixed"}
\* Reports of recovery.py and reconciliation.py; "unknown" is every report
\* that nothing is decided from.
Reports == {"unknown", "backup_verified", "restore_incomplete",
            "restore_pending_cleanup", "restore_verified"}

States == [
    status : {"idle", "running", "ready", "waiting", "paused", "cancelled",
              "failed", "interrupted", "ready_to_finalize", "needs_attention",
              "complete"},
    phase : {"idle", "inspecting", "preflight_complete", "staging", "staged",
             "verifying_sources", "final_delta", "close_codex", "installing"}
            \cup Protected \cup Installed,
    staging_complete : BOOLEAN,
    receipt : BOOLEAN,
    attempt : 0..MaxInstalls,     \* recovery_attempt: its transaction
    resolved : BOOLEAN,           \* and whether it was verified
    recovery : {"checking", "restoring"} \cup Reports,
    found : 0..MaxInstalls,       \* transaction the recovery report names
    path : {"checking", "ready", "unverified"},      \* not known to be ready
    git : {"checking", "verified", "unverified"}]    \* not known to match

Flags == [cancel : BOOLEAN, pause : BOOLEAN, recovery : BOOLEAN,
          path : BOOLEAN, git : BOOLEAN]

TypeOK ==
    /\ st \in States /\ dSt \in States
    /\ prog \in Programs /\ pc \in 0..Len(Script["finalize"])
    /\ prog # "none" => pc \in 1..Len(Script[prog])
    /\ verdict \in Reports \cup {"unverified", "ready", "verified"}
    /\ flag \in Flags
    /\ requested \in {"none", "preseed", "finalize"}
    /\ ctl \in {"none"} \cup Stopping
    /\ up \in BOOLEAN /\ closing \in BOOLEAN
    /\ remote \in {"none", "stage", "install", "installing", "restore", "restoring"}
    /\ journal \in 0..txn /\ txn \in 0..MaxInstalls
    /\ content \in Contents /\ base \in Contents
    /\ restored \subseteq 1..txn /\ asked \in 0..txn
    /\ crashes \in 0..MaxCrashes /\ losses \in 0..MaxLosses /\ edits \in 0..MaxEdits

Init ==
    /\ st = [status |-> "idle", phase |-> "idle", staging_complete |-> FALSE,
             receipt |-> FALSE, attempt |-> 0, resolved |-> FALSE,
             recovery |-> "unknown", found |-> 0, path |-> "unverified",
             git |-> "unverified"]
    /\ dSt = st
    /\ prog = "none" /\ pc = 0 /\ verdict = "unknown"
    /\ flag = [cancel |-> FALSE, pause |-> FALSE, recovery |-> FALSE,
               path |-> FALSE, git |-> FALSE]
    /\ requested = "none" /\ ctl = "none"
    /\ up = TRUE /\ closing = FALSE
    /\ remote = "none" /\ journal = 0 /\ txn = 0 /\ restored = {} /\ asked = 0
    /\ content = "old" /\ base = "old"
    /\ crashes = 0 /\ losses = 0 /\ edits = 0

-----------------------------------------------------------------------------
(* Helpers.                                                                *)

With(s, changes) ==
    [f \in DOMAIN s |-> IF f \in DOMAIN changes THEN changes[f] ELSE s[f]]
When(c, s, changes) == IF c THEN With(s, changes) ELSE s
Update(changes) == st' = With(st, changes)
Raised(names) == [f \in DOMAIN flag |-> f \in names \/ flag[f]]
Status(s, p) == [status |-> s, phase |-> p]

Alive == prog # "none"
At(label) == Alive /\ Script[prog][pc] = label
Unlocked == ctl = "none"          \* no handler is inside the engine lock

Go == pc' = pc + 1 /\ UNCHANGED prog
Jump(p) == prog' = p /\ pc' = IF p = "none" THEN 0 ELSE 1
End == Jump("none")
Raise == Jump("raised")

RecoveryResolved ==
    IF st.attempt = 0 THEN st.phase \notin Protected
    ELSE st.resolved /\ st.phase \notin {"restoring", "recovery_required"}

\* _require_ready_for_migration
Ready == RecoveryResolved /\ ~st.receipt /\ st.phase \notin Installed

Reconciling == st.phase \in Protected \/ (st.attempt # 0 /\ ~st.resolved)

Handler == up /\ ~closing /\ Unlocked /\ UNCHANGED <<destination, faults>>
Worker == up /\ UNCHANGED <<requested, ctl, up, closing, faults>>
\* A worker's step that only writes the saved state.
Writes == Worker /\ UNCHANGED <<dSt, verdict, flag, destination>>

-----------------------------------------------------------------------------
(* Requests that start the worker.                                         *)

\* _start, with the lock held.
Start(p) ==
    /\ Jump(p)
    /\ flag' = [flag EXCEPT !.cancel = FALSE, !.pause = FALSE]

Idle == Handler /\ ~Alive
Starts(p) == Idle /\ Start(p) /\ UNCHANGED <<dSt, verdict, requested, ctl, up, closing>>

StartInspection ==
    /\ "inspect" \in Requests
    /\ Ready /\ st.status # "running"
    /\ Starts("inspect")
    /\ Update(Status("running", "inspecting"))

MayPreseed == Ready /\ st.status \in
    {"idle", "ready", "paused", "cancelled", "failed", "interrupted"}
MayFinalize == Ready /\ st.staging_complete /\
    (st.status = "ready_to_finalize"
     \/ (st.status = "waiting" /\ st.phase = "close_codex"))

\* start_preseed and start_finalize check without the lock (one such request
\* at a time is between its check and its start) ...
Request(p) ==
    /\ up /\ ~closing /\ requested = "none"
    /\ CASE p = "preseed" -> MayPreseed [] p = "finalize" -> MayFinalize
    /\ requested' = p
    /\ UNCHANGED <<st, dSt, prog, pc, verdict, flag, ctl, up, closing,
                   destination, faults>>

\* ... and _start takes it, some time later.
StartRequested ==
    /\ up /\ Unlocked /\ requested # "none"
    /\ requested' = "none"
    /\ IF Alive THEN UNCHANGED <<prog, pc, flag>> ELSE Start(requested)
    /\ UNCHANGED <<st, dSt, verdict, ctl, up, closing, destination, faults>>

\* resume calls start_preseed with the lock held.
Resume ==
    /\ st.status \in {"paused", "cancelled", "failed", "interrupted"} /\ MayPreseed
    /\ Starts("preseed")
    /\ UNCHANGED st

StartRecoveryCheck ==
    /\ Idle /\ st.status # "running"
    /\ Update([recovery |-> "checking", found |-> 0])
    /\ Jump("recover")
    /\ flag' = [flag EXCEPT !.recovery = FALSE, !.cancel = FALSE, !.pause = FALSE]
    /\ UNCHANGED <<dSt, verdict, requested, ctl, up, closing>>

\* (mutant) An incomplete restoration cannot be asked for again.
SelectedNeverResumes == IF st.recovery = "backup_verified" THEN st.found ELSE 0

\* The transaction of the reviewed backup, or of the attempt to resume.
Selected ==
    IF st.recovery = "backup_verified" THEN st.found
    ELSE IF st.recovery \in {"restore_incomplete", "restore_pending_cleanup"}
        THEN st.attempt ELSE 0

\* The attempt is on the device before anything is sent; when it cannot be
\* put there, nothing is.
StartRestore ==
    /\ Idle /\ st.status # "running" /\ Selected # 0
    /\ UNCHANGED <<verdict, requested, ctl, up, closing>>
    /\ LET opened == With(st, [attempt |-> Selected, resolved |-> FALSE,
               status |-> "running", phase |-> "restoring",
               staging_complete |-> FALSE, recovery |-> "restoring", found |-> 0])
       IN \/ st' = opened /\ dSt' = opened /\ Start("restore")
          \/ /\ st' = With(opened, [status |-> "failed", phase |-> "recovery_required",
                       recovery |-> "unknown"])
             /\ UNCHANGED <<dSt, prog, pc, flag>>

\* start_git_check asks for a receipt too, and then does the same.
StartPathCheck ==
    /\ "check_paths" \in Requests
    /\ Idle /\ RecoveryResolved /\ st.status # "running"
    /\ st' = When(st.receipt, With(st, [path |-> "checking"]),
                  Status("needs_attention", "path_compatibility"))
    /\ Jump("paths")
    /\ flag' = [flag EXCEPT !.path = FALSE, !.git = FALSE, !.cancel = FALSE, !.pause = FALSE]
    /\ UNCHANGED <<dSt, verdict, requested, ctl, up, closing>>

-----------------------------------------------------------------------------
(* Requests that stop it.  Each reads the state, raises its flag, kills    *)
(* the SSH child (whose reply is then lost) and writes the state.  Worker  *)
(* writes outside the lock can come between, hence the second action.      *)

Stop(c, names) ==
    /\ Handler
    /\ ctl' = c /\ flag' = Raised(names)
    /\ UNCHANGED <<st, dSt, prog, pc, verdict, requested, up>>

Pause ==
    /\ "pause" \in Requests
    /\ st.status = "running" /\ st.phase \in {"staging", "final_delta"}
    /\ Stop("pause", {"pause"})
    /\ UNCHANGED closing

Cancel ==
    /\ "cancel" \in Requests
    /\ \/ /\ st.status = "running"
          /\ st.phase \in {"inspecting", "staging", "final_delta", "verifying_sources"}
       \/ st.status = "paused" /\ st.phase = "staging"
    /\ Handler
    /\ ctl' = "cancel" /\ flag' = [Raised({"cancel"}) EXCEPT !.pause = FALSE]
    /\ UNCHANGED <<st, dSt, prog, pc, verdict, requested, up, closing>>

Shutdown ==
    /\ "quit" \in Requests
    /\ st.status = "running" /\ st.phase # "restoring"
    /\ ~\E c \in {st.git, st.path, st.recovery} : c = "checking"
    /\ Stop(IF st.phase = "installing" THEN "quitInstalling" ELSE "quit", {"cancel"})
    /\ closing' = TRUE

StopWritten ==
    /\ up /\ ctl # "none"
    /\ ctl' = "none"
    /\ Update(CASE ctl = "pause" -> Status("paused", "staging")
                [] ctl = "cancel" -> Status("cancelled", "staging")
                [] ctl = "quit" -> [status |-> "interrupted"]
                [] ctl = "quitInstalling" ->
                    [status |-> "failed", staging_complete |-> FALSE])
    /\ UNCHANGED <<dSt, prog, pc, verdict, flag, requested, up, closing,
                   destination, faults>>

StopRecoveryCheck ==
    /\ "stop_checks" \in Requests /\ Handler /\ st.recovery = "checking"
    /\ flag' = Raised({"recovery"})
    /\ Update([recovery |-> "unknown"])
    /\ UNCHANGED <<dSt, prog, pc, verdict, requested, ctl, up, closing>>

GitStopped == [status |-> "needs_attention", phase |-> "git_verification", git |-> "unverified"]

StopGitCheck ==
    /\ "stop_checks" \in Requests /\ Handler
    /\ LET paths == st.receipt /\ st.path = "checking"
       IN /\ st.git = "checking" \/ paths
          /\ flag' = Raised({"git"} \cup IF paths THEN {"path"} ELSE {})
          /\ st' = When(paths, With(st, GitStopped), [path |-> "unverified"])
    /\ UNCHANGED <<dSt, prog, pc, verdict, requested, ctl, up, closing>>

\* Shutdown while a read-only check runs, or while nothing does.
ShutdownChecks ==
    /\ "quit" \in Requests /\ Handler
    /\ LET git == st.git = "checking"
           paths == st.path = "checking"
           checking == st.recovery = "checking"
       IN /\ git \/ paths \/ checking \/ st.status # "running"
          /\ ~(st.status = "running" /\ st.phase = "restoring")
          /\ flag' = Raised({n \in {"git", "path", "recovery"} :
                 CASE n = "git" -> git [] n = "path" -> paths [] n = "recovery" -> checking})
          /\ st' = When(checking, When(paths, When(git, st, GitStopped),
                     [path |-> "unverified"]), [recovery |-> "unknown"])
    /\ closing' = TRUE
    /\ UNCHANGED <<dSt, prog, pc, verdict, requested, ctl, up>>

-----------------------------------------------------------------------------
(* The worker.                                                             *)

\* An exception in the worker.
Fails(labels) ==
    /\ \E l \in labels : At(l)
    /\ Writes /\ Raise /\ UNCHANGED st

\* _inspection_checkpoint raises when a stop was asked for.
Checkpoint == IF flag.cancel THEN Raise ELSE Go

\* _guarded: an exception after a stop keeps what the stop wrote.
Guarded ==
    /\ At("guard") /\ Writes
    /\ IF flag.pause \/ flag.cancel
       THEN /\ End
            /\ st' = When(st.status = "running" /\ st.phase = "verifying_sources", st,
                          Status(IF flag.pause THEN "paused" ELSE "cancelled", "staging"))
       ELSE Go /\ UNCHANGED st

GuardedFails ==
    /\ At("fail") /\ Writes /\ End
    /\ st' = When(st.phase = "installing", With(st, [status |-> "failed"]),
                  [staging_complete |-> FALSE])

\* _run_preseed, its first write.
BeginPreseed ==
    /\ At("begin") /\ Writes /\ Go
    /\ Update([status |-> "running", phase |-> "inspecting", staging_complete |-> FALSE])

\* (mutant) preflight trusts the check made when it was asked for.
PreflightTrusts == At("check") /\ Unlocked /\ Writes /\ Go /\ UNCHANGED st

\* preflight, what it does with the lock: nothing unless Ready.
PreflightCheck ==
    /\ At("check") /\ Unlocked /\ Writes
    /\ IF Ready THEN Go ELSE Raise
    /\ UNCHANGED st

\* Its reads on both Macs.  It refuses a pending record.
PreflightProbe ==
    /\ At("probe") /\ Writes
    /\ \E p \in {"ready", "unverified"} : Update([path |-> p])
    /\ Raise \/ (journal = 0 /\ ~flag.cancel /\ Go)

PreflightPublish ==
    /\ At("publish") /\ Writes /\ Go
    /\ Update(Status("ready", "preflight_complete"))

\* _restore_requested_stop: pause first, then cancel; no lock.  At the end of
\* an inspection there is nothing to go on with.
RequestedStop ==
    /\ At("stop") /\ Writes
    /\ IF flag.pause THEN Update(Status("paused", "staging")) /\ End
       ELSE IF flag.cancel THEN Update(Status("cancelled", "staging")) /\ End
       ELSE /\ IF prog = "inspect" THEN End ELSE Go
            /\ UNCHANGED st

\* A request under the destination lock: refused while another holds it; a
\* lost reply may leave it running.
StageRequest ==
    /\ Worker /\ UNCHANGED <<st, dSt, verdict, flag, asked, record>>
    /\ \/ remote = "none" /\ Go /\ UNCHANGED remote
       \/ remote = "none" /\ Raise /\ remote' = "stage"
       \/ Raise /\ UNCHANGED remote

PrepareStaging == At("prepare") /\ StageRequest

EnterCopy ==
    /\ At("enter") /\ Writes /\ Go
    /\ Update(Status("running", IF prog = "preseed" THEN "staging" ELSE "final_delta"))

\* _copy_all; _transfers starts with a checkpoint.
BeginCopy ==
    /\ At("copy") /\ Writes /\ Checkpoint
    /\ Update([staging_complete |-> FALSE])

Copy == At("copying") /\ StageRequest

Staged ==
    /\ At("staged") /\ Writes /\ End
    /\ Update([status |-> "ready_to_finalize", phase |-> "staged", staging_complete |-> TRUE])

\* Codex may be open on either Mac; the second time, staging is complete.
CodexClosed ==
    /\ At("closed") \/ At("reclosed")
    /\ Writes
    /\ \/ Go /\ UNCHANGED st
       \/ /\ End
          /\ st' = When(At("reclosed"), With(st, Status("waiting", "close_codex")),
                        [staging_complete |-> TRUE])

\* _freeze_source_content writes with the lock, for every root in turn ...
Freeze ==
    /\ At("freeze") /\ Unlocked /\ Writes /\ Checkpoint
    /\ IF flag.cancel THEN UNCHANGED st
       ELSE Update(Status("running", "verifying_sources"))

\* ... and reads the root without it.
FreezeRead ==
    /\ At("reading") /\ Writes /\ UNCHANGED st
    /\ \/ Checkpoint
       \/ Go
       \/ pc' = pc - 1 /\ UNCHANGED prog

\* (mutant) The baseline is not forced to the device.
SaveBaselineNoSync ==
    /\ At("baseline") /\ Worker /\ UNCHANGED <<verdict, flag, destination>>
    /\ Checkpoint /\ UNCHANGED dSt
    /\ IF flag.cancel THEN UNCHANGED st ELSE Update([git |-> "unverified"])

\* _prepare_install saves the baseline and forces it to the device.
SaveBaseline ==
    /\ At("baseline") /\ Worker /\ UNCHANGED <<verdict, flag, destination>>
    /\ Checkpoint
    /\ IF flag.cancel THEN UNCHANGED <<st, dSt>>
       ELSE Update([git |-> "unverified"]) /\ dSt' = st'

\* (mutant) Installation begins without asking for a stop again.
CommitUnasked ==
    /\ At("commit") /\ Unlocked /\ Writes
    /\ Update(Status("running", "installing")) /\ Go

\* The last chance to stop, with the lock.
CommitInstall ==
    /\ At("commit") /\ Unlocked /\ Writes
    /\ IF flag.pause THEN Update(Status("paused", "staging")) /\ End
       ELSE IF flag.cancel THEN Update(Status("cancelled", "staging")) /\ End
       ELSE Update(Status("running", "installing")) /\ Go

\* run_remote of the protected installation: the destination lock is free, or
\* the request is refused.
SendInstall ==
    /\ At("install") /\ Worker /\ remote = "none"
    /\ remote' = "install"
    /\ Update([phase |-> "installing"]) /\ Go
    /\ UNCHANGED <<dSt, verdict, flag, asked, record>>

\* _complete_installation: the receipt is on the device before the path check
\* is announced.
CompleteInstall ==
    /\ At("complete") /\ Unlocked /\ Worker /\ UNCHANGED <<verdict, destination>>
    /\ flag' = [flag EXCEPT !.path = flag.cancel, !.git = flag.cancel]
    /\ LET installed == With(st, [status |-> "needs_attention",
               phase |-> "path_compatibility", receipt |-> TRUE])
       IN \/ /\ dSt' = installed
             /\ st' = With(installed, [path |->
                    IF flag.cancel THEN "unverified" ELSE "checking"])
             /\ IF flag.cancel THEN End ELSE Go
          \/ st' = installed /\ Raise /\ UNCHANGED dSt

-----------------------------------------------------------------------------
(* The worker: home paths and Git, only read.                              *)

\* A check that was stopped says "unverified" or nothing.
PathCheck ==
    /\ At("paths") /\ Worker /\ UNCHANGED <<st, dSt, flag, destination>>
    /\ \/ flag.path /\ End /\ UNCHANGED verdict
       \/ \E r \in {"ready", "unverified"} :
            (flag.path => r = "unverified") /\ verdict' = r /\ Go

\* The Git check is announced in the same write as the path result.
Handoff ==
    /\ At("handoff") /\ Unlocked /\ Writes
    /\ LET ready == st.receipt /\ verdict = "ready"
       IN IF flag.path THEN End /\ UNCHANGED st
          ELSE /\ IF ready /\ st.phase \in Installed THEN Go ELSE End
               /\ st' = When(st.phase \in Installed, With(st, [path |-> verdict]),
                     IF ready THEN [git |-> "checking", status |-> "needs_attention",
                                    phase |-> "git_verification"]
                     ELSE Status("needs_attention", "path_compatibility"))

BeginGit ==
    /\ At("git") /\ Unlocked /\ Writes
    /\ IF flag.git THEN End /\ UNCHANGED st
       ELSE Go /\ Update([status |-> "needs_attention", phase |-> "git_verification",
                          git |-> "checking"])

ProbeGit ==
    /\ At("probeGit") /\ Worker /\ Go
    /\ verdict' \in {"verified", "unverified"}
    /\ UNCHANGED <<st, dSt, flag, destination>>

PublishGit ==
    /\ At("verified") /\ Unlocked /\ Writes /\ End
    /\ IF flag.git THEN UNCHANGED st
       ELSE LET ok == verdict = "verified"
            IN Update([git |-> verdict,
                   status |-> IF ok THEN "complete" ELSE "needs_attention",
                   phase |-> IF ok THEN "verified" ELSE "git_verification"])

-----------------------------------------------------------------------------
(* The worker: recovery.                                                   *)

\* (mutant) Restored entries are enough, whatever record is still pending.
ReconciledEarly(t) ==
    IF remote # "none" \/ journal \notin {0, t} THEN "unknown"
    ELSE IF t \notin restored
        THEN IF journal = t THEN "restore_incomplete" ELSE "unknown"
    ELSE IF content # base THEN "unknown" ELSE "restore_verified"

\* reconciliation.py, for the saved attempt's transaction.  It does not say
\* more than "unknown" while a writer holds the lock, about another pending
\* transaction, or about entries that changed since they were restored.
Reconciled(t) ==
    IF remote # "none" \/ journal \notin {0, t} THEN "unknown"
    ELSE IF t \notin restored
        THEN IF journal = t THEN "restore_incomplete" ELSE "unknown"
    ELSE IF content # base THEN "unknown"
    ELSE IF journal = t THEN "restore_pending_cleanup" ELSE "restore_verified"

\* recovery.py
Inspected == IF remote = "none" /\ journal # 0 THEN "backup_verified" ELSE "unknown"

Report(v) == verdict' = v /\ Go /\ Worker /\ UNCHANGED <<st, dSt, flag, destination>>

\* _run_recovery_check asks which of the two, before it connects.
Look ==
    /\ At("look")
    /\ Report(IF ~Reconciling THEN Inspected
              ELSE IF st.attempt = 0 THEN "unknown" ELSE Reconciled(st.attempt))

LookFails == At("look") /\ Report("unknown")

\* _run_restore_recovery: an exception anywhere is a report too.
SendRestore ==
    /\ At("send") /\ remote = "none"
    /\ remote' = "restore" /\ asked' = st.attempt /\ Go /\ Worker
    /\ UNCHANGED <<st, dSt, verdict, flag, record>>

Judge == At("judge") /\ Report(Reconciled(st.attempt))

RestoreUnconfirmed ==
    /\ prog = "restore" /\ ~At("report")
    /\ verdict' = "unknown" /\ Worker
    /\ pc' = Len(Script["restore"])
    /\ UNCHANGED <<prog, st, dSt, flag, destination>>

\* _publish_recovery
Publish ==
    /\ At("report") /\ Unlocked /\ Writes /\ End
    /\ LET ok == verdict = "restore_verified"
           reported == With(st, [recovery |-> verdict,
               found |-> IF verdict = "backup_verified" THEN journal ELSE 0])
       IN IF prog = "recover" /\ flag.recovery THEN UNCHANGED st
          ELSE st' = When(Reconciling, reported, [
                   resolved |-> ok, staging_complete |-> FALSE, receipt |-> FALSE,
                   status |-> IF ok THEN "interrupted" ELSE "failed",
                   phase |-> IF ok THEN "restored" ELSE "recovery_required"])

-----------------------------------------------------------------------------
(* The destination.  A writer goes on when nobody waits for its reply.     *)

Destination == UNCHANGED <<st, dSt, flag, requested, ctl, up, closing, faults>>
Silent == UNCHANGED <<prog, pc, verdict>>

\* The writer ends and releases the lock.
Ends(ok) ==
    /\ remote' = "none"
    /\ IF ~At("reply") THEN Silent
       ELSE IF ok THEN Go /\ UNCHANGED verdict
       ELSE IF prog = "finalize" THEN Raise /\ UNCHANGED verdict
       ELSE /\ pc' = Len(Script["restore"]) /\ UNCHANGED prog
            /\ verdict' = "unknown"

StageEnds ==
    /\ remote = "stage" /\ Ends(TRUE)
    /\ Destination /\ UNCHANGED <<asked, record>>

\* Every check of the installation comes before its record.
InstallRefused ==
    /\ remote = "install" /\ Ends(FALSE)
    /\ Destination /\ UNCHANGED <<asked, record>>

InstallBegins ==
    /\ remote = "install" /\ journal = 0 /\ txn < MaxInstalls
    /\ remote' = "installing"
    /\ txn' = txn + 1 /\ journal' = txn + 1
    /\ base' = content /\ content' = "mixed"
    /\ Destination /\ Silent /\ UNCHANGED <<asked, restored>>

InstallDone ==
    /\ remote = "installing" /\ Ends(TRUE)
    /\ content' = "new" /\ journal' = 0
    /\ Destination /\ UNCHANGED <<asked, base, restored, txn>>

InstallRollsBack ==
    /\ remote = "installing" /\ Ends(FALSE)
    /\ content' = base /\ journal' = 0
    /\ Destination /\ UNCHANGED <<asked, base, restored, txn>>

\* It is killed, or its Mac loses power: the record stays.
InstallDies ==
    /\ remote = "installing" /\ Ends(FALSE)
    /\ content' \in {content, base, "new"}
    /\ Destination /\ UNCHANGED <<asked, journal, base, restored, txn>>

\* A finished restoration whose entries changed since is not run again.
RestoreBegins ==
    /\ remote = "restore" /\ journal = asked
    /\ asked \in restored => content = base
    /\ remote' = "restoring"
    /\ content' = IF asked \in restored THEN content ELSE "mixed"
    /\ Destination /\ Silent /\ UNCHANGED <<asked, journal, base, restored, txn>>

RestoreMoves ==
    /\ remote = "restoring" /\ asked \notin restored
    /\ content' = base /\ restored' = restored \cup {asked}
    /\ Destination /\ Silent /\ UNCHANGED <<remote, asked, journal, base, txn>>

RestoreClears ==
    /\ remote = "restoring" /\ asked \in restored /\ Ends(TRUE)
    /\ journal' = 0
    /\ Destination /\ UNCHANGED <<asked, content, base, restored, txn>>

RestoreDies ==
    /\ remote \in {"restore", "restoring"} /\ Ends(FALSE)
    /\ Destination /\ UNCHANGED <<asked, record>>

\* The user works on the destination while no writer does.
Edit ==
    /\ remote = "none" /\ edits < MaxEdits /\ Within
    /\ content' = "edited" /\ edits' = edits + 1
    /\ UNCHANGED <<local, remote, asked, journal, base, restored, txn,
                   crashes, losses>>

-----------------------------------------------------------------------------
(* The process and its Mac.                                                *)

Ended ==
    /\ up /\ up' = FALSE
    /\ End /\ verdict' = "unknown" /\ requested' = "none" /\ ctl' = "none"
    /\ flag' = [f \in DOMAIN flag |-> FALSE]
    /\ closing' = FALSE
    /\ UNCHANGED <<destination, edits>>

\* After shutdown the process ends, with whatever its thread still does.
Exit == closing /\ ctl = "none" /\ Ended /\ UNCHANGED <<st, dSt, crashes, losses>>

Crash ==
    /\ crashes < MaxCrashes /\ Within /\ crashes' = crashes + 1 /\ Ended
    /\ UNCHANGED <<st, dSt, losses>>

\* state.json is replaced by rename, which the disk may not have yet.
PowerLoss ==
    /\ losses < MaxLosses /\ Within /\ losses' = losses + 1 /\ Ended
    /\ st' = dSt /\ UNCHANGED <<dSt, crashes>>

Flush ==
    /\ losses < MaxLosses /\ dSt # st /\ dSt' = st
    /\ UNCHANGED <<st, prog, pc, verdict, flag, requested, ctl, up, closing,
                   destination, faults>>

\* (mutant) Every running action that ended with its process was interrupted.
RestartedInterrupted ==
    LET s == When(st.path = "checking", When(st.git = "checking", st, GitStopped),
                  [path |-> "unverified"])
        t == When(s.recovery = "checking", s, [recovery |-> "unknown"])
    IN IF s.recovery = "restoring" \/ s.phase = "restoring"
       THEN With(s, [status |-> "failed", phase |-> "recovery_required",
                     staging_complete |-> FALSE, recovery |-> "unknown"])
       ELSE When(t.status = "running", t, [status |-> "interrupted"])

\* reconcile_startup
Restarted ==
    LET s == When(st.path = "checking", When(st.git = "checking", st, GitStopped),
                  [path |-> "unverified"])
        t == When(s.recovery = "checking", s, [recovery |-> "unknown"])
    IN IF s.recovery = "restoring" \/ s.phase = "restoring"
       THEN With(s, [status |-> "failed", phase |-> "recovery_required",
                     staging_complete |-> FALSE, recovery |-> "unknown"])
       ELSE IF t.status # "running" THEN t
       ELSE IF t.phase = "installing"
           THEN With(t, [status |-> "failed", staging_complete |-> FALSE])
       ELSE With(t, [status |-> "interrupted"])

Restart ==
    /\ ~up /\ up' = TRUE /\ st' = Restarted
    /\ UNCHANGED <<dSt, prog, pc, verdict, flag, requested, ctl, closing,
                   destination, faults>>

-----------------------------------------------------------------------------
Starting ==
    \/ StartInspection \/ Resume \/ StartRecoveryCheck \/ StartRestore
    \/ StartPathCheck
    \/ StartRequested \/ \E p \in {"preseed", "finalize"} : Request(p)

Stops ==
    \/ Pause \/ Cancel \/ Shutdown \/ StopWritten
    \/ StopRecoveryCheck \/ StopGitCheck \/ ShutdownChecks

Migrates ==
    \/ Fails({"check", "probe", "reading", "baseline", "closed", "reclosed",
              "copy", "staged", "install", "reply"}) /\ prog # "restore"
    \/ Guarded \/ GuardedFails
    \/ BeginPreseed \/ PreflightCheck \/ PreflightProbe \/ PreflightPublish
    \/ RequestedStop \/ PrepareStaging \/ EnterCopy \/ BeginCopy \/ Copy
    \/ Staged \/ CodexClosed \/ Freeze \/ FreezeRead \/ SaveBaseline
    \/ CommitInstall \/ SendInstall \/ CompleteInstall

Checks ==
    \/ PathCheck \/ Handoff \/ BeginGit \/ ProbeGit \/ PublishGit
    \/ Look \/ LookFails \/ SendRestore \/ Judge \/ RestoreUnconfirmed \/ Publish

Writers ==
    \/ StageEnds \/ InstallRefused \/ InstallBegins \/ InstallDone
    \/ InstallRollsBack \/ InstallDies \/ RestoreBegins \/ RestoreMoves
    \/ RestoreClears \/ RestoreDies

Machine == Exit \/ Crash \/ PowerLoss \/ Flush \/ Restart \/ Edit

Next == Starting \/ Stops \/ Migrates \/ Checks \/ Writers \/ Machine

Spec == Init /\ [][Next]_vars

-----------------------------------------------------------------------------
(* What the engine promises.                                               *)

Open(s) == s.attempt # 0 /\ ~s.resolved

\* Stop and Pause are refused once installation begins, and once accepted no
\* installation is sent: "Safe stop is available only before installation
\* begins".  Shutdown may come later and never calls it stopped safely.
StopPreventsInstall ==
    prog = "finalize" /\ (At("install") \/ At("reply")) =>
        /\ st.phase = "installing" /\ st.status \in {"running", "failed"}
        /\ closing \/ ~(flag.cancel \/ flag.pause)

\* However an installation ended without a receipt, the saved state says so
\* and its staging is not offered to Finalize again.
InstallOutcomeKnown ==
    up /\ ~Alive /\ ctl = "none" /\ st.phase = "installing" =>
        st.status = "failed" /\ ~st.staging_complete

\* While a restoration is unresolved nothing stages or installs, whatever was
\* asked for before it was.
OpenAttemptProtected ==
    Open(st) => /\ remote \notin {"install", "installing"}
                /\ ~\E l \in {"prepare", "copy", "copying", "commit", "install"} : At(l)

\* The saved attempt, here and on the device, is the one that the destination
\* has pending or has finished; a restoration that runs is on the device.
AttemptNamesPending ==
    /\ \A s \in {st, dSt} : Open(s) => journal \in {0, s.attempt}
    /\ remote \in {"restore", "restoring"} => Open(dSt) /\ dSt.attempt = asked

\* A receipt is only there for an installation that stands.
ReceiptIsTrue ==
    \A s \in {st, dSt} : s.receipt =>
        /\ journal = 0 /\ content \in {"new", "edited"}
        /\ remote \in {"none", "stage"}

\* What the saved state says of an installation is what became of it.
InstallationIsKnown == InstallOutcomeKnown /\ ReceiptIsTrue

\* When an attempt becomes resolved nothing is pending or running, and the
\* destination has what it had before the installation, or the user's work.
RestoredIsTrue ==
    [][up' /\ ~st.resolved /\ st'.resolved =>
        /\ journal = 0 /\ remote \in {"none", "stage"}
        /\ content \in {base, "edited"}]_vars

\* An interrupted installation and an unresolved restoration are resolved if
\* the person goes on asking.
RecoveryCompletes ==
    journal # 0 \/ Open(st) ~> journal = 0 /\ ~Open(st)

\* "Source verification can be stopped safely; Resume retains staging"
\* (docs/recovery.md): a stop that was accepted does not leave "running"
\* behind when the worker has ended.  Where it does, Resume is refused until
\* the person pauses or stops once more.
StopEndsTheRun ==
    up /\ ~Alive /\ ctl = "none" => st.status # "running"
=============================================================================
