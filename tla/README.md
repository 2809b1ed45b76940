# A verification development of codex-migrate

codex-migrate moves a Codex installation from one Mac to another, and keeps
encrypted backups of its history (the "Vault"), locally and on a hosted service.
This directory holds TLA+ models of its protocols, the TLC configurations that
check them, and TLAPS proofs. Paths below are relative to the repository root
(`src/codex_migrate/...` for the Python code).

## 1. Inventory: parts, state, interaction, hazards

**Destination installation** (`migration.py:_install_and_verify`, `transaction.py`,
`backup.py`, `destination_lock.py`, `tree_digest.py`). A zsh program sent over SSH
replaces `~/.codex` and the selected folders by staged trees. State: staging, the
destination entries, a backup folder per attempt, the journal record
`.codex-migrate-transaction.json`, a terminal receipt, a kernel lock that children
inherit. Hard: a killed shell whose `rm` runs on, failures at every command, the
order in which writes reach the device. Correct when nothing the user wrote is
lost, a record disappears only with a settled outcome, and no two writers meet.

**Destination restoration and reconciliation** (`restore.py`, `recovery.py`,
`reconciliation.py`). A confirmed request puts the frozen originals back from a
pending record's backup; displaced entries move to numbered slots. State:
`plan.json`, `ready.json`, `complete.json`, `prepared/`, `current/`, `incomplete/`.
Hard: attempts that stop between any two renames and are resumed, apps that
write during them, power losses that undo renames. Correct when nothing is
discarded, each stop can be resumed, and a verdict is true and stays true.

**Migration engine** (`migration.py`, `state.py`, `cancellation.py`,
`dashboard.py`). One worker thread at a time inspects, stages, finalizes, checks or
restores; HTTP handlers start, pause and stop it; `state.json` outlives the
process. Hard: worker writes outside the engine lock, replies lost while the
destination goes on, restarts. Correct when a stop is never followed by an
installation, an outcome is never claimed that was not confirmed, and the saved
attempt is the one the destination has.

**Component migration** (`components.py`, `component_migration.py`): the selective
variant over the same transaction helper. **Transport** (`transport.py`): SSH and
rsync children, cancellation, host choice. **Inspection** (`inventory.py`,
`skills.py`, `git_*.py`, `storage_scope.py`, ...): read-only scans.
**Setup and pairing** (`setup.py`, `pairing.py`, `staging_permissions.py`): keys on
two Macs, permissions given and taken back.

**Vault, local** (`vault.py`, `vault_backup.py`, `vault_install.py`,
`vault_recovery.py`, `vault_search_index.py`, `vault_schedule.py`, ...). Snapshots of a
changing source, published by reference files and `latest.json`; recovery into a
staging folder and a journalled exchange of the transcript folders; a launch agent
with an update guard. Hard: crashes between the exchange and the journal, a source
that changes during capture, configuration read before a lock.

**Vault, hosted client** (`vault_hosted_*.py`, `vault_remote_*.py`). A live run
reserves space, uploads objects with a chunk journal, publishes, and abandons or
retires what it reserved; device enrollment and rotation; recovery. Hard: lost
answers to reserve, publish, abandon and rotate.

**Hosted service** (`hosted/*.js`, `hosted/migrations/*.sql`, `api/*.js`). Leases,
object capabilities, cleanup claims, quota and publication in PostgreSQL and an
object store; accounts, devices, business seats, subscriptions. Hard: a replayed
capability against a released claim, claim against grant against publication.

**Commerce, desktop shell, site, operations**: purchase handling, user interface,
deployment.

How they interact: dashboard requests call the engine; the engine's worker sends
the installation, the restoration and the two read-only checks over SSH, where
they meet under the destination lock and the journal record; the Vault's backup,
schedule and hosted client share the local history lock with Vault installation;
the hosted client talks to the service by HTTP and to the object store by signed
capabilities. `PROJECT.json` lists every part with its status, and the hazards at
their lines.

## 2. Plan

| # | module | what | state |
|---|---|---|---|
| 1 | `DestinationInstall` | installation script, rollback, journal, lock | checked, proved |
| 2 | `DestinationRestore` | restoration and its verdicts | checked, proved |
| 3 | `MigrationEngine` | worker, requests, saved state, destination as a whole | checked, proved |
| 4 | `VaultInstall` | journalled exchange of the history folders, rollback, additions | checked, proved |
| 5 | `ProtectedHistory`, `HostedService` | the service's promise; reservations, capabilities, claims, cleanup, publication, shown to keep it | checked, proved |
| 6 | `HostedRun` | live run, chunk journal, hint, review, abandonment, against the service | checked, proved |
| 7 | `VaultBackup` | capture of a changing source, publication, loss warnings | checked, proved |
| 8 | `DeviceRotation` | hand-over to a new device, late requests | checked, proved |
| 9 | `VaultSchedule` | launch agents, receipts, the update guard; composes 7 and 8 | checked, proved |
| 10 | `SearchIndex` | refresh and search against a changing source | checked, proved |
| 11 | `HostedPairing`, `HostedSetup`, `HostedRecovery` | enrollment and pairing; key, manual backup, uploads; recovery into a folder | checked, proved |
| 12 | `SetupDashboard` | the app's server over 9, 10 and 11 | checked, proved |

The order is that of the damage a mistake can do: first what deletes the user's
files, then what tells the user that it is done, then what loses a backup. Still
worth stating: a recovery promise ("pending, then resolved, nothing lost") that
DestinationRestore refines, as HostedService refines `ProtectedHistory`.

## 3. Models and runs

### DestinationInstall

A *shell* is one run of the script; `pc` is where it is, `idx` the entry its loop
is at. An entry's tree is abstracted to what digests tell apart: a version of the
user's, the verified new tree, the staged `.codex` without identity files, a part
of a tree, nothing. Variables that start with `d` are what the device has if the
power goes now; `save_new` and its barrier are therefore two actions (Begin and Arm,
SaveInstalled and Seal), and so are the removal of the record and its sync. `rm` and
`mv` of an entry are two actions, with a part of the tree visible between them.
FailUnderTrap leads to the rollback, FailOutsideTrap to an exit that may leave the
record; Kill may leave `rm` or `cp` running, which keeps the inherited lock.

Run **MCDestinationInstall**: two entries, two user versions, two attempts, one
power loss or damaged copy. Two entries are needed to have one replaced and one
not; the second attempt is needed for a backup that an earlier receipt names and
for a writer that comes while another's child runs.

- `NoUserWorkLost`: the last version the user wrote is in place or in a copy that the
  record or an installation receipt names.
- `TornOnlyUnderDurableRecord`: nothing is removed before the record and the copies
  are on the device.
- `NoIdentityGap`: a complete `.codex` without identity is never visible.
- `OneReplacer`, `ClearedMeansSettled`, `SuccessIsDurable`: see the module.

Assumption: Begin compares every copy, flushes and records (`transaction.py:206-222`) in one step,
and no user writes an entry from then until its replacement ends. That apps are closed then is
the instruction of docs/recovery.md:33 and :124, not something the script enforces.

### DestinationRestore

Starts in every state that DestinationInstall can leave with a pending record.
An entry has a path, a slot in `current/` and a candidate in `prepared/`; the
renames between them, the three records and their barriers are actions of their
own. Stop ends an attempt anywhere, leaving a temporary file, a part of a clone or a
running `cp`; PowerLoss undoes what no barrier covers. ReconcileStatus is the
read-only verdict, an operator on the state.

- **MCDestinationRestore**: two entries, one early end, one app write or later
  installation, one power loss or damaged copy, four quarantine slots.
  `NothingDiscarded`, `SavedForGood`, `NeverWedged`, `ClearedMeansRestored`,
  `VerifiedIsTrue`, and `RestoreCompletes` under fairness: a running attempt and a
  running child go on (processes), and a person asks again when none runs (the
  product's instruction after each early end). One early end and one fault meet each
  other in every order; a second entry is what a wrong resumption confuses.
- **MCRestoreIdentity** (violation of `SignedInStays`): section 5.

Assumptions: an app's write is on the device when made; what was made later in the
recovery folder does not survive a power loss without what was made before; a
rename between two folders of the volume is one change; what the interrupted
installation left is on the device. `hasty` marks the one window that
`NeverWedged` leaves out, a power loss between the rename of `ready.json` and its
barrier. The 100 quarantine slots of the code can be used up, as
docs/restore-engine.md says; `RestoreCompletes` leaves out by name behaviours that
use up all slots of the instance.

### MigrationEngine

`prog` and `pc` name the worker's program and its step, in the order of `Script`.
A step written under the engine lock waits for `Unlocked`, a step written without it
does not, so a handler (flag and SSH child first, `state.json` afterwards) and the worker
interleave as in the code. `remote`, `journal`, `content`, `base` and `restored` are the
destination as a whole: modules 1 and 2 with their steps folded into begin, done,
rolled back, died. The engine is that of a full migration started with `--apply`.

- **MCMigrationEngine**: three *stories*, which `MCMigrationEngine.tla` defines.
  - "first": all requests, one installation, one crash, one edit, one fault (a lost reply, a
    destination program that dies).
  - "second": from after a restoration that the disk does not know of yet (`AfterRestore`);
    a second installation, one power loss, one fault. The behaviours of `Next` reach this state;
    to start there keeps the run small.
  - "recovery": from an interrupted installation with its record pending
    (`AfterInterruption`); one crash, one fault.

  In every story `StopPreventsInstall`, `InstallationIsKnown` (an installation that reached the
  destination is never shown as something else than what became of it, and its staging is not
  offered again), `OpenAttemptProtected`, `AttemptNamesPending` and `RestoredIsTrue`; in the third
  `InterruptedRecovers`, which is `RecoveryCompletes` there. Fairness is demanded of the third
  story only: threads, destination programs and a restarted process go on (WF); a person keeps asking
  for the check and the restoration, and requests that are repeated reach the
  destination and get past each stage (SF). The first two are for safety, where fairness
  changes nothing.
- **MCEngineStops** (violation of `StopEndsTheRun`): section 5. One installation, no fault.

Assumptions: reports from which nothing is decided are one value `unknown`; one start
request at a time is between its check and its start; a request that reached the
destination has the lock before the engine gives up on it; `reconcile_startup`, each
locked block and the flag-and-write of `_guarded` are one step each; choosing a route
fails only when cancelled; receipts in the state are valid. `View` leaves out the flags
and the report of an ended thread, which every start sets again.

### VaultInstall

A process runs one command at a time: an installation (`Begin` to `Installed`), a
rollback in its handler or by `install-recover`, the addition of one conversation, or a
backup. A folder's tree is the set of its conversations or `Missing`; `live`, `saved`,
`failed` and `incoming` are the folder's four places, `archive` what earlier
backup folders hold, `journal` the digest of the original in the crash journal. Raise is
where each exception handler goes from; Refused are the checks of the code, Fail is
a call that fails. A sync that fails is a failure of the next step, except after the
journal's creation and removals, which the handlers treat differently.

- **MCVaultInstall**: two folders, two processes, two installations or an installation and an
  addition (`TwoCommands`), with any recovery and backups, one conversation Codex writes, one kill, one failing call, each initial folder
  missing, empty or used. `NothingLost`, `UnjournalledIsWhole`, and `AnswersAreTrue`: what
  "installed", "rollback was verified", "added" and "removed" say is so when they are answered. Of
  the second it names one exception, an answer given while the flush after the journal's removal
  fails, and says what holds instead.
  Two installations are needed for an earlier backup folder, two processes for the
  locks; with one kill and one failure a rollback is interrupted both in the handler
  and in the recovery.
- **MCVaultRollback** (violation of `RollbackCanFinish`): section 5. It needs one
  installation and two kills.
- **MCVaultRestored** (violation of `RestoredIsBack`, which is "rollback was verified" without the
  exception): section 5. It needs one installation and one failing call.

Assumptions: a rename within the home folder is one change and, being synced before the
next one, is undone by a power loss only as if the process had died before it; what
is compared is compared at one moment (a write after the comparison is a write
after it); comparing the added conversation with its source and unlinking it is one step
(`Remove`, `vault_install.py:458`), and Codex does not continue a conversation that is still being
added. A staging file of a copy that cannot be removed (`:402-406`), after which the linked
conversation would stay behind a refused addition, is left out. No fairness.

### ProtectedHistory and HostedService

`ProtectedHistory` is what the service promises of one vault: versions form one line,
each is appended to its end or not at all, and every object of every version stays
readable. `HostedService` has one action per SQL function (each takes the account
lock), and between them the provider and the capabilities a client or the cleanup worker
holds, which may be used late, twice or never. An object is a key with the bytes of one
encryption. Verification reads the pages of receipts in one step, and the allowance does not change
while the model runs. Capability lifetimes and the two minutes after an absence are ages, not
clock values.

- **MCHostedService**: two reservations, two keys, two encryptions, an allowance of
  four objects. `HistoryIsProtected` is the refinement, `History!Spec` under the mapping
  at the end of the module. `PublishedIsStored`, `LedgerBalances`,
  `StoredIsCharged`. Two reservations from one base compete for the head and for a key;
  a late DELETE of one meets the PUT of the other. `LeftOut` names what
  `StoredIsCharged` leaves out (remark 1).

### HostedRun

One Mac's live backup: `run` is run.json, `receipts` and `scratch` the chunk journal and its
ciphertexts, `hint` the source index, `review` an approved deletion. `pc` is the call the
process is at; Stop ends it anywhere, which is also a lost request, a lost reply or a
refusal. A publish request may arrive after the process has gone. The service is the one of
HostedService, reduced to what this client can see. Whether anything changed is asked in three steps,
the last version (`Check`), hint, catalog and files (`Compare`), files and version once more (`Unchanged`);
what the last two read one after the other (`vault_hosted_no_change.py:120-124`) is one moment. The second look at a publication of a run without a
review (`vault_hosted_live_run.py:327`) and an abandonment that names no run (`:414-427`) are left out.

- **MCHostedRun**: two runs, one version of another Mac, two conversations of at most
  two messages, one edit (growth, truncation or deletion). `OneReservation`, `LossIsKnown`,
  `HintIsTrue`, `AnswersAreTrue`, `RetryIsExact`. A second run is needed for a journal or a
  review that outlives the first, the other Mac for a base that is not the last version.

### VaultBackup, DeviceRotation, VaultSchedule

`VaultBackup`: a run lists the transcripts, scans and stores each, reads the database,
lists and looks at all files again, seals a manifest and publishes two files. What
the code learns from device, inode, size and times is whether a file was touched
since its scan (`dirty`); what it counts in a conversation is one length. The lock of
the destination folder is inside the history lock and adds nothing on one Mac.
Attachments, titles and the replacement of a key are left out.

`DeviceRotation`: the schedule's configuration, the connection, the journal
hosted-rotation.json and the devices the service accepts, with requests that arrive
late or never. That a session expires is left out: rotation is due long before.

`VaultSchedule` composes the two: the local and the hosted job that launchd starts, the
person's set-up and removal, backups by hand, and updates with the guard that lapses.
Dates are only compared: `at` numbers set-ups, and whether an interval has passed is
left open. The hosted job ends where its backup begins (HostedRun). `owed` is not in the code: it
has the jobs whose check was put off for an update (`vault_schedule.py:616-624`,
`vault_hosted_schedule.py:428-435`) and has not run since. Only a run that ends takes a job off it:
not the guard's end, nor the app that clears the guard and asks launchd to start the job
(`:172-190`), which may be refused or lost by a restart.

### SearchIndex

`index` is the SQLite file (per transcript a stamp and whether it holds the phrase; for the
database one stamp and its rows), `refresh` the thread that builds it, `query` one search.
A search's listing and its view of the database are pinned in one step; its two SELECTs
are two. `query.mixed` has the files whose row a refresh committed between them. Titles,
attachments and lineages are left out: a conversation is a file.

- **MCSearchMiss** (violation of `SearchIsComplete`, that a search finds every conversation
  that held the phrase from its start to its end): section 5. One file, one row of the database,
  two changes by Codex. `SearchMissesNothing`, in the run of SetupDashboard, is the same but
  for the files in `mixed`.

### HostedPairing, HostedSetup, HostedRecovery

`HostedPairing` has the registry (what is read back, and what of it a power loss
cannot take), the two wizards, the one step under way, the service's bindings and the claims in
flight. `HostedSetup` adds the key (drawn, in its file, in the Keychain, confirmed), manual
backups, unfinished uploads and reviews of deletions; an upload's inside is HostedRun's.
`HostedRecovery` adds the folder: four items with their final and partial files, a
marker, and two receivers, the app and the command line, which nothing keeps apart; a hard
link shares the bytes of its file. Subscriptions, business seats and a choice between several
vaults are left out, and so is a power loss that undoes a directory entry of the folder.
`RecoveredIsWhole` asks of latest.json only that it is there (`vault_remote_recovery.py:357-369`,
remark 8).

### SetupDashboard

The app's server composes all of these: its requests are the actions that start a step of
another module, guarded by what `setup.py` asks of its threads. Slots (restore, install,
browse, thread installation) and the migration are shown as alive or not: what
they do is the business of other modules, and that a thread installation asks for a ready
browse result is left out. `Crash` is a restart of the Mac, `Reopen` a new process of the app.

- **MCSetupDashboard**: two conversations, two vault folders, three devices, two
  builds, two devices minted by enrollment and two codes per flow. Each behaviour takes up one *plan*
  (nothing but the schedule, the slots, search, pairing, setup, recovery) with one *budget*
  of edits, snapshots, set-ups, updates, rotations and deaths; the plans of the instance
  are the pairs whose parts share state, and the space is the sum of theirs instead of their
  product. Parts in different plans meet only in the two lines of `Idle` and `Begins`, which
  the plan with the slots exercises. The budgets of the schedule are for one question each: a
  source that changes twice under one backup (Edited) or loses a conversation between two
  (Aged), a set-up that moves the folder (Moved), set-ups and runs that are killed (Killed),
  updates renewed beside a backup (Updated) or beside the hosted job (Renewed). Aged, Moved and
  Updated start after one backup by hand (`AfterBackup`), and the plan of recovery after the Mac was
  paired (`AfterPairing`): states that the app reaches, at which the interesting part begins. Safety:
  `SnapshotIsAMoment` and `LossStaysFlagged` (VaultBackup), `ReceiptIsStored`
  (VaultSchedule), `DeviceIsUsable` (DeviceRotation), `SearchMissesNothing` (SearchIndex),
  `NothingOrphaned` (HostedPairing, HostedSetup), `RecoveredIsWhole` (HostedRecovery),
  `NothingIsInterrupted` and `KeyStaysInView`, which leaves out by name a first backup that
  fails and whose Keychain refuses the key (remark 10). Liveness: `DeferralsAreCaughtUp`, a check
  put off for an update runs some time.

Fairness is demanded only of the behaviours with updates (`watched`): launchd starts the local job at
its interval (WF Wake); a process inside the lock goes on or fails, a guard lapses after its two hours,
and set-ups and the hosted job go on (WF); a local process that waits and must not be left out gets the
lock some time, as launchd starts it again and again and a guard always ends (SF Enter); so does
the hosted job (SF HostedStarts), some run of which ends by itself (SF HostedEnds). `Enter` is *not*
promised to a process that may skip, and neither kickstart nor the app's start is promised: that the
status of a deferred check is "failed", which no wake may skip, is what the property rests on.
A job that is not set up any more is not held to anything (`Excused`), nor is the hosted job of an
instance whose rotations are used up.

The type invariants are parts of the inductive invariants of section 4.


## 4. Proofs

`DestinationInstallProofs` proves, for every number of entries, attempts, user
versions and faults, type correctness and all six properties of MCDestinationInstall. It uses the
four named assumptions on the constants (values differ, bounds are naturals)
and nothing else. The properties are not inductive; `IInv` is:

- `LockInv`: who is past a label holds the lock and has a visible, durable record;
- `FreshInv`: an attempt without a record has left no trace of one;
- `RecordInv`: a protected shell's copies have the digests its record froze, on the
  device from Arm on;
- `OriginalInv`: an entry is torn, or differs from the device, only under such a record;
- `ProgressInv`: what each label knows of the entries and receipts;
- `IdentityInv`: where the tree without identity files can be;
- `SafeInv`: each version of the user's is in place for good, or in a durable copy that a
  record or receipt names, and is so before the shell that removes it goes on.

`InitIInv` and one lemma per group of actions (PrepareKeeps, ReplaceKeeps, SettleKeeps,
RollbackKeeps, FailKeeps, EditKeeps, StageKeeps, DamageKeeps, PowerLossKeeps) give
`Invariance`; the other theorems follow from it, the two action properties with one more
case split over Next.

`DestinationRestoreProofs` proves the three invariants and two action properties of
MCDestinationRestore that are safety, for any number of entries, attempts, app writes, slots and
faults, from ScopeAssumption (there is an entry) and BoundAssumption. `RestoreInv` follows
the design of restore.py, one lemma per action (OpenKeeps to RotKeeps):

- `RecordInv`, `JournalInv`: which of plan, ready and done exist at which step, on the
  device too, and that the pending record goes last;
- `PlaceInv`: until ready.json is on the device nothing has moved, and from then on the
  device is at most the two renames of one entry behind (`Behind`). Without it a power
  loss could combine an old path with an old slot;
- `PreparedInv`: a candidate is the frozen backup with the identity of what it will displace;
- `PhaseInv`: without edits an entry is before, between or after its two renames, which
  is what CanResume has to be true of (NeverWedged is not inductive without it);
- `DoneInv`: what the last pass saw is what the completion record says.

`MigrationEngineProofs` proves the four invariants and RestoredIsTrue of the engine's runs for
any bounds and any set of requests. The properties speak of one saved state; `EngineInv` says
of *any* saved state what it may claim of the destination (`Sound`), and demands it of the state in
use and of the one on the device, so a crash or a power loss, which makes the
second the first, keeps it. `ThreadInv` and `CheckedInv` say what the worker has made sure of,
by its step in Script (that a baseline on the device shows no open attempt is what lets it
install), `VerdictInv` what its last report still says when it is published, `InstallInv`
how installation, stop and saved phase exclude each other: a pause that is accepted has seen a phase
before "installing", and the commitment has seen no flag. `GitInv` is a part only because two
writers of "checking" share a field. Each label has one place in a program (Labels), so
a step is a program and a number; a step that writes only other fields is disposed of by
one lemma. Both handlers and worker steps have a lemma each.

`HostedServiceProofs` proves PublishedIsStored, LedgerBalances and StoredIsCharged, and
that HostedService implements ProtectedHistory (`ServiceProtectsHistory`), for any sets of
reservations, keys and encryptions, finite or not, from NobodyAssumption and
AllowanceAssumption. The heart of `HostedInv` is `ClaimInv`: a claimed key is unpublished, was
granted to the reservation that is cleaned, and every other holder's lease is
quiet, so that with `CapabilityInv` no PUT for it is left and a DELETE that arrives late
meets nothing that may be published (`InventoryInv`). That only finitely many reservations,
grants and keys exist at a time is invariant (`FiniteInv`), not assumed; the cardinalities of the
ledger need it. For the refinement each step of the service is a stutter, a Churn of
readable objects (HistoryChurns) or, for Publish alone, an Append (HistoryAppends).

`HostedRunProofs` proves all five invariants of MCHostedRun for any number of runs, other
Macs, conversations and edits. Besides the assumptions that the constants
are apart it needs `NoneIsNoRecord`: that None is not the value of a record, which TLA+ leaves
open. `RunInv` ties where the process is to what run.json, the chunk journal and the service
say of the run (`ProcessInv`, `RecordInv`), a review to its one run (`ReviewInv`), and the
sealed manifest to files that passed the loss guards against the run's base
(`ManifestInv`). A publication may be carried out long after it was asked for: that it still
publishes the same rows, compared with the same base, is what `ManifestInv` says of `late`, with
`VersionInv` (a base is a version, and versions do not change). `GrantInv` is
RetryIsExact for the chunk under way.

`VaultInstallProofs` proves TypeOK, NothingLost and BackupsReadStill for every number of
folders, processes and faults, from the assumptions that there is a folder and
that bounds are naturals. NothingLost is not inductive: that a rename displaces nothing
needs `OneHolder` (one command inside the history lock), `SavedRoom` (the slot of the folder
at hand is free), `AddRoom` (the folder of an addition exists) and `UsersOwn` (what an
addition unlinks is not the user's). TypeStep, HolderStep, RoomStep and KeptStep have one
step per action. BackupsReadStill says that no command moves or removes anything while
a backup reads; no run lists it. UnjournalledIsWhole and AnswersAreTrue need a second
invariant beside the first: `JournalInv` (which steps have a crash journal), `WholeInv` (while
it is there the folders may be of two histories, but the digest to go back to, in memory or in
the journal, is of a whole one) and `CheckedInv` (what a command has verified is still so when it
answers). `BackInv` is the same of a rollback and of an addition that were verified: what
is live is the digested history with at most what Codex has written since. WholeStep and BackStep
have one step per action, AnswerStep one per answer. `CommandsAnswerTruly` states the exception of
"rollback was verified" as AnswersAreTrue does, with what holds there; RestoredIsBack is refuted
(section 5).

`VaultScheduleProofs` proves SnapshotIsAMoment and LossStaysFlagged of VaultBackup for any
number of conversations, folders, callers and tries, from BackupAssumption. `BackupInv` is
`BackupTypeOK`, `TurnInv` (which phase has files left to do), `CaptureInv` (a stored copy
that is not its file's any more belongs to a file that was touched) and `SealedInv`, which
states both properties of sealed versions instead of published ones: a version outside
the line may become a base later. The flag of a version is compared with the whole line
before it, so LossIsFlagged is about sequences of versions; OldFlagsStay and NewFlag are
the two halves of its step at Seal.

It proves DeviceIsUsable of DeviceRotation for any set of devices, from DeviceAssumption.
`RotationInv` adds to the types `ServiceInv` (one device is accepted, and a request in
flight is the journal's or one whose device was used), `HandoffInv` (a journal is between the
two devices that may be accepted, and the configuration follows the service) and `StepInv`
(what each step of a run knows).

Then it proves that VaultSchedule implements both (ScheduleBacksUp and ScheduleRotates: each
step is a step of theirs or none), which hands their properties on, and ReceiptIsStored and
DeferralIsKept. Neither is inductive. A receipt is written from what the process remembers, of a
run that dies with it, under a configuration that may have been replaced twice: `ProgressInv`
ties the process to how far its run has published, `ConfigInv` says that copies of the configuration
from one set-up agree, and `ReceiptsInv` says of all copies at once (in force, put aside by a
set-up, held by the process) what a receipt claims of the one in force, because any of
them may come into force again. `GuardInv` is that a local check that is owed is on record as failed or
as under way, and that a guard that stands means that nothing is scheduled at work.
DeferralIsKept is the safety part of catching up, that no wake may skip meanwhile
(`DeferralsAreKept`); that a run comes, DeferralsAreCaughtUp, is liveness and stays with TLC. There is one lemma
per action, one step per conjunct; that nothing published is taken
back (PublishedStays) serves them all.

`SetupDashboardProofs` does the same for the app. Its parts first:

- SearchMissesNothing, with its exception `mixed`, from SearchAssumption. `StampsTell`
  says that equal stamps mean equal
  contents, of every row that the index, the refresh or a search holds, `RefreshTells` what a
  refresh is about to commit, `SearchTells` where a conversation the search is held to still is:
  before it, or found. RefreshOnly, SearchOnly and CodexOnly say what a step of one of the three
  leaves to be shown.
- NothingOrphaned. `PairingInv` is that a device is never replaced by another: between memory,
  state.json, the disk, the claims in flight and the service there is at most one per flow
  (`DeviceInv`), and the steps that send it come after the one that saved it. `SetupInv` is the
  same of the keys (`KeyInv`, `RecordInv`), with how far the set-up has come (`ConnectionInv`).
- RecoveredIsWhole. `RecoveryInv`: a receiver comes to latest.json once the rest is whole; no
  receiver writes to what is whole, whatever the other does.

Then the composition, from the assumptions of the parts. A step of the app is a step of the schedule
or changes nothing below the app (BelowStays, DashboardMoves); each hosted part keeps the invariants
of the others, which share the registry and the step under way with it (SetupKeepsPairing,
PairingKeepsSetup, RecoveryKeepsPairing, RecoveryKeepsSetup, `AppReceives`); and nothing but
`Crash` reaches across. So all eight properties of the parts hold inside the app
(`AppKeepsItsPromises`). Its own two need `OneKey` and QuietStays: an app that is not open begins
nothing and ends nothing.

Reasoning about the recovery showed a fault of an earlier model: `Undo` could not happen for the
app, because `Unlinks`, which it shares with `UnlinkPartial`, left the wizard as it was while `Rests` ends
its step. With it repaired, the run has the states in which the app removes its own download.


Only model-checked, on the bounds above: RestoreCompletes, InterruptedRecovers and
DeferralsAreCaughtUp, which are liveness under fairness, and the five violations.
`ASSUME`s on the constants are evaluated by
TLC in every run; the proofs use no other assumption. The inductive invariants were checked by
TLC on the instances of the runs before they were proved.

## 5. Findings

- **A killed removal signs the destination out** (`migration.py:1288`, `:1268`;
  run MCRestoreIdentity). `rm -rf ~/.codex` removes the identity files among the others. If
  the shell dies in it, restoration finds a `.codex` without them, takes this for
  a logout (`restore.py:213-227`) and restores a signed-out folder, though the
  backup has both files and a test asks that identity survive "every
  installation cut point".
- **A stop can be overwritten and leaves "running" without a worker**
  (`migration.py:823`; run MCEngineStops). The worker asks for a stop, then writes
  `running/final_delta` without the lock; a cancel accepted in between is overwritten, and the
  worker then ends without a further write. Nothing migrates, yet the state says "running": Resume
  (`:733-743`) and new starts are refused. Pause (`:718-722`) and Stop (`:751-757`), which the
  dashboard offers in this state (`dashboard.py:184`, `:461-466`), are accepted once more and
  then Resume works; a restart of the process helps too.
- **A rollback that is interrupted cannot be finished** (`vault_install.py:767`, `:757`;
  run MCVaultRollback). Its receipt, or the quarantined folder, of the first try makes each
  later try refuse, and the journal blocks every installation. Nothing is lost.
- **A history is called restored while the new one is live** (`vault_install.py:939`; run
  MCVaultRestored). The crash journal is unlinked, the flush of its removal fails (`:706-709`),
  and the handler, which finds no journal, rolls nothing back and answers "rollback was
  verified. The previous Codex history was restored." The snapshot stands whole and the previous
  history is in its backup folder: nothing is lost, but the user is told the opposite.
- **A search excludes a conversation that holds the phrase** (`vault_search_index.py:587`; run
  MCSearchMiss). Matches and rows are two SELECTs outside a transaction; a refresh that commits a file's
  row between them makes it one that is indexed and does not match. The module says
  that stale entries "are never used to exclude source files" (`:4-6`). The next search finds it.

Remarks: what the models show beside these, and no run states.

1. What a published reservation uploaded and left out of its snapshot stays at the provider
   and is charged to nobody (`0001_publication.sql:207`, `0020_cleanup_release.sql:54`).
2. Two abandoned reservations that were granted one key with different bytes: the DELETE
   of each is refused as a mismatch for the other (`0019_cleanup_object_claims.sql`).
3. A published run whose reply was lost is not confirmed when another Mac published next
   (`vault_hosted_live_run.py:264`, `vault_hosted_recovery_client.py:441`); a publication that
   arrives after its review was consumed as abandoned stands (`:431`).
4. A folder an interrupted known-chunk check left behind keeps a published journal from
   being retired (`vault_hosted_live_run.py:473`); a source that changes after its manifest
   was sealed can only be abandoned.
5. A version that turns a conversation from transcript to database, or back, drops its risk
   flag (`vault_hosted_snapshot_stage.py:433`, `vault_backup.py:700`), and so does one in which
   the conversation is missing or needs a review.
6. A scheduled run that read an earlier configuration completes after a new set-up, and
   the new folder is not due for one interval: the exception `last.from = config.at`.
7. A scheduled run that died leaves its last run "running"; the app is not idle again
   until the next one (`setup.py:592`).
8. A hosted download interrupted between link and unlink leaves a file with two names,
   which the next attempt refuses (`vault_remote_recovery.py:226`); two receivers that finish
   together may link a partial latest.json.
9. After a step back to authorization, on a purchase that is already enrolled, a new
    code is refused and the saved device cannot be asked for until the app is restarted
    (`vault_hosted_setup_flow.py:438`).
10. A first backup that fails, and whose Keychain then refuses the key, never shows the key
    later (`setup.py:1251-1264`); quitting is allowed while hosted setup displays its key.
11. A LaunchAgent file that cannot be written leaves the new configuration with the old file or
    none (`vault_schedule.py:481-482`).


## 6. Not modelled

- Component migration's own ordering (the same shell pieces and helper as module 1, with
  another scope); HTTP and command-line parsing; SSH host choice; rsync flags.
- Pairing of two Macs over SSH, and the permissions staging is given and takes back.
- Read-only scans, reports and listings, the Vault's own page: no state to protect.
- Salvage, attachments, titles and key replacement of the local vault; the transfer
  between remote stores; backup of a local vault to the service.
- Business seats, subscriptions, entitlement, checkout; commerce and HTTP wrappers.
- Cryptography, user interface, deployment.

Each is pure I/O, computation without protocol state, or a thin wrapper over what is
modelled, except the pairing of two Macs, key replacement and the business service. Trees
and conversations are never modelled byte by byte: a claim about their contents is a
claim about their digest, or about the length of a conversation.

