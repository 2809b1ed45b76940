---------------------------- MODULE VaultSchedule ----------------------------
(***************************************************************************)
(* What runs on its own on this Mac: vault_schedule.py with the lock and   *)
(* the guard it shares with vault_hosted_schedule.py.  launchd starts a    *)
(* local backup (VaultBackup) and a hosted one (DeviceRotation, then a run *)
(* that is not modelled here); the person sets up, changes and removes the *)
(* schedule and backs up by hand; and Sparkle replaces the app they all    *)
(* run from, for which the app reserves itself with a guard that lapses.   *)
(*                                                                         *)
(* Dates are compared, never shown: `at` numbers the setups of the         *)
(* schedule, and whether an interval has passed since is left open.        *)
(***************************************************************************)
EXTENDS VaultBackup, DeviceRotation

CONSTANTS Agent, Person,  \* the callers of a backup
          Builds,         \* builds Sparkle may install, 0 being the one shipped
          Budgets         \* bounds: how often each of these may happen in a behaviour

ASSUME ScheduleAssumption ==
    /\ Callers = {Agent, Person} /\ Agent # Person
    /\ Builds \subseteq Nat
    /\ Budgets \subseteq [edits : Nat, snaps : Nat, setups : Nat, updates : Nat,
                          rotations : Nat, deaths : Nat]

VARIABLES config,  \* schedule.json: the vault, and which setup wrote it
          plist,   \* the LaunchAgent file is there
          loaded,  \* launchd has the job
          last,    \* last-run.json
          local,   \* the scheduled backup's process
          setup,   \* the schedule's setup or removal under way
          marker,  \* update.json
          app,     \* the app: what it does, and the build it waits for
          build,   \* the build installed
          kicks,   \* jobs a resumed app still has to kick
          setups,  \* setups of the schedule so far
          owed,    \* (history) jobs whose check was deferred and has not run since
          budget   \* what may still happen

scheduleVars == <<config, plist, loaded, last, local, setup>>
guardVars    == <<marker, app, build, kicks>>
vars == <<backupVars, deviceVars, scheduleVars, guardVars, setups, owed, budget>>

NoConfig == [there |-> FALSE, vault |-> NoRun.vault, at |-> 0]
NoLast   == [status |-> "none", snapshot |-> 0, at |-> 0, from |-> 0]
Off      == [pc |-> "off", config |-> NoConfig, snapshot |-> 0]
NoSetup  == [pc |-> "none", config |-> NoConfig, plist |-> FALSE, loaded |-> FALSE]
NoGuard  == [there |-> FALSE, live |-> FALSE, deferred |-> FALSE, target |-> 0]

Init == /\ BackupInit /\ RotationInit
        /\ config = NoConfig /\ plist = FALSE /\ loaded = FALSE
        /\ last = NoLast /\ local = Off /\ setup = NoSetup
        /\ marker = NoGuard /\ app = [does |-> "open", target |-> 0]
        /\ build = 0 /\ kicks = {} /\ setups = 0 /\ owed = {}
        /\ budget \in Budgets

Spend(what) == budget[what] > 0 /\ budget' = [budget EXCEPT ![what] = @ - 1]

\* update.lock: one scheduled process, or one change of the hosted schedule.
LocalWorks  == local.pc \in {"calling", "working", "returned"}
HostedWorks == step # "free"
Unlocked    == ~LocalWorks /\ ~HostedWorks
Guarded     == marker.there /\ marker.live

\* _pending_update removes a guard that lapsed.
Looked == IF Guarded THEN marker ELSE NoGuard

-----------------------------------------------------------------------------
(* Backups. *)

CodexWrites == /\ Spend("edits") /\ Codex
               /\ UNCHANGED <<deviceVars, scheduleVars, guardVars, setups, owed>>

BackupGoesOn == /\ BackupStep
                /\ UNCHANGED <<deviceVars, scheduleVars, guardVars, setups, owed, budget>>

\* By hand, from the app.
BackUp == /\ app.does = "open" /\ setup.pc = "none"
          /\ Spend("snaps")
          /\ \E v \in Vaults : Begin(Person, v)
          /\ UNCHANGED <<deviceVars, scheduleVars, guardVars, setups, owed>>

PersonEnds == /\ run.by = Person
              /\ Return \/ Stop
              /\ UNCHANGED <<deviceVars, scheduleVars, guardVars, setups, owed, budget>>

-----------------------------------------------------------------------------
(* run_scheduled_backup. *)

Woken == IF config.there THEN [Off EXCEPT !.pc = "started", !.config = config] ELSE Off

\* launchd starts the job, which reads its configuration and waits for the lock.
Wake == /\ loaded /\ local.pc = "off" /\ config.there
        /\ local' = Woken
        /\ UNCHANGED <<backupVars, deviceVars, config, plist, loaded, last, setup,
                       guardVars, setups, owed, budget>>

\* _backup_due leaves a run out only after a backup newer than the setup.
MaySkip == \/ last.status = "none"
           \/ last.status = "completed" /\ last.at >= local.config.at

Skip == /\ local.pc = "started" /\ Unlocked /\ MaySkip
        /\ local' = Off
        /\ UNCHANGED <<backupVars, deviceVars, config, plist, loaded, last, setup,
                       guardVars, setups, owed, budget>>

\* (mutant) A check put off leaves the status of the run before.
DeferQuietly == /\ local.pc = "started" /\ Unlocked /\ Guarded
                /\ marker' = [marker EXCEPT !.deferred = TRUE]
                /\ local' = Off /\ owed' = owed \cup {"local"}
                /\ UNCHANGED <<backupVars, deviceVars, config, plist, loaded, last, setup,
                               app, build, kicks, setups, budget>>

\* The app is about to be replaced: try again later.
Defer == /\ local.pc = "started" /\ Unlocked /\ Guarded
         /\ marker' = [marker EXCEPT !.deferred = TRUE]
         /\ last' = [NoLast EXCEPT !.status = "failed"]
         /\ local' = Off /\ owed' = owed \cup {"local"}
         /\ UNCHANGED <<backupVars, deviceVars, config, plist, loaded, setup,
                        app, build, kicks, setups, budget>>

\* No update is coming: the run is on record before it begins.
Enter == /\ local.pc = "started" /\ Unlocked /\ ~Guarded
         /\ marker' = NoGuard
         /\ last' = [NoLast EXCEPT !.status = "running"]
         /\ local' = [local EXCEPT !.pc = "calling"]
         /\ UNCHANGED <<backupVars, deviceVars, config, plist, loaded, setup,
                        app, build, kicks, setups, owed, budget>>

\* The folder must be the vault the schedule was set up with.
Call == /\ local.pc = "calling"
        /\ vault[local.config.vault].made
        /\ Spend("snaps")
        /\ Begin(Agent, local.config.vault)
        /\ local' = [local EXCEPT !.pc = "working"]
        /\ UNCHANGED <<deviceVars, config, plist, loaded, last, setup,
                       guardVars, setups, owed>>

Returned == /\ run.by = Agent /\ Return
            /\ local' = [local EXCEPT !.pc = "returned", !.snapshot = Len(snaps)]
            /\ UNCHANGED <<deviceVars, config, plist, loaded, last, setup,
                           guardVars, setups, owed, budget>>

\* (mutant) The receipt is written while the backup still publishes.
ReceiptEarly ==
    /\ local.pc \in {"working", "returned"}
    /\ last' = [status |-> "completed", snapshot |-> Len(snaps),
                at |-> setups, from |-> local.config.at]
    /\ local' = Off /\ owed' = owed \ {"local"}
    /\ UNCHANGED <<backupVars, deviceVars, config, plist, loaded, setup,
                   guardVars, setups, budget>>

Receipt == /\ local.pc = "returned"
           /\ last' = [status |-> "completed", snapshot |-> local.snapshot,
                       at |-> setups, from |-> local.config.at]
           /\ local' = Off /\ owed' = owed \ {"local"}
           /\ UNCHANGED <<backupVars, deviceVars, config, plist, loaded, setup,
                          guardVars, setups, budget>>

\* An exception leaves the lock before it is written down.
ReleaseRun == IF run.by = Agent THEN Stop ELSE UNCHANGED backupVars
Fails == /\ LocalWorks
         /\ ReleaseRun
         /\ local' = [local EXCEPT !.pc = "failed", !.snapshot = 0]
         /\ UNCHANGED <<deviceVars, config, plist, loaded, last, setup,
                        guardVars, setups, owed, budget>>

WriteFailed == /\ local.pc = "failed"
               /\ last' = [NoLast EXCEPT !.status = "failed"]
               /\ local' = Off /\ owed' = owed \ {"local"}
               /\ UNCHANGED <<backupVars, deviceVars, config, plist, loaded, setup,
                              guardVars, setups, budget>>

-----------------------------------------------------------------------------
(* install_schedule and remove_schedule, which take no lock. *)

\* A verified snapshot must be in the folder first.
SetUp == /\ app.does = "open" /\ setup.pc = "none" /\ Spend("setups")
         /\ setups' = setups + 1
         /\ \E v \in Vaults : /\ vault[v].latest # 0
                              /\ config' = [there |-> TRUE, vault |-> v, at |-> setups']
         /\ setup' = [pc |-> "plist", config |-> config, plist |-> plist, loaded |-> loaded]
         /\ UNCHANGED <<backupVars, deviceVars, plist, loaded, last, local, guardVars, owed>>

WritePlist == /\ setup.pc = "plist"
              /\ plist' = TRUE
              /\ setup' = [setup EXCEPT !.pc = IF setup.loaded THEN "bootout" ELSE "bootstrap"]
              /\ UNCHANGED <<backupVars, deviceVars, config, loaded, last, local,
                             guardVars, setups, owed, budget>>

\* The LaunchAgent file could not be written: the configuration stays (:481).
PlistFails == /\ setup.pc = "plist"
              /\ setup' = NoSetup
              /\ UNCHANGED <<backupVars, deviceVars, config, plist, loaded, last, local,
                             guardVars, setups, owed, budget>>

\* launchctl bootout ends the job's process with it.
Bootout == /\ loaded' = FALSE /\ local' = Off /\ ReleaseRun

Unload == /\ setup.pc = "bootout"
          /\ Bootout
          /\ setup' = [setup EXCEPT !.pc = "bootstrap"]
          /\ UNCHANGED <<deviceVars, config, plist, last, guardVars, setups, owed, budget>>

Bootstrap == /\ setup.pc = "bootstrap"
             /\ loaded' = TRUE /\ setup' = NoSetup
             /\ UNCHANGED <<backupVars, deviceVars, config, plist, last, local,
                            guardVars, setups, owed, budget>>

\* launchctl refused: both files go back, and the old job if it will load.
PutBack == /\ setup.pc \in {"bootout", "bootstrap"}
           /\ config' = setup.config /\ plist' = setup.plist
           /\ \/ UNCHANGED loaded
              \/ setup.plist /\ setup.loaded /\ loaded' = TRUE
           /\ setup' = NoSetup
           /\ UNCHANGED <<backupVars, deviceVars, last, local, guardVars, setups, owed, budget>>

TurnOff == /\ app.does = "open" /\ setup.pc = "none"
           /\ config.there \/ plist
           /\ IF loaded THEN Bootout ELSE UNCHANGED <<backupVars, loaded, local>>
           /\ setup' = [NoSetup EXCEPT !.pc = "forget"]
           /\ UNCHANGED <<deviceVars, config, plist, last, guardVars, setups, owed, budget>>

Forget == /\ setup.pc = "forget"
          /\ config' = NoConfig /\ setup' = [setup EXCEPT !.pc = "unlink"]
          /\ UNCHANGED <<backupVars, deviceVars, plist, loaded, last, local,
                         guardVars, setups, owed, budget>>

Unlink == /\ setup.pc = "unlink"
          /\ plist' = FALSE /\ setup' = NoSetup
          /\ UNCHANGED <<backupVars, deviceVars, config, loaded, last, local,
                         guardVars, setups, owed, budget>>

-----------------------------------------------------------------------------
(* The hosted job, and the person's changes of its schedule. *)

HostedDefers == /\ Unlocked /\ Guarded /\ scheduled # NoDevice
                /\ marker' = [marker EXCEPT !.deferred = TRUE]
                /\ owed' = owed \cup {"hosted"}
                /\ UNCHANGED <<backupVars, deviceVars, scheduleVars, app, build, kicks,
                               setups, budget>>

HostedStarts == /\ Unlocked /\ ~Guarded /\ budget.rotations > 0
                /\ StartRun
                /\ marker' = NoGuard
                /\ UNCHANGED <<backupVars, scheduleVars, app, build, kicks, setups, owed,
                               budget>>

HostedGoesOn == /\ RotationStep \/ Finish \/ Arrive \/ Lose
                /\ IF step = "start" /\ step' = "created" THEN Spend("rotations")
                                                          ELSE UNCHANGED budget
                /\ owed' = IF step' = "free" /\ step # "free" THEN owed \ {"hosted"} ELSE owed
                /\ UNCHANGED <<backupVars, scheduleVars, guardVars, setups>>

HostedChanges == /\ app.does = "open" /\ budget.rotations > 0
                 /\ Unlocked /\ ~Guarded
                 /\ Enable \/ Remove
                 /\ marker' = NoGuard
                 /\ UNCHANGED <<backupVars, scheduleVars, app, build, kicks, setups, owed, budget>>

HostedChangesOn == /\ Bind \/ Schedule \/ Load \/ RollBack \/ Unschedule
                   /\ UNCHANGED <<backupVars, scheduleVars, guardVars, setups, owed, budget>>

\* What fails on its own has run, and says so; what is killed has not.
HostedFails == /\ Abort
               /\ owed' \in {owed, owed \ {"hosted"}}
               /\ owed' # owed => step \notin {"bind", "schedule", "load", "forget"}
               /\ UNCHANGED <<backupVars, scheduleVars, guardVars, setups, budget>>

-----------------------------------------------------------------------------
(* The app and its update. *)

\* prepare_update, when the app is idle, and the quit that follows.
PrepareUpdate ==
    /\ app.does = "open" /\ setup.pc = "none" /\ run.by # Person
    /\ Unlocked /\ Spend("updates")
    /\ \E t \in Builds : /\ Looked.there => t >= Looked.target
                         /\ marker' = [there |-> TRUE, live |-> TRUE,
                                       deferred |-> Looked.deferred, target |-> t]
                         /\ app' = [does |-> "quitting", target |-> t]
    /\ UNCHANGED <<backupVars, deviceVars, scheduleVars, build, kicks, setups, owed>>

\* Sparkle replaces the bundle, or gives up, or its reply was lost.
Replace == /\ app.does = "quitting"
           /\ app' = [does |-> "closed", target |-> 0]
           /\ build' \in {build, app.target}
           /\ UNCHANGED <<backupVars, deviceVars, scheduleVars, marker, kicks,
                          setups, owed, budget>>

Lapse == /\ Guarded
         /\ marker' = [marker EXCEPT !.live = FALSE]
         /\ UNCHANGED <<backupVars, deviceVars, scheduleVars, app, build, kicks, setups,
                        owed, budget>>

\* resume_after_update, at the start of every app.
ResumeApp ==
    /\ app.does = "closed" /\ (marker.there => Unlocked)
    /\ app' = [app EXCEPT !.does = "open"]
    /\ IF Guarded /\ build < marker.target
       THEN UNCHANGED <<marker, kicks>>
       ELSE /\ marker' = NoGuard
            /\ kicks' = IF Guarded /\ marker.deferred
                        THEN {j \in {"local", "hosted"} :
                                IF j = "local" THEN loaded ELSE scheduled # NoDevice}
                        ELSE kicks
    /\ UNCHANGED <<backupVars, deviceVars, scheduleVars, build, setups, owed, budget>>

\* kickstart -k: whatever runs is killed and the job started again.
KickLocal == /\ "local" \in kicks /\ kicks' = kicks \ {"local"}
             /\ IF loaded THEN ReleaseRun ELSE UNCHANGED backupVars
             /\ local' = IF loaded THEN Woken ELSE local
             /\ UNCHANGED <<deviceVars, config, plist, loaded, last, setup, marker, app,
                            build, setups, owed, budget>>

KickHosted == /\ "hosted" \in kicks /\ kicks' = kicks \ {"hosted"}
              /\ IF step \in {"free", "bind", "schedule", "load", "forget"}
                 THEN UNCHANGED deviceVars ELSE Abort
              /\ UNCHANGED <<backupVars, scheduleVars, marker, app, build, setups, owed, budget>>

\* The power goes, or every process is killed and the person signs in again.
Restart == /\ Spend("deaths")
           /\ IF run.by = NoOne THEN UNCHANGED backupVars ELSE Stop
           /\ IF step = "free" THEN UNCHANGED deviceVars ELSE Abort
           /\ local' = Off /\ setup' = NoSetup /\ kicks' = {}
           /\ loaded' = plist
           /\ app' = [does |-> "closed", target |-> 0]
           /\ UNCHANGED <<config, plist, last, marker, build, setups, owed>>

Next ==
    \/ CodexWrites \/ BackupGoesOn \/ BackUp \/ PersonEnds
    \/ Wake \/ Skip \/ Defer \/ Enter \/ Call \/ Returned \/ Receipt
    \/ Fails \/ WriteFailed
    \/ SetUp \/ WritePlist \/ PlistFails \/ Unload \/ Bootstrap \/ PutBack
    \/ TurnOff \/ Forget \/ Unlink
    \/ HostedDefers \/ HostedStarts \/ HostedGoesOn
    \/ HostedChanges \/ HostedChangesOn \/ HostedFails
    \/ PrepareUpdate \/ Replace \/ Lapse \/ ResumeApp \/ KickLocal \/ KickHosted
    \/ Restart

Spec == Init /\ [][Next]_vars

\* A process that holds the lock goes on or fails.
LocalGoesOn == \/ run.by = Agent /\ BackupGoesOn
               \/ Call \/ Returned \/ Receipt \/ Fails \/ WriteFailed
HostedEnds  == (HostedGoesOn \/ HostedFails) /\ owed' # owed

\* What needs no other event goes on: time, which ends guards, and the processes
\* that wait for nothing.
GoesOnBelow == \/ Lapse \/ Unload \/ Bootstrap \/ PutBack
               \/ HostedGoesOn \/ HostedChangesOn \/ HostedFails
-----------------------------------------------------------------------------
Configs   == [there : BOOLEAN, vault : Vaults, at : Nat]
Results   == [status : {"none", "running", "completed", "failed"},
              snapshot : Nat, at : Nat, from : Nat]
Processes == [pc : {"off", "started", "calling", "working", "returned", "failed"},
              config : Configs, snapshot : Nat]
Changes   == [pc : {"none", "plist", "bootout", "bootstrap", "forget", "unlink"},
              config : Configs, plist : BOOLEAN, loaded : BOOLEAN]
Guards    == [there : BOOLEAN, live : BOOLEAN, deferred : BOOLEAN, target : Nat]
Apps      == [does : {"open", "quitting", "closed"}, target : Nat]
Bounds    == [edits : Nat, snaps : Nat, setups : Nat, updates : Nat, rotations : Nat,
              deaths : Nat]

TypeOK ==
    /\ config \in Configs /\ plist \in BOOLEAN /\ loaded \in BOOLEAN
    /\ last \in Results /\ local \in Processes /\ setup \in Changes
    /\ marker \in Guards /\ app \in Apps
    /\ build \in Nat /\ kicks \subseteq {"local", "hosted"}
    /\ setups \in Nat /\ owed \subseteq {"local", "hosted"} /\ budget \in Bounds

(* A receipt that lets the next wakes be skipped is for a snapshot that is  *)
(* published and that its folder still lists as the newest or has replaced  *)
(* by a newer one; and unless the run had read an earlier setup, the folder *)
(* is the one that is configured.                                           *)
ReceiptIsStored ==
    last.status = "completed" =>
        LET v == snaps[last.snapshot].vault
        IN  /\ last.snapshot \in vault[v].refs
            /\ vault[v].latest >= last.snapshot
            /\ config.there /\ last.from = config.at => v = config.vault

\* A job that is not loaded, or whose runs are used up, is not held to anything.
Excused(job) == IF job = "local" THEN ~loaded \/ ~config.there
                ELSE scheduled = NoDevice \/ budget.rotations = 0

(* A check put off for an update is caught up: it runs, and is not only     *)
(* promised by a guard, whether that is renewed, lapses or is cleared by an *)
(* app whose kick is lost.                                                  *)
DeferralIsCaughtUp == owed # {} ~> \A job \in owed : Excused(job)

(* Until then no wake of the schedule is left out for not being due.         *)
DeferralIsKept == "local" \in owed => ~MaySkip
-----------------------------------------------------------------------------
(* The inductive invariant. *)

\* The snapshot is published in the folder, which has it or a newer one last.
Stored(s, v) == /\ s \in 1..Len(snaps) /\ snaps[s].vault = v
                /\ s \in vault[v].refs /\ s <= vault[v].latest

\* How far the run that holds the history lock has published, and whose it is.
ProgressInv ==
    /\ run.by = Agent <=> local.pc = "working"
    /\ run.by = Agent => run.vault = local.config.vault /\ vault[run.vault].made
    /\ run.phase \in {"sealed", "referenced", "published"} => snaps[Len(snaps)].vault = run.vault
    /\ run.phase \in {"referenced", "published"} => Len(snaps) \in vault[run.vault].refs
    /\ run.phase = "published" => Len(snaps) <= vault[run.vault].latest

\* One setup wrote one configuration, wherever a copy of it is.
ConfigInv ==
    /\ \A c \in {config, setup.config, local.config} :
         /\ c.at <= setups
         /\ c.there => c.at > 0
         /\ \A d \in {config, setup.config, local.config} :
              c.there /\ d.there /\ c.at = d.at => c.vault = d.vault
    /\ local.pc # "off" => local.config.there

\* What a receipt says, and what the process that will write it knows.
ReceiptsInv ==
    /\ local.pc = "returned" => Stored(local.snapshot, local.config.vault)
    /\ last.status = "completed" =>
         /\ Stored(last.snapshot, snaps[last.snapshot].vault)
         /\ last.from <= setups
         /\ \A c \in {config, setup.config, local.config} :
              c.there /\ c.at = last.from => c.vault = snaps[last.snapshot].vault

\* A guard that stands keeps scheduled processes away, and a check put off is on
\* record as failed, or as under way.
GuardInv == /\ "local" \in owed => last.status \in {"failed", "running"}
            /\ Guarded => Unlocked

ScheduleInv == TypeOK /\ ProgressInv /\ ConfigInv /\ ReceiptsInv /\ GuardInv
=============================================================================
