---------------------------- MODULE SetupDashboard ----------------------------
(***************************************************************************)
(* The app's local server, setup.py: it serializes the requests of its     *)
(* pages, admits each kind of work only beside work it cannot harm, shows  *)
(* the recovery key of a new vault until the person has saved it, and lets *)
(* itself be quit, or replaced by an update, when it is idle.              *)
(*                                                                         *)
(* It composes what runs under it: the schedule, backups and updates       *)
(* (VaultSchedule), the index (SearchIndex), hosted setup (HostedSetup)    *)
(* and hosted recovery (HostedRecovery), a step of either taking the slot  *)
(* of a restore.  Recovery into a folder, installation, browsing and the   *)
(* installation of a conversation are slots here, and so is a migration:   *)
(* what they do is the business of modules of their own.                   *)
(***************************************************************************)
EXTENDS VaultSchedule, HostedSetup, HostedRecovery, SearchIndex

CONSTANT Plans  \* bound: what the person may take up in one behaviour

VARIABLES plan,     \* what of it the person does
          worker,   \* the slots whose threads are alive
          engine,   \* the migration: "none", "ready" or "working"
          broken,   \* the journal of an interrupted installation is there
          display,  \* the vault whose recovery key is displayed
          unsaved   \* (history) the vault whose key was made here and not saved yet

Areas == {"setup", "key", "recovery", "folder", "search", "work"}
Slots == {"restore", "install", "browse", "thread"}

ASSUME DashboardAssumption == Plans \subseteq SUBSET Areas

hostedVars    == <<pairingVars, setupFlowVars, recoveryVars>>
slotVars      == <<worker, engine, broken>>
keyVars       == <<display, unsaved>>
dashboardVars == <<vars, hostedVars, indexVars, plan, slotVars, keyVars>>

PlansInit == /\ plan \in Plans
             /\ worker = {} /\ engine = "none" /\ broken = FALSE
             /\ display = {} /\ unsaved = {}

DashboardInit == Init /\ PairingInit /\ SetupInit /\ RecoveryInit /\ IndexInit /\ PlansInit

TakesUp(area) == area \in plan

-----------------------------------------------------------------------------
(* Admission.  Requests are handled one at a time, and none after the one  *)
(* that closes the app; the setup of a schedule is a single request.       *)

Serves == app.does = "open" /\ setup.pc = "none"

VaultAlive   == run.by = Person
RestoreAlive == "restore" \in worker \/ doing.pc # "none"
Alive(slot)  == IF slot = "restore" THEN RestoreAlive ELSE slot \in worker

\* (mutant) The slot of a hosted step is forgotten.
IdleButHosted == /\ ~VaultAlive /\ worker = {} /\ refresh.pc = "none" /\ display = {}
                 /\ last.status # "running" /\ engine # "working"

\* _idle_for_shutdown
Idle == /\ ~VaultAlive /\ ~RestoreAlive /\ worker = {} /\ refresh.pc = "none"
        /\ display = {}
        /\ last.status # "running" /\ engine # "working"

\* The slots a request to start work in a slot must find free.
Beside(slot) == CASE slot = "restore" -> {"restore", "install"}
                  [] slot = "install" -> {"restore", "install"}
                  [] OTHER            -> Slots

Admits(slot) == /\ Serves /\ ~VaultAlive
                /\ \A s \in Beside(slot) : ~Alive(s)

-----------------------------------------------------------------------------
(* Backups of the vault, and the recovery key. *)

\* (mutant) A displayed key does not keep the next backup away.
BackUpRegardless == /\ Serves /\ BackUp
                    /\ \A s \in {"restore", "install"} : ~Alive(s)
                    /\ display' = {}
                    /\ UNCHANGED <<hostedVars, indexVars, plan, slotVars, unsaved>>

StartBackup == /\ Serves /\ BackUp
               /\ \A s \in {"restore", "install"} : ~Alive(s)
               /\ display = {} /\ display' = {}
               /\ UNCHANGED <<hostedVars, indexVars, plan, slotVars, unsaved>>

\* The key of a vault is made once, by the backup that finds none.
Made == {v \in Vaults : ~vault[v].made /\ vault'[v].made}

GoesOn == /\ BackupGoesOn
          /\ unsaved' = unsaved \cup Made
          /\ UNCHANGED <<hostedVars, indexVars, plan, slotVars, display>>

\* A backup that made the key hands it over with its result; one that fails
\* asks the Keychain for the key of its vault, which may refuse.
BackupEnds ==
    /\ PersonEnds
    /\ \/ run.phase = "published" /\ display' = unsaved /\ UNCHANGED unsaved
       \/ /\ vault[run.vault].made
          /\ display' = {run.vault} /\ UNCHANGED unsaved
       \/ run.phase # "published" /\ display' = {} /\ unsaved' = {}
    /\ UNCHANGED <<hostedVars, indexVars, plan, slotVars>>

Acknowledge == /\ Serves /\ display # {}
               /\ display' = {} /\ unsaved' = {}
               /\ UNCHANGED <<vars, hostedVars, indexVars, plan, slotVars>>

-----------------------------------------------------------------------------
(* The slots. *)

StartRestore == /\ Admits("restore") /\ display = {}
                /\ worker' = worker \cup {"restore"} /\ UNCHANGED broken

StartInstall == /\ Admits("install") /\ display = {} /\ ~broken
                /\ worker' = worker \cup {"install"} /\ UNCHANGED broken

StartInstallRecovery == /\ Admits("install") /\ broken
                        /\ worker' = worker \cup {"install"} /\ UNCHANGED broken

StartBrowse == /\ Admits("browse") /\ display = {}
               /\ worker' = worker \cup {"browse"} /\ UNCHANGED broken

StartThreadInstall == /\ Admits("thread") /\ ~broken
                      /\ worker' = worker \cup {"thread"} /\ UNCHANGED broken

\* An installation, or its rollback, may leave the journal behind.
WorkerEnds == \E s \in worker :
                 /\ worker' = worker \ {s}
                 /\ IF s = "install" THEN broken' \in BOOLEAN ELSE UNCHANGED broken

SlotStep == /\ TakesUp("work")
            /\ \/ StartRestore \/ StartInstall \/ StartInstallRecovery
               \/ StartBrowse \/ StartThreadInstall \/ WorkerEnds
            /\ UNCHANGED <<vars, hostedVars, indexVars, plan, engine, keyVars>>

\* A migration is configured once; MigrationEngine says what it does.
ConfigureMigration == Serves /\ engine = "none" /\ engine' = "ready"
Migrate   == Serves /\ engine = "ready" /\ engine' = "working"
Migrated  == engine = "working" /\ engine' = "ready"

MigrationStep == /\ TakesUp("work")
                 /\ ConfigureMigration \/ Migrate \/ Migrated
                 /\ UNCHANGED <<vars, hostedVars, indexVars, plan, worker, broken, keyVars>>

-----------------------------------------------------------------------------
(* Hosted setup and recovery, the index and search. *)

\* What a request for a step changes at once.
Begins == doing.pc = "none" /\ <<doing, wizard, shown, account.codes>>'
                               # <<doing, wizard, shown, account.codes>>

HostedStep ==
    /\ plan \cap Flows # {}
    /\ \/ PairingStep /\ UNCHANGED <<setupFlowVars, recoveryVars>>
       \/ TakesUp("key") /\ SetupFlowNext /\ UNCHANGED recoveryVars
       \/ TakesUp("folder") /\ RecoveryStep /\ UNCHANGED setupFlowVars
    /\ \A f \in Flows : TakesUp(f) \/ UNCHANGED <<wizard[f], account.codes[f]>>
    /\ Begins => Serves /\ Idle
    /\ UNCHANGED <<vars, indexVars, plan, slotVars, keyVars>>

\* Searches are read requests, and need no turn.
IndexStep == /\ TakesUp("search") /\ SearchIndexNext
             /\ refresh.pc = "none" /\ <<refresh, index>>' # <<refresh, index>> => Serves
             /\ UNCHANGED <<vars, hostedVars, plan, slotVars, keyVars>>

-----------------------------------------------------------------------------
(* The schedule, updates, and the end of the app. *)

Beneath == UNCHANGED <<hostedVars, indexVars, plan, slotVars, keyVars>>

ScheduleStep ==
    /\ \/ CodexWrites
       \/ Wake \/ Skip \/ Defer \/ Enter \/ Call \/ Returned \/ Receipt
       \/ Fails \/ WriteFailed
       \/ SetUp \/ WritePlist \/ PlistFails \/ Unload \/ Bootstrap \/ PutBack
       \/ TurnOff \/ Forget \/ Unlink
       \/ HostedDefers \/ HostedStarts \/ HostedGoesOn
       \/ HostedChanges \/ HostedChangesOn \/ HostedFails
       \/ Replace \/ Lapse \/ KickLocal \/ KickHosted
    /\ Beneath

UpdateShutdown == Idle /\ PrepareUpdate /\ Beneath

\* The person quits.  Behaviours with no plan but the schedule leave this to
\* updates, which end the app the same way: a bound on the instance.
Quit == /\ Serves /\ Idle /\ plan # {}
        /\ app' = [does |-> "quitting", target |-> build]
        /\ UNCHANGED <<backupVars, deviceVars, scheduleVars, marker, build, kicks,
                       setups, owed, budget>>
        /\ Beneath

\* A new process: nothing of the old one's memory is left.
Reopen == /\ ResumeApp /\ Reopened(registry) /\ shown' = NoneShown
          /\ engine' = "none" /\ display' = {}
          /\ UNCHANGED <<durable, minted, account, claims, drawn, keyfile, keychain,
                         protected, upload, review, recoveryVars, indexVars, plan,
                         worker, broken, unsaved>>

\* The processes die, the app's and every other.
Crash == /\ Restart /\ Reopens /\ shown' = NoneShown
         /\ final' = [i \in Items |-> IF final[i] \in Receivers THEN "torn" ELSE final[i]]
         /\ partial' = [i \in Items |-> IF partial[i] \in Receivers THEN "torn" ELSE partial[i]]
         /\ receiver' = [p \in Receivers |-> Away]
         /\ refresh' = Rest /\ query' = Quiet
         /\ worker' = {} /\ engine' = "none" /\ display' = {} /\ unsaved' = {}
         /\ broken' \in IF "install" \in worker THEN BOOLEAN ELSE {broken}
         /\ UNCHANGED <<drawn, keyfile, keychain, protected, upload, review,
                        folder, twin, imported, issued, doc, base, index, changes, plan>>

DashboardNext ==
    \/ StartBackup \/ GoesOn \/ BackupEnds \/ Acknowledge
    \/ SlotStep \/ MigrationStep \/ HostedStep \/ IndexStep
    \/ ScheduleStep \/ UpdateShutdown \/ Quit \/ Reopen \/ Crash

DashboardSpec == DashboardInit /\ [][DashboardNext]_dashboardVars

-----------------------------------------------------------------------------
(* Nothing the app or launchd has begun is at work when the app may be      *)
(* replaced or is about to go: while an update's guard stands no scheduled  *)
(* process runs, and from the request that closes the app until it is gone  *)
(* no thread of it does, whatever was asked of it in between.               *)
NothingIsInterrupted ==
    /\ Guarded => Unlocked /\ run.by # Agent
    /\ app.does \in {"quitting", "closed"} =>
          ~VaultAlive /\ ~RestoreAlive /\ worker = {} /\ refresh.pc = "none"
             /\ engine # "working" /\ receiver["app"] = Away

(* The recovery key of a vault that a backup from the app made is in view   *)
(* until the person has saved it: no other request replaces it, and the app *)
(* is not quit over it.  The exception is a backup that fails and whose     *)
(* Keychain then refuses the key (setup.py:1251-1264): `unsaved` drops it.  *)
KeyStaysInView ==
    unsaved # {} => \/ display = unsaved /\ app.does = "open"
                    \/ VaultAlive /\ run.vault \in unsaved
-----------------------------------------------------------------------------
(* The inductive invariant. *)

DashboardTypeOK ==
    /\ plan \in Plans /\ worker \subseteq Slots
    /\ engine \in {"none", "ready", "working"} /\ broken \in BOOLEAN
    /\ display \subseteq Vaults /\ unsaved \subseteq Vaults

\* A backup from the app makes no other key than its vault's.
OneKey == VaultAlive => unsaved \subseteq {run.vault}

DashboardInv ==
    /\ BackupInv /\ RotationInv /\ ScheduleInv
    /\ PairingInv /\ SetupInv /\ RecoveryInv /\ AppReceives /\ IndexInv
    /\ DashboardTypeOK /\ NothingIsInterrupted /\ KeyStaysInView /\ OneKey
=============================================================================
