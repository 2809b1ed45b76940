--------------------------- MODULE MCSetupDashboard ---------------------------
\* Two conversations, both active, and two folders.  Each behaviour is given
\* one of a few budgets for the schedule and its backups, or takes up one
\* other part of the app.
EXTENDS SetupDashboard

VARIABLE watched  \* whether the behaviour is one of updates

None == [edits |-> 0, snaps |-> 0, setups |-> 0, updates |-> 0, rotations |-> 0, deaths |-> 0]
Edited   == [None EXCEPT !.edits = 2, !.snaps = 1]
Aged     == [None EXCEPT !.edits = 1, !.snaps = 2]
Moved    == [None EXCEPT !.snaps = 2, !.setups = 1]
Killed   == [None EXCEPT !.snaps = 2, !.setups = 2, !.deaths = 1]
Updated  == [None EXCEPT !.snaps = 1, !.updates = 2, !.deaths = 1]
Renewed  == [None EXCEPT !.updates = 2, !.rotations = 2, !.deaths = 1]
Worked   == [None EXCEPT !.snaps = 1, !.updates = 1, !.deaths = 1]
Unbacked == [None EXCEPT !.deaths = 1]

FewBudgets == {Edited, Aged, Moved, Killed, Updated, Renewed, Worked, Unbacked, None}
Pair  == {"setup", "recovery"}
Setup == {"setup", "key"}
Fetch == {"recovery", "folder"}
FewPlans == {{}, {"work"}, {"search"}, Pair, Setup, Fetch}

Suits(p, b) == CASE p = {}       -> b \notin {Worked, Unbacked, None}
                 [] p = {"work"} -> b = Worked
                 [] p = {"search"} -> b = None
                 [] OTHER        -> b = Unbacked

\* One conversation is enough where Codex writes nothing.
Active(ts) == [f \in File |-> IF f[1] = "active" /\ f[2] \in ts THEN MaxLen ELSE 0]
Single == Active({CHOOSE t \in Threads : TRUE})

\* Some budgets begin after a backup by hand, with its folder scheduled or not.
Target    == NoRun.vault
Scheduled == [there |-> TRUE, vault |-> Target, at |-> 1]
AfterBackup(c) ==
    /\ vault = [v \in Vaults |-> IF v = Target THEN [made |-> TRUE, refs |-> {1}, latest |-> 1]
                                 ELSE [made |-> FALSE, refs |-> {}, latest |-> 0]]
    /\ snaps = <<[vault |-> Target, prev |-> 0, seen |-> Single, kept |-> Single, risk |-> {},
                  moment |-> Single, line |-> <<>>]>>
    /\ run = NoRun /\ RotationInit
    /\ config = c /\ plist = c.there /\ loaded = c.there /\ setups = c.at
    /\ last = NoLast /\ local = Off /\ setup = NoSetup
    /\ marker = NoGuard /\ app = [does |-> "open", target |-> 0]
    /\ build = 0 /\ kicks = {} /\ owed = {}

\* Where the folder is what is asked about, this Mac was paired for recovery
\* before the app was last started.
Paired == [Blank EXCEPT !.recovery = 1]
AfterPairing ==
    /\ registry = Paired /\ durable = Paired
    /\ wizard = [f \in Flows |-> Opening(Paired, f)]
    /\ doing = Resting /\ minted = 1 /\ claims = {}
    /\ account = [enrolled |-> TRUE, codes |-> [f \in Flows |-> MaxCodes],
                  good |-> [f \in Flows |-> FALSE],
                  bound |-> [f \in Flows |-> IF f = "setup" THEN {} ELSE {1}]]

\* Whether a check put off is caught up is asked where there are updates: of the
\* local job (Updated) and of the hosted one (Renewed), the guard renewed, the
\* app reopened and the processes killed in between.
Start == /\ budget \in Budgets
         /\ watched = (budget \in {Updated, Renewed})
         /\ CASE budget = Aged               -> AfterBackup(NoConfig)
              [] budget \in {Moved, Updated} -> AfterBackup(Scheduled)
              [] OTHER                       -> Init
         /\ SetupInit /\ RecoveryInit /\ IndexInit /\ PlansInit
         /\ Suits(plan, budget)
         /\ src = IF budget = Edited THEN Active(Threads) ELSE Single
         /\ IF plan = Fetch THEN AfterPairing
            ELSE PairingInit /\ (account.enrolled => "recovery" \in plan)

StartNext == DashboardNext /\ UNCHANGED watched

\* launchd starts each job again at its next interval.  A process that waits for
\* the lock gets it some time if it must not be left out, one that holds it goes
\* on or fails, and some run of the hosted job is not killed.
WatchedFairness ==
    /\ WF_vars(watched /\ LocalGoesOn) /\ WF_vars(watched /\ GoesOnBelow)
    /\ WF_vars(watched /\ Wake) /\ SF_vars(watched /\ Enter /\ ~MaySkip)
    /\ SF_vars(watched /\ HostedStarts) /\ SF_vars(watched /\ HostedEnds)

StartSpec == Start /\ [][StartNext]_<<dashboardVars, watched>> /\ WatchedFairness

(* In those behaviours every check put off for an update is caught up        *)
(* (vault_schedule.py:160-197,:616-659, vault_hosted_schedule.py:428-501):    *)
(* it runs, whatever becomes of the guard, of the app and of its kicks.       *)
DeferralsAreCaughtUp == watched => DeferralIsCaughtUp
=============================================================================
