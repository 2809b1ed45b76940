-------------------------- MODULE MCMigrationEngine --------------------------
\* Model checking of MigrationEngine.  One run checks three stories: a first
\* migration with everything a user may ask for, a second one after a
\* restoration, in which the power may go, and the recovery of an interrupted
\* installation, which has to come to an end.
EXTENDS MigrationEngine

VARIABLE story

NoFlags == [cancel |-> FALSE, pause |-> FALSE, recovery |-> FALSE,
            path |-> FALSE, git |-> FALSE]

\* No thread runs, and the first installation is behind the user.
Later ==
    /\ prog = "none" /\ pc = 0 /\ verdict = "unknown" /\ flag = NoFlags
    /\ requested = "none" /\ ctl = "none" /\ up = TRUE /\ closing = FALSE
    /\ remote = "none" /\ txn = 1 /\ base = "old"
    /\ crashes = 0 /\ losses = 0 /\ edits = 0

\* The destination was restored, which the state file on the device does not
\* know of yet: where a second installation starts.
AfterRestore ==
    /\ Later
    /\ st = [status |-> "interrupted", phase |-> "restored",
             staging_complete |-> FALSE, receipt |-> FALSE, attempt |-> 1,
             resolved |-> TRUE, recovery |-> "restore_verified", found |-> 0,
             path |-> "ready", git |-> "unverified"]
    /\ dSt = With(st, [status |-> "running", phase |-> "restoring",
                       resolved |-> FALSE, recovery |-> "restoring"])
    /\ asked = 1 /\ journal = 0 /\ restored = {1} /\ content = "old"

\* The first installation was interrupted and its record is pending.
AfterInterruption ==
    /\ Later
    /\ st = [status |-> "failed", phase |-> "installing",
             staging_complete |-> FALSE, receipt |-> FALSE, attempt |-> 0,
             resolved |-> FALSE, recovery |-> "unknown", found |-> 0,
             path |-> "ready", git |-> "unverified"]
    /\ dSt = st
    /\ asked = 0 /\ journal = 1 /\ restored = {} /\ content = "mixed"

\* bounds of the stories: one installation but in the second, optional requests
\* and the user's work only in the first, losses of power only in the second.
Optional ==
    \/ StartInspection \/ StartPathCheck \/ Pause \/ Cancel \/ Shutdown
    \/ StopRecoveryCheck \/ StopGitCheck \/ ShutdownChecks

StoryLimits ==
    /\ story # "first" => edits' = 0 /\ ~Optional
    /\ IF story = "second" THEN crashes' = 0
       ELSE txn' <= 1 /\ losses' = 0 /\ ~Flush

StoryInit ==
    \/ story = "first" /\ Init
    \/ story = "second" /\ AfterRestore
    \/ story = "recovery" /\ AfterInterruption

StoryNext == Next /\ UNCHANGED story /\ StoryLimits

\* Fairness, which only the third story needs: threads, destination programs and
\* a restarted process go on; the person keeps asking for a check and for the
\* restoration; a request that is repeated reaches the destination some time, and
\* a restoration that is repeated gets past each of its stages.
StoryFairness ==
    LET told == story = "recovery"
    IN /\ WF_vars(told /\ (Restart \/ Exit \/ StopWritten \/ Migrates \/ Checks \/ Writers))
       /\ SF_vars(told /\ StartRecoveryCheck) /\ SF_vars(told /\ Look)
       /\ SF_vars(told /\ StartRestore /\ Alive') /\ SF_vars(told /\ SendRestore)
       /\ SF_vars(told /\ RestoreBegins) /\ SF_vars(told /\ RestoreMoves)
       /\ SF_vars(told /\ RestoreClears)

StorySpec == StoryInit /\ [][StoryNext]_<<vars, story>> /\ StoryFairness

\* RecoveryCompletes of the third story: an interrupted installation and an
\* unresolved restoration are resolved if the person goes on asking.
InterruptedRecovers == story = "recovery" => RecoveryCompletes

\* The view leaves out what nobody reads any more: the report and the flags of
\* a worker that is past them or has ended, the destination's copy of a request
\* that it has served, and what the disk has once no loss can bring it back.
\* Of the home paths and of Git it only matters whether a check is under way.
Seen(s) == [s EXCEPT !.path = @ = "checking", !.git = @ = "checking"]

View == << story, Seen(st), prog, pc, requested, ctl, up, closing, remote, record, faults,
           IF story = "second" /\ losses < MaxLosses THEN <<Seen(dSt)>>
           ELSE <<dSt.receipt, dSt.attempt, dSt.resolved>>,
           IF remote \in {"restore", "restoring"} THEN asked ELSE 0,
           IF \E l \in {"handoff", "verified", "report"} : At(l) THEN verdict ELSE "unknown",
           IF Alive THEN <<flag.cancel, flag.pause>> ELSE <<>>,
           prog = "recover" /\ flag.recovery,
           IF prog \in {"finalize", "paths"} THEN <<flag.path, flag.git>> ELSE <<>> >>
=============================================================================
