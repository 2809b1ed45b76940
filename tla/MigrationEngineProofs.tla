------------------------ MODULE MigrationEngineProofs ------------------------
(***************************************************************************)
(* A stop that was accepted prevents the installation, and what the saved  *)
(* state says of an installation, a restoration and a receipt is true, for *)
(* any number of installations, crashes, power losses and edits.           *)
(*                                                                         *)
(* EngineInv is inductive.  Its parts: what any saved state says of the    *)
(* destination, whether it is the one in use or the one on the device      *)
(* (Sound); what the worker has made sure of, by the step it is at         *)
(* (ThreadInv, CheckedInv); what its last report still says when it is     *)
(* published (VerdictInv); how an installation, a stop and the worker      *)
(* share the saved phase (InstallInv); and who says that Git is being      *)
(* checked (GitInv).  Steps are named by their number in Script.           *)
(***************************************************************************)
EXTENDS MigrationEngine, TLAPS

\* The worker is between two steps of program p.
In(p, first, last) == prog = p /\ pc \in first..last

\* Past preflight's first check; past its look at the destination; past the
\* write that forces the baseline to the device; once it installs.
Checked == In("inspect", 2, 4) \/ In("preseed", 3, 12) \/ In("finalize", 2, 21)
Probed == In("preseed", 4, 12) \/ In("finalize", 3, 21)
Baselined == In("finalize", 9, 21)
Installing == In("finalize", 19, 21)
PathStep == In("paths", 1, 2) \/ In("finalize", 22, 23)
GitStep == In("paths", 3, 5) \/ In("finalize", 24, 26)

\* What a saved state says of the destination is true.
Sound(s) ==
    /\ s.attempt <= txn /\ s.found <= txn
    /\ Open(s) => /\ ~s.receipt /\ journal \in {0, s.attempt}
                  /\ remote \notin {"install", "installing"}
    /\ s.phase \in {"restoring", "recovery_required"} => Open(s)
    /\ s.recovery \in {"restoring", "restore_incomplete", "restore_pending_cleanup"} => Open(s)
    /\ s.phase = "restored" =>
         /\ s.attempt # 0 /\ s.resolved /\ ~s.receipt
         /\ journal = 0 /\ remote \notin {"install", "installing"}
    /\ s.found # 0 => journal = s.found /\ remote = "none"
    /\ s.receipt => /\ journal = 0 /\ content \in {"new", "edited"}
                    /\ remote \in {"none", "stage"}
    /\ remote \in {"restore", "restoring"} => Open(s) /\ s.attempt = asked
    /\ s.phase = "installing" => s.status \in {"running", "failed"} /\ ~s.staging_complete

SavedInv == Sound(st) /\ Sound(dSt)

ThreadInv ==
    /\ ~up => prog = "none" /\ ctl = "none" /\ ~closing
    /\ In("finalize", 20, 20) => remote \in {"install", "installing"}
    /\ In("finalize", 21, 21) =>
         journal = 0 /\ content \in {"new", "edited"} /\ remote = "none"
    /\ In("restore", 2, 2) => remote \in {"restore", "restoring"}
    /\ In("restore", 1, 4) => /\ Open(st) /\ Open(dSt) /\ dSt.attempt = st.attempt
                              /\ st.found = 0 /\ dSt.found = 0

CheckedInv ==
    /\ Checked => ~Open(st) /\ ~st.receipt
    /\ Probed => st.found = 0 /\ dSt.found = 0
    /\ In("finalize", 4, 21) => st.phase # "restored"
    /\ In("finalize", 12, 21) => ~st.staging_complete
    /\ Baselined => ~Open(dSt) /\ ~dSt.receipt /\ dSt.phase # "restored"

\* The worker gets no further than it was.
NotFurther ==
    /\ Checked' => Checked
    /\ Probed' => Probed
    /\ Baselined' => Baselined
    /\ In("finalize", 4, 21)' => In("finalize", 4, 21)
    /\ In("finalize", 12, 21)' => In("finalize", 12, 21)

VerdictInv ==
    /\ In("recover", 2, 2) \/ In("restore", 4, 4) =>
         /\ verdict \in Reports
         /\ verdict = "backup_verified" =>
              prog = "recover" /\ ~Reconciling /\ journal # 0 /\ remote = "none"
         /\ verdict \in Reports \ {"unknown", "backup_verified"} =>
              Reconciling /\ st.attempt # 0
         /\ verdict = "restore_verified" =>
              remote = "none" /\ journal = 0 /\ content \in {base, "edited"}
    /\ In("paths", 2, 2) \/ In("finalize", 23, 23) => verdict \in {"ready", "unverified"}
    /\ In("paths", 5, 5) \/ In("finalize", 26, 26) => verdict \in {"verified", "unverified"}

InstallInv ==
    /\ Installing => st.phase = "installing"
    /\ In("finalize", 19, 20) => closing \/ ~(flag.cancel \/ flag.pause)
    /\ up /\ st.phase = "installing" /\ st.status = "running" =>
         /\ Installing \/ prog = "raised" \/ ctl = "quitInstalling"
         /\ flag.cancel \/ flag.pause => ctl = "quitInstalling"
    /\ ctl \in {"pause", "cancel", "quit"} => st.phase # "installing"
    /\ ctl \in {"pause", "cancel"} => st.phase \notin Protected

GitInv ==
    /\ up /\ st.git = "checking" => GitStep
    /\ GitStep /\ flag.git => st.git # "checking"
    /\ PathStep /\ flag.git => flag.path

EngineInv ==
    /\ TypeOK /\ SavedInv /\ ThreadInv /\ CheckedInv /\ VerdictInv
    /\ InstallInv /\ GitInv

-----------------------------------------------------------------------------
(* The labels of the programs, and updates of the saved state.             *)

\* Where each label is.
Labelled ==
    /\ At("guard") <=> (prog = "raised" /\ pc = 1)
    /\ At("fail") <=> (prog = "raised" /\ pc = 2)
    /\ At("check") <=> (prog = "inspect" /\ pc = 1) \/ (prog = "preseed" /\ pc = 2)
                       \/ (prog = "finalize" /\ pc = 1)
    /\ At("probe") <=> (prog = "inspect" /\ pc = 2) \/ (prog = "preseed" /\ pc = 3)
                       \/ (prog = "finalize" /\ pc = 2)
    /\ At("publish") <=> (prog = "inspect" /\ pc = 3) \/ (prog = "preseed" /\ pc = 4)
                         \/ (prog = "finalize" /\ pc = 3)
    /\ At("stop") <=> (prog = "inspect" /\ pc = 4)
                      \/ (prog = "preseed" /\ pc \in {5, 7, 11})
                      \/ (prog = "finalize" /\ pc \in {9, 13, 16})
    /\ At("begin") <=> (prog = "preseed" /\ pc = 1)
    /\ At("prepare") <=> (prog = "preseed" /\ pc = 6) \/ (prog = "finalize" /\ pc = 5)
    /\ At("enter") <=> (prog = "preseed" /\ pc = 8) \/ (prog = "finalize" /\ pc = 10)
    /\ At("copy") <=> (prog = "preseed" /\ pc = 9) \/ (prog = "finalize" /\ pc = 11)
    /\ At("copying") <=> (prog = "preseed" /\ pc = 10) \/ (prog = "finalize" /\ pc = 12)
    /\ At("staged") <=> (prog = "preseed" /\ pc = 12)
    /\ At("closed") <=> (prog = "finalize" /\ pc = 4)
    /\ At("freeze") <=> (prog = "finalize" /\ pc \in {6, 14})
    /\ At("reading") <=> (prog = "finalize" /\ pc \in {7, 15})
    /\ At("baseline") <=> (prog = "finalize" /\ pc = 8)
    /\ At("reclosed") <=> (prog = "finalize" /\ pc = 17)
    /\ At("commit") <=> (prog = "finalize" /\ pc = 18)
    /\ At("install") <=> (prog = "finalize" /\ pc = 19)
    /\ At("reply") <=> (prog = "finalize" /\ pc = 20) \/ (prog = "restore" /\ pc = 2)
    /\ At("complete") <=> (prog = "finalize" /\ pc = 21)
    /\ At("paths") <=> (prog = "finalize" /\ pc = 22) \/ (prog = "paths" /\ pc = 1)
    /\ At("handoff") <=> (prog = "finalize" /\ pc = 23) \/ (prog = "paths" /\ pc = 2)
    /\ At("git") <=> (prog = "finalize" /\ pc = 24) \/ (prog = "paths" /\ pc = 3)
    /\ At("probeGit") <=> (prog = "finalize" /\ pc = 25) \/ (prog = "paths" /\ pc = 4)
    /\ At("verified") <=> (prog = "finalize" /\ pc = 26) \/ (prog = "paths" /\ pc = 5)
    /\ At("look") <=> (prog = "recover" /\ pc = 1)
    /\ At("report") <=> (prog = "recover" /\ pc = 2) \/ (prog = "restore" /\ pc = 4)
    /\ At("send") <=> (prog = "restore" /\ pc = 1)
    /\ At("judge") <=> (prog = "restore" /\ pc = 3)

\* Each label has its places in the programs.
LEMMA Labels == ASSUME TypeOK PROVE Labelled
<1>1. prog \in Programs /\ (prog # "none" => pc \in 1..Len(Script[prog]))
  BY DEF TypeOK
<1>2. CASE prog = "none"
  BY <1>2 DEF Labelled, At, Alive
<1>3. CASE prog = "raised"
  <2>1. pc \in 1..2 /\ Script["raised"] = <<"guard", "fail">>
    BY <1>1, <1>3 DEF Script
  <2> QED BY <1>3, <2>1 DEF Labelled, At, Alive
<1>4. CASE prog = "inspect"
  <2>1. pc \in 1..4 /\ Script["inspect"] = <<"check", "probe", "publish", "stop">>
    BY <1>1, <1>4 DEF Script
  <2> QED BY <1>4, <2>1 DEF Labelled, At, Alive
<1>5. CASE prog = "preseed"
  <2>1. /\ pc \in 1..12
        /\ Script["preseed"] = <<"begin", "check", "probe", "publish", "stop", "prepare",
                                  "stop", "enter", "copy", "copying", "stop", "staged">>
    BY <1>1, <1>5 DEF Script
  <2> QED BY <1>5, <2>1 DEF Labelled, At, Alive
<1>6. CASE prog = "finalize"
  <2>1. /\ pc \in 1..26
        /\ Script["finalize"] =
             <<"check", "probe", "publish", "closed", "prepare", "freeze", "reading",
               "baseline", "stop", "enter", "copy", "copying", "stop", "freeze", "reading",
               "stop", "reclosed", "commit", "install", "reply", "complete",
               "paths", "handoff", "git", "probeGit", "verified">>
    BY <1>1, <1>6 DEF Script
  <2> QED BY <1>6, <2>1 DEF Labelled, At, Alive
<1>7. CASE prog = "recover"
  <2>1. pc \in 1..2 /\ Script["recover"] = <<"look", "report">>
    BY <1>1, <1>7 DEF Script
  <2> QED BY <1>7, <2>1 DEF Labelled, At, Alive
<1>8. CASE prog = "restore"
  <2>1. pc \in 1..4 /\ Script["restore"] = <<"send", "reply", "judge", "report">>
    BY <1>1, <1>8 DEF Script
  <2> QED BY <1>8, <2>1 DEF Labelled, At, Alive
<1>9. CASE prog = "paths"
  <2>1. pc \in 1..5 /\ Script["paths"] = <<"paths", "handoff", "git", "probeGit", "verified">>
    BY <1>1, <1>9 DEF Script
  <2> QED BY <1>9, <2>1 DEF Labelled, At, Alive
<1> QED BY <1>1, <1>2, <1>3, <1>4, <1>5, <1>6, <1>7, <1>8, <1>9 DEF Programs, Script

Fields == {"status", "phase", "staging_complete", "receipt", "attempt", "resolved",
           "recovery", "found", "path", "git"}

\* Which fields an update changes and keeps.
LEMMA WithFields ==
    ASSUME NEW s \in States, NEW c
    PROVE  /\ DOMAIN With(s, c) = Fields
           /\ \A f \in Fields : With(s, c)[f] = IF f \in DOMAIN c THEN c[f] ELSE s[f]
           /\ With(s, c) = [f \in Fields |-> IF f \in DOMAIN c THEN c[f] ELSE s[f]]
BY DEF With, States, Fields

\* What a status and a phase can be.
Statuses == {"idle", "running", "ready", "waiting", "paused", "cancelled", "failed",
             "interrupted", "ready_to_finalize", "needs_attention", "complete"}
Phases == {"idle", "inspecting", "preflight_complete", "staging", "staged",
           "verifying_sources", "final_delta", "close_codex", "installing"}
             \cup Protected \cup Installed

\* An update with values of the right types.
LEMMA WithTyped ==
  ASSUME NEW s \in States, NEW c,
         "status" \in DOMAIN c => c.status \in Statuses,
         "phase" \in DOMAIN c => c.phase \in Phases,
         "staging_complete" \in DOMAIN c => c.staging_complete \in BOOLEAN,
         "receipt" \in DOMAIN c => c.receipt \in BOOLEAN,
         "attempt" \in DOMAIN c => c.attempt \in 0..MaxInstalls,
         "resolved" \in DOMAIN c => c.resolved \in BOOLEAN,
         "recovery" \in DOMAIN c => c.recovery \in {"checking", "restoring"} \cup Reports,
         "found" \in DOMAIN c => c.found \in 0..MaxInstalls,
         "path" \in DOMAIN c => c.path \in {"checking", "ready", "unverified"},
         "git" \in DOMAIN c => c.git \in {"checking", "verified", "unverified"}
  PROVE  With(s, c) \in States
<1>1. /\ With(s, c).status = IF "status" \in DOMAIN c THEN c.status ELSE s.status
      /\ With(s, c).phase = IF "phase" \in DOMAIN c THEN c.phase ELSE s.phase
      /\ With(s, c).staging_complete = IF "staging_complete" \in DOMAIN c
                                      THEN c.staging_complete ELSE s.staging_complete
      /\ With(s, c).receipt = IF "receipt" \in DOMAIN c THEN c.receipt ELSE s.receipt
      /\ With(s, c).attempt = IF "attempt" \in DOMAIN c THEN c.attempt ELSE s.attempt
      /\ With(s, c).resolved = IF "resolved" \in DOMAIN c THEN c.resolved ELSE s.resolved
      /\ With(s, c).recovery = IF "recovery" \in DOMAIN c THEN c.recovery ELSE s.recovery
      /\ With(s, c).found = IF "found" \in DOMAIN c THEN c.found ELSE s.found
      /\ With(s, c).path = IF "path" \in DOMAIN c THEN c.path ELSE s.path
      /\ With(s, c).git = IF "git" \in DOMAIN c THEN c.git ELSE s.git
  BY WithFields DEF Fields
<1>2. /\ With(s, c).staging_complete \in BOOLEAN /\ With(s, c).receipt \in BOOLEAN
      /\ With(s, c).resolved \in BOOLEAN
  BY <1>1 DEF States, Statuses, Phases
<1>3. With(s, c).status \in Statuses /\ With(s, c).phase \in Phases
  BY <1>1 DEF States, Statuses, Phases
<1>4. With(s, c).attempt \in 0..MaxInstalls /\ With(s, c).found \in 0..MaxInstalls
  BY <1>1 DEF States, Statuses, Phases
<1>5. With(s, c).recovery \in {"checking", "restoring"} \cup Reports
      /\ With(s, c).path \in {"checking", "ready", "unverified"}
      /\ With(s, c).git \in {"checking", "verified", "unverified"}
  BY <1>1 DEF States, Statuses, Phases
<1> QED BY WithFields DEF States, Fields, Statuses, Phases

\* Where the worker can be.
Places(p, k) ==
    \/ p = "none" /\ k \in 0..26
    \/ p = "raised" /\ k \in 1..2
    \/ p = "inspect" /\ k \in 1..4
    \/ p = "preseed" /\ k \in 1..12
    \/ p = "finalize" /\ k \in 1..26
    \/ p = "recover" /\ k \in 1..2
    \/ p = "restore" /\ k \in 1..4
    \/ p = "paths" /\ k \in 1..5

\* A step that is somewhere in a program is typed.
LEMMA PlacesTyped ==
    /\ \A p, k : Places(p, k) <=> /\ p \in Programs /\ k \in 0..Len(Script["finalize"])
                                  /\ p # "none" => k \in 1..Len(Script[p])
    /\ Len(Script["restore"]) = 4
<1>1. /\ Programs = {"none", "raised", "inspect", "preseed", "finalize", "recover",
                    "restore", "paths"}
      /\ Len(Script["raised"]) = 2 /\ Len(Script["inspect"]) = 4
      /\ Len(Script["preseed"]) = 12 /\ Len(Script["finalize"]) = 26
      /\ Len(Script["recover"]) = 2 /\ Len(Script["restore"]) = 4
      /\ Len(Script["paths"]) = 5
  BY DEF Programs, Script
<1>2. \A p, k : Places(p, k) => /\ p \in Programs /\ k \in 0..26
                                /\ p # "none" => k \in 1..Len(Script[p])
  <2> SUFFICES ASSUME NEW p, NEW k, Places(p, k)
               PROVE  p \in Programs /\ k \in 0..26 /\ (p # "none" => k \in 1..Len(Script[p]))
    OBVIOUS
  <2>1. p \in Programs /\ k \in 0..26
    BY <1>1 DEF Places
  <2>2. ASSUME p # "none" PROVE k \in 1..Len(Script[p])
    BY <1>1, <2>2 DEF Places
  <2> QED BY <2>1, <2>2
<1>3. \A p, k : /\ p \in Programs /\ k \in 0..26
                /\ p # "none" => k \in 1..Len(Script[p])
                => Places(p, k)
  BY <1>1 DEF Places
<1> QED BY <1>1, <1>2, <1>3

\* What a stop raises.
LEMMA RaisedFacts ==
    ASSUME flag \in Flags, NEW names
    PROVE  /\ Raised(names) \in Flags
           /\ "cancel" \in names => Raised(names).cancel
           /\ "path" \in names => Raised(names).path
           /\ "git" \in names => Raised(names).git
           /\ "cancel" \notin names => Raised(names).cancel = flag.cancel
           /\ "pause" \notin names => Raised(names).pause = flag.pause
           /\ "path" \notin names => Raised(names).path = flag.path
           /\ "git" \notin names => Raised(names).git = flag.git
BY DEF Raised, Flags

\* What a writer's end does to the worker that waits for it.
Returned(ok) ==
    /\ remote' = "none"
    /\ \/ /\ ~In("finalize", 20, 20) /\ ~In("restore", 2, 2)
          /\ UNCHANGED <<prog, pc, verdict>>
       \/ /\ ok /\ (In("finalize", 20, 20) \/ In("restore", 2, 2))
          /\ pc' = pc + 1 /\ UNCHANGED <<prog, verdict>>
       \/ /\ ~ok /\ In("finalize", 20, 20)
          /\ prog' = "raised" /\ pc' = 1 /\ UNCHANGED verdict
       \/ /\ ~ok /\ In("restore", 2, 2)
          /\ pc' = 4 /\ verdict' = "unknown" /\ UNCHANGED prog

\* An end of the destination program is what the waiting worker learns.
LEMMA EndsFacts ==
    ASSUME TypeOK, NEW ok \in BOOLEAN, Ends(ok)
    PROVE  Returned(ok)
<1>1. Labelled /\ Places(prog, pc) /\ Len(Script["restore"]) = 4
  BY Labels, PlacesTyped DEF TypeOK
<1>2. At("reply") <=> In("finalize", 20, 20) \/ In("restore", 2, 2)
  BY <1>1 DEF Labelled, In
<1>3. CASE ~At("reply")
  BY <1>2, <1>3 DEF Ends, Silent, Returned
<1>4. CASE At("reply") /\ ok
  BY <1>2, <1>4 DEF Ends, Go, Returned
<1>5. CASE At("reply") /\ ~ok
  BY <1>1, <1>2, <1>5 DEF Ends, Raise, Jump, Returned, In
<1> QED BY <1>3, <1>4, <1>5

\* The saved state once running checks of paths and Git are marked stopped.
ChecksStopped(s) ==
    /\ s.git # "checking"
    /\ IF st.git = "checking"
       THEN s.phase = "git_verification" /\ s.status = "needs_attention"
       ELSE s.phase = st.phase /\ s.status = st.status
    /\ s.attempt = st.attempt /\ s.resolved = st.resolved /\ s.receipt = st.receipt
    /\ s.found = st.found /\ s.recovery = st.recovery
    /\ s.staging_complete = st.staging_complete

\* What a stop of the running checks writes.
LEMMA StoppedFacts ==
    ASSUME st \in States
    PROVE  LET s == When(st.path = "checking", When(st.git = "checking", st, GitStopped),
                         [path |-> "unverified"])
           IN s \in States /\ ChecksStopped(s)
<1> DEFINE g == When(st.git = "checking", st, GitStopped)
           s == When(st.path = "checking", g, [path |-> "unverified"])
<1>1. g \in States
  BY WithTyped DEF When, GitStopped, Installed, Statuses, Phases
<1>2. ChecksStopped(g)
  BY DEF ChecksStopped, With, When, GitStopped, States
<1> HIDE DEF g
<1>3. s \in States
  BY <1>1, WithTyped DEF When, Statuses, Phases
<1>4. ChecksStopped(s)
  BY <1>1, <1>2 DEF ChecksStopped, With, When, States
<1> QED BY <1>3, <1>4 DEF g

\* Nothing a handler writes undoes what the worker has made sure of.
LEMMA CheckedStays ==
    ASSUME CheckedInv, NotFurther, UNCHANGED <<st, dSt>>
    PROVE  CheckedInv'
BY DEF CheckedInv, NotFurther

-----------------------------------------------------------------------------
(* Each step keeps the invariant.                                          *)

FailLabels == {"check", "probe", "reading", "baseline", "closed", "reclosed",
               "copy", "staged", "install", "reply"}

\* Requests: one lemma for each handler, and a step for each part of the invariant.
LEMMA StartInspectionKeeps == ASSUME EngineInv, StartInspection PROVE EngineInv'
<1>1. TypeOK /\ Places(prog, pc)
  BY PlacesTyped DEF EngineInv, TypeOK
<1>2. prog = "none" /\ prog' = "inspect" /\ pc' = 1
  BY DEF StartInspection, Starts, Idle, Start, Jump, Alive
<1>3. TypeOK'
  <2>1. st' \in States /\ dSt' \in States
    BY <1>1, <1>2, WithTyped DEF TypeOK, StartInspection, Starts, Update, Status, Statuses,
       Phases
  <2>2. Places(prog', pc')
    BY <1>2 DEF Places
  <2>3. /\ prog' \in Programs /\ pc' \in 0..Len(Script["finalize"])
        /\ prog' # "none" => pc' \in 1..Len(Script[prog'])
    BY <2>2, PlacesTyped
  <2>4. flag' \in Flags
    BY <1>1 DEF TypeOK, Flags, StartInspection, Starts, Start
  <2> QED BY <1>1, <1>2, <2>1, <2>3, <2>4, BoundAssumption DEF TypeOK, StartInspection, Starts,
       Idle, Handler, Start, Unlocked, destination, record, faults
<1>4. SavedInv'
  BY <1>1, <1>2, BoundAssumption DEF EngineInv, SavedInv, Sound, Open, TypeOK, States,
     ThreadInv, CheckedInv, VerdictInv, InstallInv, Reconciling, Protected, Installed, In,
     Checked, Probed, Baselined, Installing, StartInspection, Starts, Idle, Handler, Start,
     Update, With, Status, Ready, RecoveryResolved, Unlocked, destination, record, faults
<1>5. ThreadInv'
  BY <1>1, <1>2, BoundAssumption DEF EngineInv, ThreadInv, In, StartInspection, Starts,
     Idle, Handler, Start, Update, With, Status, Ready, RecoveryResolved, Unlocked,
     destination, record, faults
<1>6. CheckedInv'
  BY <1>1, <1>2, BoundAssumption DEF EngineInv, CheckedInv, In, Checked, Probed, Baselined
<1>7. VerdictInv'
  BY <1>1, <1>2, BoundAssumption DEF EngineInv, VerdictInv, In
<1>8. InstallInv'
  BY <1>1, <1>2, BoundAssumption DEF EngineInv, InstallInv, TypeOK, States, Installed, In,
     Installing, StartInspection, Starts, Idle, Handler, Start, Update, With, Status, Ready,
     RecoveryResolved, Unlocked, destination, record, faults
<1>9. GitInv'
  BY <1>1, <1>2, BoundAssumption DEF EngineInv, GitInv, TypeOK, States, In, PathStep,
     GitStep, StartInspection, Starts, Idle, Handler, Start, Update, With, Status, Ready,
     RecoveryResolved, Unlocked, destination, record, faults
<1> QED BY <1>3, <1>4, <1>5, <1>6, <1>7, <1>8, <1>9 DEF EngineInv

LEMMA ResumeKeeps == ASSUME EngineInv, Resume PROVE EngineInv'
<1>1. TypeOK /\ Places(prog, pc)
  BY PlacesTyped DEF EngineInv, TypeOK
<1>2. prog = "none" /\ prog' = "preseed" /\ pc' = 1
  BY DEF Resume, Starts, Idle, Start, Jump, Alive
<1>3. TypeOK'
  <2>1. st' \in States /\ dSt' \in States
    BY <1>1, <1>2, WithTyped DEF TypeOK, Resume, Starts, Statuses, Phases
  <2>2. Places(prog', pc')
    BY <1>2 DEF Places
  <2>3. /\ prog' \in Programs /\ pc' \in 0..Len(Script["finalize"])
        /\ prog' # "none" => pc' \in 1..Len(Script[prog'])
    BY <2>2, PlacesTyped
  <2>4. flag' \in Flags
    BY <1>1 DEF TypeOK, Flags, Resume, Starts, Start
  <2> QED BY <1>1, <1>2, <2>1, <2>3, <2>4, BoundAssumption DEF TypeOK, Resume, Starts, Idle,
       Handler, Start, Unlocked, destination, record, faults
<1>4. SavedInv'
  BY <1>1, <1>2, BoundAssumption DEF EngineInv, SavedInv, Sound, Resume, Starts, Idle,
     Handler, Start, MayPreseed, Ready, RecoveryResolved, Unlocked, destination, record,
     faults
<1>5. ThreadInv'
  BY <1>1, <1>2, BoundAssumption DEF EngineInv, ThreadInv, In, Resume, Starts, Idle,
     Handler, Start, MayPreseed, Ready, RecoveryResolved, Unlocked, destination, record,
     faults
<1>6. CheckedInv'
  BY <1>1, <1>2, BoundAssumption DEF EngineInv, CheckedInv, In, Checked, Probed, Baselined,
     Resume, Starts, Idle, Handler, Start, MayPreseed, Ready, RecoveryResolved, Unlocked,
     destination, record, faults
<1>7. VerdictInv'
  BY <1>1, <1>2, BoundAssumption DEF EngineInv, VerdictInv, In
<1>8. InstallInv'
  BY <1>1, <1>2, BoundAssumption DEF EngineInv, InstallInv, In, Installing, Resume, Starts,
     Idle, Handler, Start, MayPreseed, Ready, RecoveryResolved, Unlocked, destination,
     record, faults
<1>9. GitInv'
  BY <1>1, <1>2, BoundAssumption DEF EngineInv, GitInv, In, PathStep, GitStep, Resume,
     Starts, Idle, Handler, Start, MayPreseed, Ready, RecoveryResolved, Unlocked,
     destination, record, faults
<1> QED BY <1>3, <1>4, <1>5, <1>6, <1>7, <1>8, <1>9 DEF EngineInv

LEMMA StartRecoveryCheckKeeps == ASSUME EngineInv, StartRecoveryCheck PROVE EngineInv'
<1>1. TypeOK /\ Places(prog, pc)
  BY PlacesTyped DEF EngineInv, TypeOK
<1>2. prog = "none" /\ prog' = "recover" /\ pc' = 1
  BY DEF StartRecoveryCheck, Idle, Jump, Alive
<1>3. TypeOK'
  <2>1. st' \in States /\ dSt' \in States
    <3>1. 0 \in 0..MaxInstalls
      BY BoundAssumption
    <3> QED BY <1>1, <3>1, WithTyped DEF TypeOK, StartRecoveryCheck, Update, Statuses, Phases
  <2>2. Places(prog', pc')
    BY <1>2 DEF Places
  <2>3. /\ prog' \in Programs /\ pc' \in 0..Len(Script["finalize"])
        /\ prog' # "none" => pc' \in 1..Len(Script[prog'])
    BY <2>2, PlacesTyped
  <2>4. flag' \in Flags
    BY <1>1 DEF TypeOK, Flags, StartRecoveryCheck
  <2> QED
    BY <1>1, <1>2, <2>1, <2>3, <2>4, BoundAssumption DEF TypeOK, StartRecoveryCheck, Idle,
       Handler, Unlocked, destination, record, faults
<1>4. SavedInv'
  BY <1>1, <1>2, BoundAssumption DEF EngineInv, SavedInv, Sound, Open, TypeOK, States,
     ThreadInv, CheckedInv, VerdictInv, InstallInv, Reconciling, Protected, Installed, In,
     Checked, Probed, Baselined, Installing, StartRecoveryCheck, Idle, Handler, Update,
     With, Unlocked, destination, record, faults
<1>5. ThreadInv'
  BY <1>1, <1>2, BoundAssumption DEF EngineInv, ThreadInv, In, StartRecoveryCheck, Idle,
     Handler, Update, With, Unlocked, destination, record, faults
<1>6. CheckedInv'
  BY <1>1, <1>2, BoundAssumption DEF EngineInv, CheckedInv, In, Checked, Probed, Baselined,
     StartRecoveryCheck, Idle, Handler, Update, With, Unlocked, destination, record, faults
<1>7. VerdictInv'
  BY <1>1, <1>2, BoundAssumption DEF EngineInv, VerdictInv, In
<1>8. InstallInv'
  BY <1>1, <1>2, BoundAssumption DEF EngineInv, InstallInv, TypeOK, States, In, Installing,
     StartRecoveryCheck, Idle, Handler, Update, With, Unlocked, destination, record, faults
<1>9. GitInv'
  BY <1>1, <1>2, BoundAssumption DEF EngineInv, GitInv, TypeOK, States, InstallInv, In,
     Installing, PathStep, GitStep, StartRecoveryCheck, Idle, Handler, Update, With,
     Unlocked, destination, record, faults
<1> QED BY <1>3, <1>4, <1>5, <1>6, <1>7, <1>8, <1>9 DEF EngineInv

LEMMA StartRestoreKeeps == ASSUME EngineInv, StartRestore PROVE EngineInv'
<1>1. TypeOK /\ Places(prog, pc)
  BY PlacesTyped DEF EngineInv, TypeOK
<1>2. /\ prog = "none" /\ up /\ ~closing /\ ctl = "none"
      /\ UNCHANGED <<verdict, requested, ctl, up, closing, destination, faults>>
  BY DEF StartRestore, Idle, Handler, Alive, Unlocked
<1>3. /\ Selected \in 1..txn /\ txn \in 0..MaxInstalls
      /\ journal \in {0, Selected} /\ remote \notin {"install", "installing"}
      /\ remote \in {"restore", "restoring"} => Selected = asked
      /\ ~st.receipt
  <2>1. st \in States /\ txn \in 0..MaxInstalls /\ Sound(st) /\ Selected # 0
    BY DEF EngineInv, SavedInv, TypeOK, StartRestore
  <2>2. CASE st.recovery = "backup_verified"
    BY <2>1 DEF Selected, Sound, States
  <2>3. CASE st.recovery \in {"restore_incomplete", "restore_pending_cleanup"}
    BY <2>1 DEF Selected, Sound, States
  <2> QED BY <2>1, <2>2, <2>3 DEF Selected
<1>4. /\ st' \in States /\ dSt' \in States
      /\ flag' \in Flags
      /\ st'.attempt = Selected /\ ~st'.resolved /\ ~st'.receipt
      /\ ~st'.staging_complete /\ st'.found = 0 /\ st'.git = st.git
      /\ \/ /\ prog' = "restore" /\ pc' = 1 /\ dSt' = st'
            /\ st'.phase = "restoring" /\ st'.status = "running" /\ st'.recovery = "restoring"
         \/ /\ prog' = prog /\ pc' = pc /\ dSt' = dSt
            /\ st'.phase = "recovery_required" /\ st'.status = "failed"
            /\ st'.recovery = "unknown"
  <2> DEFINE opened == With(st, [attempt |-> Selected, resolved |-> FALSE,
                 status |-> "running", phase |-> "restoring",
                 staging_complete |-> FALSE, recovery |-> "restoring", found |-> 0])
             failed == With(opened, [status |-> "failed", phase |-> "recovery_required",
                         recovery |-> "unknown"])
  <2>1. st \in States /\ dSt \in States /\ Selected \in 0..MaxInstalls
    BY <1>1, <1>3, BoundAssumption DEF TypeOK
  <2>2. opened \in States
    <3>1. 0 \in 0..MaxInstalls
      BY BoundAssumption
    <3> QED BY <2>1, <3>1, WithTyped DEF Protected, Statuses, Phases
  <2>3. /\ opened.attempt = Selected /\ ~opened.resolved /\ opened.receipt = st.receipt
        /\ ~opened.staging_complete /\ opened.found = 0 /\ opened.git = st.git
        /\ opened.phase = "restoring" /\ opened.status = "running"
        /\ opened.recovery = "restoring"
    BY <2>1 DEF With, States
  <2>4. \/ st' = opened /\ dSt' = opened /\ Start("restore")
        \/ st' = failed /\ UNCHANGED <<dSt, prog, pc, flag>>
    BY DEF StartRestore
  <2> HIDE DEF opened
  <2>5. failed \in States
    BY <2>2, WithTyped DEF Protected, Reports, Statuses, Phases
  <2>6. /\ failed.attempt = opened.attempt /\ failed.resolved = opened.resolved
        /\ failed.receipt = opened.receipt /\ failed.git = opened.git
        /\ failed.staging_complete = opened.staging_complete /\ failed.found = opened.found
        /\ failed.phase = "recovery_required" /\ failed.status = "failed"
        /\ failed.recovery = "unknown"
    BY <2>2 DEF With, States
  <2>7. flag' \in Flags
    BY <1>1, <2>4 DEF Start, TypeOK, Flags
  <2> HIDE DEF failed
  <2> QED BY <1>3, <2>1, <2>2, <2>3, <2>4, <2>5, <2>6, <2>7 DEF Start, Jump
<1>5. TypeOK'
  <2>1. st' \in States /\ dSt' \in States
    BY <1>4
  <2>2. Places(prog', pc')
    BY <1>1, <1>4 DEF Places
  <2>3. /\ prog' \in Programs /\ pc' \in 0..Len(Script["finalize"])
        /\ prog' # "none" => pc' \in 1..Len(Script[prog'])
    BY <2>2, PlacesTyped
  <2> QED
    BY <1>1, <1>2, <1>3, <1>4, <2>1, <2>3, BoundAssumption DEF TypeOK, destination, record,
       faults
<1>6. SavedInv'
  <2>1. Sound(st) /\ Sound(dSt) /\ txn' = txn /\ journal' = journal /\ remote' = remote
        /\ content' = content /\ asked' = asked
    BY <1>2 DEF EngineInv, SavedInv, destination, record
  <2>2. Sound(st)'
    BY <1>3, <1>4, <2>1 DEF Sound, Open
  <2>3. CASE dSt' = dSt
    BY <2>1, <2>2, <2>3 DEF SavedInv, Sound
  <2>4. CASE dSt' = st'
    BY <2>2, <2>4 DEF SavedInv
  <2> QED BY <1>4, <2>3, <2>4
<1>7. ThreadInv'
  <2>1. ~up' => FALSE
    BY <1>2
  <2>2. CASE prog' = "restore" /\ pc' = 1 /\ dSt' = st'
    BY <1>3, <1>4, <2>1, <2>2 DEF ThreadInv, Open, In
  <2>3. CASE prog' = prog
    BY <1>2, <2>3 DEF ThreadInv, In
  <2> QED BY <1>4, <2>2, <2>3
<1>8. CheckedInv'
  BY <1>1, <1>2, <1>3, <1>4, BoundAssumption DEF EngineInv, CheckedInv, In, Checked, Probed,
     Baselined, destination, record, faults
<1>9. VerdictInv'
  BY <1>2, <1>4 DEF VerdictInv, In
<1>10. InstallInv'
  BY <1>1, <1>2, <1>3, <1>4, BoundAssumption DEF EngineInv, InstallInv, In, Installing,
     destination, record, faults
<1>11. GitInv'
  BY <1>1, <1>2, <1>3, <1>4, BoundAssumption DEF EngineInv, GitInv, In, PathStep, GitStep,
     destination, record, faults
<1> QED BY <1>5, <1>6, <1>7, <1>8, <1>9, <1>10, <1>11 DEF EngineInv

LEMMA StartPathCheckKeeps == ASSUME EngineInv, StartPathCheck PROVE EngineInv'
<1>1. TypeOK /\ Places(prog, pc)
  BY PlacesTyped DEF EngineInv, TypeOK
<1>2. prog = "none" /\ prog' = "paths" /\ pc' = 1
  BY DEF StartPathCheck, Idle, Jump, Alive
<1>3. TypeOK'
  <2>1. st' \in States /\ dSt' \in States
    BY <1>1, <1>2, WithTyped DEF TypeOK, Installed, StartPathCheck, When, Status, Statuses,
       Phases
  <2>2. Places(prog', pc')
    BY <1>2 DEF Places
  <2>3. /\ prog' \in Programs /\ pc' \in 0..Len(Script["finalize"])
        /\ prog' # "none" => pc' \in 1..Len(Script[prog'])
    BY <2>2, PlacesTyped
  <2>4. flag' \in Flags
    BY <1>1 DEF TypeOK, Flags, StartPathCheck
  <2> QED BY <1>1, <1>2, <2>1, <2>3, <2>4, BoundAssumption DEF TypeOK, StartPathCheck, Idle,
       Handler, Unlocked, destination, record, faults
<1>4. SavedInv'
  BY <1>1, <1>2, BoundAssumption DEF EngineInv, SavedInv, Sound, Open, TypeOK, States,
     ThreadInv, CheckedInv, VerdictInv, InstallInv, Reconciling, Protected, Installed, In,
     Checked, Probed, Baselined, Installing, StartPathCheck, Idle, Handler, When, With,
     Status, RecoveryResolved, Unlocked, destination, record, faults
<1>5. ThreadInv'
  BY <1>1, <1>2, BoundAssumption DEF EngineInv, ThreadInv, In, StartPathCheck, Idle,
     Handler, When, With, Status, RecoveryResolved, Unlocked, destination, record, faults
<1>6. CheckedInv'
  BY <1>1, <1>2, BoundAssumption DEF EngineInv, CheckedInv, In, Checked, Probed, Baselined,
     StartPathCheck, Idle, Handler, When, With, Status, RecoveryResolved, Unlocked,
     destination, record, faults
<1>7. VerdictInv'
  BY <1>1, <1>2, BoundAssumption DEF EngineInv, VerdictInv, In
<1>8. InstallInv'
  BY <1>1, <1>2, BoundAssumption DEF EngineInv, InstallInv, TypeOK, States, Installed, In,
     Installing, StartPathCheck, Idle, Handler, When, With, Status, RecoveryResolved,
     Unlocked, destination, record, faults
<1>9. GitInv'
  BY <1>1, <1>2, BoundAssumption DEF EngineInv, GitInv, TypeOK, States, In, PathStep,
     GitStep, StartPathCheck, Idle, Handler, When, With, Status, RecoveryResolved, Unlocked,
     destination, record, faults
<1> QED BY <1>3, <1>4, <1>5, <1>6, <1>7, <1>8, <1>9 DEF EngineInv

LEMMA StartRequestedKeeps == ASSUME EngineInv, StartRequested PROVE EngineInv'
<1>1. TypeOK /\ Places(prog, pc)
  BY PlacesTyped DEF EngineInv, TypeOK
<1>2. /\ up /\ ctl = "none" /\ requested \in {"preseed", "finalize"}
      /\ \/ prog # "none" /\ prog' = prog /\ pc' = pc /\ flag' = flag
         \/ /\ prog = "none" /\ prog' = requested /\ pc' = 1
            /\ flag' \in Flags /\ ~flag'.cancel /\ ~flag'.pause
      /\ requested' = "none"
      /\ UNCHANGED <<st, dSt, verdict, ctl, up, closing, destination, faults>>
  BY <1>1 DEF StartRequested, Start, Jump, Alive, Unlocked, TypeOK, Flags
<1>3. TypeOK'
  <2>1. st' \in States /\ dSt' \in States
    BY <1>1, <1>2, WithTyped DEF TypeOK, Statuses, Phases
  <2>2. Places(prog', pc')
    BY <1>1, <1>2 DEF Places
  <2>3. /\ prog' \in Programs /\ pc' \in 0..Len(Script["finalize"])
        /\ prog' # "none" => pc' \in 1..Len(Script[prog'])
    BY <2>2, PlacesTyped
  <2> QED BY <1>1, <1>2, <2>1, <2>3, BoundAssumption DEF TypeOK, destination, record, faults
<1>4. SavedInv'
  BY <1>1, <1>2, BoundAssumption DEF EngineInv, SavedInv, Sound, destination, record, faults
<1>5. ThreadInv'
  BY <1>1, <1>2, BoundAssumption DEF EngineInv, ThreadInv, In, destination, record, faults
<1>6. CheckedInv'
  <2>1. NotFurther
    BY <1>2 DEF NotFurther, Checked, Probed, Baselined, In
  <2> QED BY <2>1, CheckedStays, <1>2 DEF EngineInv
<1>7. VerdictInv'
  BY <1>1, <1>2, BoundAssumption DEF EngineInv, VerdictInv, Reconciling, In, destination,
     record, faults
<1>8. InstallInv'
  BY <1>1, <1>2, BoundAssumption DEF EngineInv, InstallInv, In, Installing, destination,
     record, faults
<1>9. GitInv'
  BY <1>1, <1>2, BoundAssumption DEF EngineInv, GitInv, In, PathStep, GitStep, destination,
     record, faults
<1> QED BY <1>3, <1>4, <1>5, <1>6, <1>7, <1>8, <1>9 DEF EngineInv

LEMMA RequestKeeps ==
    ASSUME EngineInv, NEW p \in {"preseed", "finalize"}, Request(p)
    PROVE  EngineInv'
<1>1. TypeOK /\ Places(prog, pc)
  BY PlacesTyped DEF EngineInv, TypeOK
<1>2. prog' = prog /\ pc' = pc
  BY DEF Request
<1>3. TypeOK'
  <2>1. st' \in States /\ dSt' \in States
    BY <1>1, <1>2, WithTyped DEF TypeOK, Request, Statuses, Phases
  <2>2. Places(prog', pc')
    BY <1>1, <1>2 DEF Places
  <2>3. /\ prog' \in Programs /\ pc' \in 0..Len(Script["finalize"])
        /\ prog' # "none" => pc' \in 1..Len(Script[prog'])
    BY <2>2, PlacesTyped
  <2> QED BY <1>1, <1>2, <2>1, <2>3, BoundAssumption DEF TypeOK, Request, destination, record,
       faults
<1>4. SavedInv'
  BY <1>1, <1>2, BoundAssumption DEF EngineInv, SavedInv, Sound, Request, MayPreseed,
     MayFinalize, destination, record, faults
<1>5. ThreadInv'
  BY <1>1, <1>2, BoundAssumption DEF EngineInv, ThreadInv, In, Request, MayPreseed,
     MayFinalize, destination, record, faults
<1>6. CheckedInv'
  BY <1>1, <1>2, BoundAssumption DEF EngineInv, CheckedInv, In, Checked, Probed, Baselined,
     Request, MayPreseed, MayFinalize, destination, record, faults
<1>7. VerdictInv'
  BY <1>1, <1>2, BoundAssumption DEF EngineInv, VerdictInv, Reconciling, In, Request,
     MayPreseed, MayFinalize, destination, record, faults
<1>8. InstallInv'
  BY <1>1, <1>2, BoundAssumption DEF EngineInv, InstallInv, In, Installing, Request,
     MayPreseed, MayFinalize, destination, record, faults
<1>9. GitInv'
  BY <1>1, <1>2, BoundAssumption DEF EngineInv, GitInv, In, PathStep, GitStep, Request,
     MayPreseed, MayFinalize, destination, record, faults
<1> QED BY <1>3, <1>4, <1>5, <1>6, <1>7, <1>8, <1>9 DEF EngineInv

LEMMA PauseKeeps == ASSUME EngineInv, Pause PROVE EngineInv'
<1>1. TypeOK /\ Places(prog, pc)
  BY PlacesTyped DEF EngineInv, TypeOK
<1>2. /\ flag' \in Flags /\ flag'.git = flag.git /\ flag'.path = flag.path
      /\ up /\ ~closing /\ ctl = "none" /\ ctl' = "pause"
      /\ st.status = "running" /\ st.phase \in {"staging", "final_delta"}
      /\ UNCHANGED <<st, dSt, prog, pc, verdict, requested, up, closing, destination, faults>>
  <2>1. /\ Raised({"pause"}) \in Flags /\ Raised({"pause"}).git = flag.git
        /\ Raised({"pause"}).path = flag.path
    BY <1>1, RaisedFacts DEF TypeOK
  <2> QED BY <2>1 DEF Pause, Stop, Handler, Unlocked
<1>3. TypeOK'
  <2>1. st' \in States /\ dSt' \in States
    BY <1>1, <1>2, WithTyped DEF TypeOK, Statuses, Phases
  <2>2. Places(prog', pc')
    BY <1>1, <1>2 DEF Places
  <2>3. /\ prog' \in Programs /\ pc' \in 0..Len(Script["finalize"])
        /\ prog' # "none" => pc' \in 1..Len(Script[prog'])
    BY <2>2, PlacesTyped
  <2> QED BY <1>1, <1>2, <2>1, <2>3, BoundAssumption DEF TypeOK, Stopping, destination, record,
       faults
<1>4. SavedInv'
  BY <1>1, <1>2, BoundAssumption DEF EngineInv, SavedInv, Sound, destination, record, faults
<1>5. ThreadInv'
  BY <1>1, <1>2, BoundAssumption DEF EngineInv, ThreadInv, In, destination, record, faults
<1>6. CheckedInv'
  BY <1>1, <1>2, BoundAssumption DEF EngineInv, CheckedInv, In, Checked, Probed, Baselined,
     destination, record, faults
<1>7. VerdictInv'
  BY <1>1, <1>2, BoundAssumption DEF EngineInv, VerdictInv, Reconciling, In, destination,
     record, faults
<1>8. InstallInv'
  BY <1>1, <1>2, BoundAssumption DEF EngineInv, InstallInv, Protected, In, Installing,
     destination, record, faults
<1>9. GitInv'
  BY <1>1, <1>2, BoundAssumption DEF EngineInv, GitInv, In, PathStep, GitStep, destination,
     record, faults
<1> QED BY <1>3, <1>4, <1>5, <1>6, <1>7, <1>8, <1>9 DEF EngineInv

LEMMA CancelKeeps == ASSUME EngineInv, Cancel PROVE EngineInv'
<1>1. TypeOK /\ Places(prog, pc)
  BY PlacesTyped DEF EngineInv, TypeOK
<1>2. /\ flag' \in Flags /\ flag'.git = flag.git /\ flag'.path = flag.path
      /\ up /\ ~closing /\ ctl = "none" /\ ctl' = "cancel"
      /\ \/ /\ st.status = "running"
            /\ st.phase \in {"inspecting", "staging", "final_delta", "verifying_sources"}
         \/ st.status = "paused" /\ st.phase = "staging"
      /\ UNCHANGED <<st, dSt, prog, pc, verdict, requested, up, closing, destination, faults>>
  <2>1. /\ Raised({"cancel"}) \in Flags /\ Raised({"cancel"}).git = flag.git
        /\ Raised({"cancel"}).path = flag.path
    BY <1>1, RaisedFacts DEF TypeOK
  <2>2. flag' = [Raised({"cancel"}) EXCEPT !.pause = FALSE]
    BY DEF Cancel
  <2>3. flag' \in Flags /\ flag'.git = flag.git /\ flag'.path = flag.path
    BY <2>1, <2>2 DEF Flags
  <2> QED BY <2>3 DEF Cancel, Handler, Unlocked
<1>3. TypeOK'
  <2>1. st' \in States /\ dSt' \in States
    BY <1>1, <1>2, WithTyped DEF TypeOK, Statuses, Phases
  <2>2. Places(prog', pc')
    BY <1>1, <1>2 DEF Places
  <2>3. /\ prog' \in Programs /\ pc' \in 0..Len(Script["finalize"])
        /\ prog' # "none" => pc' \in 1..Len(Script[prog'])
    BY <2>2, PlacesTyped
  <2> QED BY <1>1, <1>2, <2>1, <2>3, BoundAssumption DEF TypeOK, Stopping, destination, record,
       faults
<1>4. SavedInv'
  BY <1>1, <1>2, BoundAssumption DEF EngineInv, SavedInv, Sound, destination, record, faults
<1>5. ThreadInv'
  BY <1>1, <1>2, BoundAssumption DEF EngineInv, ThreadInv, In, destination, record, faults
<1>6. CheckedInv'
  BY <1>1, <1>2, BoundAssumption DEF EngineInv, CheckedInv, In, Checked, Probed, Baselined,
     destination, record, faults
<1>7. VerdictInv'
  BY <1>1, <1>2, BoundAssumption DEF EngineInv, VerdictInv, Reconciling, In, destination,
     record, faults
<1>8. InstallInv'
  BY <1>1, <1>2, BoundAssumption DEF EngineInv, InstallInv, Protected, In, Installing,
     destination, record, faults
<1>9. GitInv'
  BY <1>1, <1>2, BoundAssumption DEF EngineInv, GitInv, In, PathStep, GitStep, destination,
     record, faults
<1> QED BY <1>3, <1>4, <1>5, <1>6, <1>7, <1>8, <1>9 DEF EngineInv

LEMMA ShutdownKeeps == ASSUME EngineInv, Shutdown PROVE EngineInv'
<1>1. TypeOK /\ Places(prog, pc)
  BY PlacesTyped DEF EngineInv, TypeOK
<1>2. /\ flag' \in Flags /\ flag'.git = flag.git /\ flag'.path = flag.path
      /\ up /\ ~closing /\ closing' /\ ctl = "none"
      /\ ctl' = IF st.phase = "installing" THEN "quitInstalling" ELSE "quit"
      /\ UNCHANGED <<st, dSt, prog, pc, verdict, requested, up, destination, faults>>
  <2>1. /\ Raised({"cancel"}) \in Flags /\ Raised({"cancel"}).git = flag.git
        /\ Raised({"cancel"}).path = flag.path
    BY <1>1, RaisedFacts DEF TypeOK
  <2> QED BY <2>1 DEF Shutdown, Stop, Handler, Unlocked
<1>3. TypeOK'
  <2>1. st' \in States /\ dSt' \in States
    BY <1>1, <1>2, WithTyped DEF TypeOK, Statuses, Phases
  <2>2. Places(prog', pc')
    BY <1>1, <1>2 DEF Places
  <2>3. /\ prog' \in Programs /\ pc' \in 0..Len(Script["finalize"])
        /\ prog' # "none" => pc' \in 1..Len(Script[prog'])
    BY <2>2, PlacesTyped
  <2> QED BY <1>1, <1>2, <2>1, <2>3, BoundAssumption DEF TypeOK, Stopping, destination, record,
       faults
<1>4. SavedInv'
  BY <1>1, <1>2, BoundAssumption DEF EngineInv, SavedInv, Sound, destination, record, faults
<1>5. ThreadInv'
  BY <1>1, <1>2, BoundAssumption DEF EngineInv, ThreadInv, In, destination, record, faults
<1>6. CheckedInv'
  BY <1>1, <1>2, BoundAssumption DEF EngineInv, CheckedInv, In, Checked, Probed, Baselined,
     destination, record, faults
<1>7. VerdictInv'
  BY <1>1, <1>2, BoundAssumption DEF EngineInv, VerdictInv, Reconciling, In, destination,
     record, faults
<1>8. InstallInv'
  BY <1>1, <1>2, BoundAssumption DEF EngineInv, InstallInv, In, Installing, destination,
     record, faults
<1>9. GitInv'
  BY <1>1, <1>2, BoundAssumption DEF EngineInv, GitInv, In, PathStep, GitStep, destination,
     record, faults
<1> QED BY <1>3, <1>4, <1>5, <1>6, <1>7, <1>8, <1>9 DEF EngineInv

LEMMA StopWrittenKeeps == ASSUME EngineInv, StopWritten PROVE EngineInv'
<1>1. TypeOK /\ Places(prog, pc)
  BY PlacesTyped DEF EngineInv, TypeOK
<1>2. prog' = prog /\ pc' = pc
  BY DEF StopWritten
<1>3. /\ up /\ ctl' = "none"
      /\ \/ ctl = "pause" /\ st' = With(st, Status("paused", "staging"))
         \/ ctl = "cancel" /\ st' = With(st, Status("cancelled", "staging"))
         \/ ctl = "quit" /\ st' = With(st, [status |-> "interrupted"])
         \/ /\ ctl = "quitInstalling"
            /\ st' = With(st, [status |-> "failed", staging_complete |-> FALSE])
      /\ UNCHANGED <<dSt, prog, pc, verdict, flag, requested, up, closing, destination,
                     faults>>
  BY <1>1 DEF StopWritten, Update, TypeOK, Stopping
<1>4. TypeOK'
  <2>1. st' \in States /\ dSt' \in States
    BY <1>1, <1>2, <1>3, WithTyped DEF TypeOK, Reports, Protected, Installed, Status,
       destination, record, faults, Statuses, Phases
  <2>2. Places(prog', pc')
    BY <1>1, <1>3 DEF Places
  <2>3. /\ prog' \in Programs /\ pc' \in 0..Len(Script["finalize"])
        /\ prog' # "none" => pc' \in 1..Len(Script[prog'])
    BY <2>2, PlacesTyped
  <2> QED
    BY <1>1, <1>2, <1>3, <2>1, <2>3, BoundAssumption DEF TypeOK, destination, record, faults
<1>5. SavedInv'
  BY <1>1, <1>2, <1>3, BoundAssumption DEF EngineInv, SavedInv, Sound, Open, TypeOK, States,
     ThreadInv, CheckedInv, VerdictInv, InstallInv, Reconciling, Protected, Installed, In,
     Checked, Probed, Baselined, Installing, With, Status, destination, record, faults
<1>6. ThreadInv'
  <2>1. /\ st'.attempt = st.attempt /\ st'.resolved = st.resolved /\ st'.found = st.found
    BY <1>1, <1>3 DEF With, Status, TypeOK, States
  <2> QED BY <1>3, <2>1 DEF EngineInv, ThreadInv, Open, In, destination, record
<1>7. CheckedInv'
  <2>1. NotFurther
    BY <1>2 DEF NotFurther, Checked, Probed, Baselined, In
  <2>2. /\ st'.attempt = st.attempt /\ st'.resolved = st.resolved
        /\ st'.receipt = st.receipt /\ st'.found = st.found
        /\ st'.phase \in {st.phase, "staging"}
        /\ st.staging_complete \/ ~st'.staging_complete
    BY <1>1, <1>3 DEF With, Status, TypeOK, States
  <2> QED BY <1>3, <2>1, <2>2 DEF EngineInv, CheckedInv, NotFurther, Open
<1>8. VerdictInv'
  BY <1>1, <1>2, <1>3, BoundAssumption DEF EngineInv, VerdictInv, TypeOK, States,
     InstallInv, GitInv, Reconciling, Protected, Reports, Installed, In, Installing,
     PathStep, GitStep, With, Status, destination, record, faults
<1>9. InstallInv'
  BY <1>1, <1>2, <1>3, BoundAssumption DEF EngineInv, InstallInv, TypeOK, States, Protected,
     Installed, In, Installing, With, Status, destination, record, faults
<1>10. GitInv'
  BY <1>1, <1>2, <1>3, BoundAssumption DEF EngineInv, GitInv, TypeOK, States, InstallInv,
     In, Installing, PathStep, GitStep, With, Status, destination, record, faults
<1> QED BY <1>4, <1>5, <1>6, <1>7, <1>8, <1>9, <1>10 DEF EngineInv

LEMMA StopRecoveryCheckKeeps == ASSUME EngineInv, StopRecoveryCheck PROVE EngineInv'
<1>1. TypeOK /\ Places(prog, pc)
  BY PlacesTyped DEF EngineInv, TypeOK
<1>2. /\ flag' \in Flags /\ flag'.git = flag.git /\ flag'.path = flag.path
      /\ flag'.cancel = flag.cancel /\ flag'.pause = flag.pause
      /\ up /\ ~closing /\ ctl = "none" /\ st' = With(st, [recovery |-> "unknown"])
      /\ UNCHANGED <<dSt, prog, pc, verdict, requested, ctl, up, closing, destination, faults>>
  <2>1. LET r == Raised({"recovery"})
        IN /\ r \in Flags /\ r.git = flag.git /\ r.path = flag.path
           /\ r.cancel = flag.cancel /\ r.pause = flag.pause
    BY <1>1, RaisedFacts DEF TypeOK
  <2> QED BY <2>1 DEF StopRecoveryCheck, Handler, Unlocked, Update
<1>3. TypeOK'
  <2>1. st' \in States /\ dSt' \in States
    BY <1>1, <1>2, WithTyped DEF TypeOK, Reports, Statuses, Phases
  <2>2. Places(prog', pc')
    BY <1>1, <1>2 DEF Places
  <2>3. /\ prog' \in Programs /\ pc' \in 0..Len(Script["finalize"])
        /\ prog' # "none" => pc' \in 1..Len(Script[prog'])
    BY <2>2, PlacesTyped
  <2> QED BY <1>1, <1>2, <2>1, <2>3, BoundAssumption DEF TypeOK, destination, record, faults
<1>4. SavedInv'
  BY <1>1, <1>2, BoundAssumption DEF EngineInv, SavedInv, Sound, Open, TypeOK, States, With,
     destination, record, faults
<1>5. ThreadInv'
  BY <1>1, <1>2, BoundAssumption DEF EngineInv, ThreadInv, Open, TypeOK, States, In, With,
     destination, record, faults
<1>6. CheckedInv'
  BY <1>1, <1>2, BoundAssumption DEF EngineInv, CheckedInv, Open, TypeOK, States, In,
     Checked, Probed, Baselined, With, destination, record, faults
<1>7. VerdictInv'
  BY <1>1, <1>2, BoundAssumption DEF EngineInv, VerdictInv, TypeOK, States, Reconciling,
     Protected, Reports, Installed, In, With, destination, record, faults
<1>8. InstallInv'
  BY <1>1, <1>2, BoundAssumption DEF EngineInv, InstallInv, TypeOK, States, Protected,
     Installed, In, Installing, With, destination, record, faults
<1>9. GitInv'
  BY <1>1, <1>2, BoundAssumption DEF EngineInv, GitInv, TypeOK, States, In, PathStep,
     GitStep, With, destination, record, faults
<1> QED BY <1>3, <1>4, <1>5, <1>6, <1>7, <1>8, <1>9 DEF EngineInv

LEMMA StopGitCheckKeeps == ASSUME EngineInv, StopGitCheck PROVE EngineInv'
<1>1. TypeOK /\ Places(prog, pc)
  BY PlacesTyped DEF EngineInv, TypeOK
<1>2. /\ flag' \in Flags /\ flag'.git /\ (flag.path => flag'.path)
      /\ st.receipt /\ st.path = "checking" => flag'.path
      /\ st.git = "checking" \/ (st.receipt /\ st.path = "checking")
      /\ flag'.cancel = flag.cancel /\ flag'.pause = flag.pause
      /\ up /\ ~closing /\ ctl = "none"
      /\ st' \in {With(st, GitStopped), With(With(st, GitStopped), [path |-> "unverified"])}
      /\ UNCHANGED <<dSt, prog, pc, verdict, requested, ctl, up, closing, destination, faults>>
  <2> DEFINE paths == st.receipt /\ st.path = "checking"
             names == {"git"} \cup IF paths THEN {"path"} ELSE {}
  <2>1. /\ "git" \in names /\ "cancel" \notin names /\ "pause" \notin names
        /\ paths => "path" \in names
        /\ ~paths => "path" \notin names
    OBVIOUS
  <2>2. /\ st.git = "checking" \/ paths
        /\ flag' = Raised(names)
        /\ st' = When(paths, With(st, GitStopped), [path |-> "unverified"])
    BY DEF StopGitCheck
  <2> HIDE DEF names
  <2>3. /\ Raised(names) \in Flags /\ Raised(names).git
        /\ paths => Raised(names).path
        /\ ~paths => Raised(names).path = flag.path
        /\ Raised(names).cancel = flag.cancel /\ Raised(names).pause = flag.pause
    BY <1>1, <2>1, RaisedFacts DEF TypeOK
  <2> QED BY <2>2, <2>3 DEF StopGitCheck, When, Handler, Unlocked
<1>3. /\ st' \in States /\ st'.git = "unverified"
      /\ st'.phase = "git_verification" /\ st'.status = "needs_attention"
      /\ st'.attempt = st.attempt /\ st'.resolved = st.resolved /\ st'.receipt = st.receipt
      /\ st'.found = st.found /\ st'.recovery = st.recovery
      /\ st'.staging_complete = st.staging_complete
  <2>1. With(st, GitStopped) \in States
    BY <1>1, WithTyped DEF TypeOK, GitStopped, Installed, Statuses, Phases
  <2>2. With(With(st, GitStopped), [path |-> "unverified"]) \in States
    BY <2>1, WithTyped DEF Statuses, Phases
  <2> DEFINE g == With(st, GitStopped)
  <2>3. /\ g.git = "unverified" /\ g.phase = "git_verification"
        /\ g.status = "needs_attention" /\ g.attempt = st.attempt
        /\ g.resolved = st.resolved /\ g.receipt = st.receipt
        /\ g.found = st.found /\ g.recovery = st.recovery
        /\ g.staging_complete = st.staging_complete
    BY <1>1 DEF With, GitStopped, TypeOK, States
  <2> HIDE DEF g
  <2>4. LET h == With(g, [path |-> "unverified"])
        IN /\ h.git = g.git /\ h.phase = g.phase /\ h.status = g.status
           /\ h.attempt = g.attempt /\ h.resolved = g.resolved /\ h.receipt = g.receipt
           /\ h.found = g.found /\ h.recovery = g.recovery
           /\ h.staging_complete = g.staging_complete
    <3>1. g \in States
      BY <2>1 DEF g
    <3> QED BY <3>1 DEF With, States
  <2>5. st' = g \/ st' = With(g, [path |-> "unverified"])
    BY <1>2 DEF g
  <2>6. g \in States /\ With(g, [path |-> "unverified"]) \in States
    BY <2>1, <2>2 DEF g
  <2> QED BY <2>3, <2>4, <2>5, <2>6
<1>4. TypeOK'
  <2>1. st' \in States /\ dSt' \in States
    BY <1>1, <1>2, <1>3, WithTyped DEF TypeOK, Statuses, Phases
  <2>2. Places(prog', pc')
    BY <1>1, <1>2 DEF Places
  <2>3. /\ prog' \in Programs /\ pc' \in 0..Len(Script["finalize"])
        /\ prog' # "none" => pc' \in 1..Len(Script[prog'])
    BY <2>2, PlacesTyped
  <2> QED
    BY <1>1, <1>2, <1>3, <2>1, <2>3, BoundAssumption DEF TypeOK, destination, record, faults
<1>5. SavedInv'
  BY <1>1, <1>2, <1>3, BoundAssumption DEF EngineInv, SavedInv, Sound, Open, destination,
     record, faults
<1>6. ThreadInv'
  BY <1>1, <1>2, <1>3, BoundAssumption DEF EngineInv, ThreadInv, Open, In, destination,
     record, faults
<1>7. CheckedInv'
  BY <1>1, <1>2, <1>3, BoundAssumption DEF EngineInv, CheckedInv, Open, In, Checked, Probed,
     Baselined, destination, record, faults
<1>8. VerdictInv'
  BY <1>1, <1>2, <1>3, BoundAssumption DEF EngineInv, VerdictInv, SavedInv, Sound,
     InstallInv, GitInv, Open, Reconciling, Protected, Reports, In, Installing, PathStep,
     GitStep, destination, record, faults
<1>9. InstallInv'
  BY <1>1, <1>2, <1>3, BoundAssumption DEF EngineInv, InstallInv, CheckedInv, GitInv,
     VerdictInv, Open, Protected, In, Checked, Probed, Baselined, Installing, PathStep,
     GitStep, destination, record, faults
<1>10. GitInv'
  BY <1>1, <1>2, <1>3, BoundAssumption DEF EngineInv, GitInv, In, PathStep, GitStep,
     destination, record, faults
<1> QED BY <1>4, <1>5, <1>6, <1>7, <1>8, <1>9, <1>10 DEF EngineInv

LEMMA ShutdownChecksKeeps == ASSUME EngineInv, ShutdownChecks PROVE EngineInv'
<1>1. TypeOK /\ Places(prog, pc)
  BY PlacesTyped DEF EngineInv, TypeOK
<1>2. /\ flag' \in Flags /\ flag'.cancel = flag.cancel /\ flag'.pause = flag.pause
      /\ st.git = "checking" => flag'.git
      /\ st.git # "checking" => flag'.git = flag.git
      /\ flag.path => flag'.path
      /\ up /\ ~closing /\ closing' /\ ctl = "none"
      /\ UNCHANGED <<dSt, prog, pc, verdict, requested, ctl, up, destination, faults>>
  <2> DEFINE names == {n \in {"git", "path", "recovery"} :
                 CASE n = "git" -> st.git = "checking" [] n = "path" -> st.path = "checking"
                   [] n = "recovery" -> st.recovery = "checking"}
  <2>1. /\ "git" \in names <=> st.git = "checking"
        /\ "path" \in names <=> st.path = "checking"
        /\ "cancel" \notin names /\ "pause" \notin names
    OBVIOUS
  <2>2. flag' = Raised(names)
    BY DEF ShutdownChecks
  <2> HIDE DEF names
  <2>3. /\ Raised(names) \in Flags
        /\ st.git = "checking" => Raised(names).git
        /\ st.git # "checking" => Raised(names).git = flag.git
        /\ flag.path => Raised(names).path
        /\ Raised(names).cancel = flag.cancel /\ Raised(names).pause = flag.pause
    BY <1>1, <2>1, RaisedFacts DEF TypeOK
  <2> QED BY <2>2, <2>3 DEF ShutdownChecks, Handler, Unlocked
<1>3. /\ st' \in States /\ st'.git # "checking"
      /\ IF st.git = "checking"
         THEN st'.phase = "git_verification" /\ st'.status = "needs_attention"
         ELSE st'.phase = st.phase /\ st'.status = st.status
      /\ st'.attempt = st.attempt /\ st'.resolved = st.resolved /\ st'.receipt = st.receipt
      /\ st'.found = st.found /\ st'.recovery \in {st.recovery, "unknown"}
      /\ st'.staging_complete = st.staging_complete
  <2> DEFINE g == When(st.git = "checking", st, GitStopped)
             p == When(st.path = "checking", g, [path |-> "unverified"])
  <2>1. p \in States /\ ChecksStopped(p)
    BY <1>1, StoppedFacts DEF TypeOK
  <2>2. st' = When(st.recovery = "checking", p, [recovery |-> "unknown"])
    BY DEF ShutdownChecks
  <2> HIDE DEF p
  <2>3. st' \in States
    BY <2>1, <2>2, WithTyped DEF When, Reports, Statuses, Phases
  <2> QED BY <2>1, <2>2, <2>3 DEF ChecksStopped, With, When, States
<1>4. TypeOK'
  <2>1. st' \in States /\ dSt' \in States
    BY <1>1, <1>2, <1>3, WithTyped DEF TypeOK, Statuses, Phases
  <2>2. Places(prog', pc')
    BY <1>1, <1>2 DEF Places
  <2>3. /\ prog' \in Programs /\ pc' \in 0..Len(Script["finalize"])
        /\ prog' # "none" => pc' \in 1..Len(Script[prog'])
    BY <2>2, PlacesTyped
  <2> QED
    BY <1>1, <1>2, <1>3, <2>1, <2>3, BoundAssumption DEF TypeOK, destination, record, faults
<1>5. SavedInv'
  BY <1>1, <1>2, <1>3, BoundAssumption DEF EngineInv, SavedInv, Sound, Open, destination,
     record, faults
<1>6. ThreadInv'
  BY <1>1, <1>2, <1>3, BoundAssumption DEF EngineInv, ThreadInv, Open, In, destination,
     record, faults
<1>7. CheckedInv'
  BY <1>1, <1>2, <1>3, BoundAssumption DEF EngineInv, CheckedInv, Open, In, Checked, Probed,
     Baselined, destination, record, faults
<1>8. VerdictInv'
  BY <1>1, <1>2, <1>3, BoundAssumption DEF EngineInv, VerdictInv, GitInv, Reconciling,
     Protected, Reports, In, PathStep, GitStep, destination, record, faults
<1>9. InstallInv'
  BY <1>1, <1>2, <1>3, BoundAssumption DEF EngineInv, InstallInv, GitInv, In, Installing,
     PathStep, GitStep, destination, record, faults
<1>10. GitInv'
  BY <1>1, <1>2, <1>3, BoundAssumption DEF EngineInv, GitInv, In, PathStep, GitStep,
     destination, record, faults
<1> QED BY <1>4, <1>5, <1>6, <1>7, <1>8, <1>9, <1>10 DEF EngineInv

\* The worker: one lemma for each of its steps.
LEMMA FailsKeeps == ASSUME EngineInv, Fails(FailLabels), prog # "restore" PROVE EngineInv'
<1>1. TypeOK /\ Places(prog, pc)
  BY PlacesTyped DEF EngineInv, TypeOK
<1>2. /\ \/ prog = "inspect" /\ pc \in {1, 2}
         \/ prog = "preseed" /\ pc \in {2, 3, 9, 12}
         \/ prog = "finalize" /\ pc \in {1, 2, 4, 7, 8, 11, 15, 17, 19, 20}
      /\ prog' = "raised" /\ pc' = 1
  <2>1. \/ prog = "inspect" /\ pc \in {1, 2}
        \/ prog = "preseed" /\ pc \in {2, 3, 9, 12}
        \/ prog = "finalize" /\ pc \in {1, 2, 4, 7, 8, 11, 15, 17, 19, 20}
    BY <1>1, Labels DEF Labelled, Fails, FailLabels
  <2> QED BY <2>1 DEF Fails, Raise, Jump
<1>3. TypeOK'
  <2>1. st' \in States /\ dSt' \in States
    BY <1>1, <1>2, WithTyped DEF TypeOK, Fails, Writes, Statuses, Phases
  <2>2. Places(prog', pc')
    BY <1>2 DEF Places
  <2>3. /\ prog' \in Programs /\ pc' \in 0..Len(Script["finalize"])
        /\ prog' # "none" => pc' \in 1..Len(Script[prog'])
    BY <2>2, PlacesTyped
  <2> QED BY <1>1, <1>2, <2>1, <2>3, BoundAssumption DEF TypeOK, Fails, Writes, Worker,
       destination, record, faults
<1>4. SavedInv'
  BY <1>1, <1>2, BoundAssumption DEF EngineInv, SavedInv, Sound, Fails, Writes, Worker,
     Raise, Jump, destination, record, faults
<1>5. ThreadInv'
  BY <1>1, <1>2, BoundAssumption DEF EngineInv, ThreadInv, In, Fails, Writes, Worker, Raise,
     Jump, destination, record, faults
<1>6. CheckedInv'
  BY <1>1, <1>2, BoundAssumption DEF EngineInv, CheckedInv, In, Checked, Probed, Baselined,
     Fails, Writes, Worker, Raise, Jump, destination, record, faults
<1>7. VerdictInv'
  BY <1>1, <1>2, BoundAssumption DEF EngineInv, VerdictInv, In
<1>8. InstallInv'
  BY <1>1, <1>2, BoundAssumption DEF EngineInv, InstallInv, In, Installing, Fails, Writes,
     Worker, Raise, Jump, destination, record, faults
<1>9. GitInv'
  BY <1>1, <1>2, BoundAssumption DEF EngineInv, GitInv, In, PathStep, GitStep, Fails,
     Writes, Worker, Raise, Jump, destination, record, faults
<1> QED BY <1>3, <1>4, <1>5, <1>6, <1>7, <1>8, <1>9 DEF EngineInv

LEMMA GuardedKeeps == ASSUME EngineInv, Guarded PROVE EngineInv'
<1>1. TypeOK /\ Places(prog, pc)
  BY PlacesTyped DEF EngineInv, TypeOK
<1>2. /\ prog = "raised" /\ pc = 1
      /\ \/ (flag.pause \/ flag.cancel) /\ prog' = "none" /\ pc' = 0
         \/ prog' = "raised" /\ pc' = 2 /\ ~(flag.pause \/ flag.cancel)
  <2>1. prog = "raised" /\ pc = 1
    BY <1>1, Labels DEF Labelled, Guarded
  <2> QED BY <2>1 DEF Guarded, End, Jump, Go
<1>3. TypeOK'
  <2>1. st' \in States /\ dSt' \in States
    BY <1>1, <1>2, WithTyped DEF TypeOK, Guarded, Writes, When, Status, destination, record,
       Statuses, Phases
  <2>2. Places(prog', pc')
    BY <1>2 DEF Places
  <2>3. /\ prog' \in Programs /\ pc' \in 0..Len(Script["finalize"])
        /\ prog' # "none" => pc' \in 1..Len(Script[prog'])
    BY <2>2, PlacesTyped
  <2> QED BY <1>1, <1>2, <2>1, <2>3, BoundAssumption DEF TypeOK, Guarded, Writes, Worker,
       destination, record, faults
<1>4. SavedInv'
  BY <1>1, <1>2, BoundAssumption DEF EngineInv, SavedInv, Sound, Open, TypeOK, States,
     CheckedInv, VerdictInv, InstallInv, Reconciling, Protected, Installed, In, Checked,
     Probed, Baselined, Installing, Guarded, Writes, Worker, When, With, Status,
     destination, record, faults
<1>5. ThreadInv'
  BY <1>1, <1>2, BoundAssumption DEF EngineInv, ThreadInv, In, Guarded, Writes, Worker,
     When, With, Status, destination, record, faults
<1>6. CheckedInv'
  BY <1>1, <1>2, BoundAssumption DEF EngineInv, CheckedInv, In, Checked, Probed, Baselined,
     Guarded, Writes, Worker, When, With, Status, destination, record, faults
<1>7. VerdictInv'
  BY <1>1, <1>2, BoundAssumption DEF EngineInv, VerdictInv, In
<1>8. InstallInv'
  BY <1>1, <1>2, BoundAssumption DEF EngineInv, InstallInv, TypeOK, States, Protected,
     Installed, In, Installing, Guarded, Writes, Worker, When, With, Status, destination,
     record, faults
<1>9. GitInv'
  BY <1>1, <1>2, BoundAssumption DEF EngineInv, GitInv, TypeOK, States, InstallInv, In,
     Installing, PathStep, GitStep, Guarded, Writes, Worker, When, With, Status,
     destination, record, faults
<1> QED BY <1>3, <1>4, <1>5, <1>6, <1>7, <1>8, <1>9 DEF EngineInv

LEMMA GuardedFailsKeeps == ASSUME EngineInv, GuardedFails PROVE EngineInv'
<1>1. TypeOK /\ Places(prog, pc)
  BY PlacesTyped DEF EngineInv, TypeOK
<1>2. /\ prog = "raised" /\ pc = 2
      /\ prog' = "none" /\ pc' = 0
  <2>1. prog = "raised" /\ pc = 2
    BY <1>1, Labels DEF Labelled, GuardedFails
  <2> QED BY <2>1 DEF GuardedFails, End, Jump
<1>3. TypeOK'
  <2>1. st' \in States /\ dSt' \in States
    BY <1>1, <1>2, WithTyped DEF TypeOK, Reports, Protected, Installed, GuardedFails,
       Writes, Worker, When, destination, record, faults, Statuses, Phases
  <2>2. Places(prog', pc')
    BY <1>2 DEF Places
  <2>3. /\ prog' \in Programs /\ pc' \in 0..Len(Script["finalize"])
        /\ prog' # "none" => pc' \in 1..Len(Script[prog'])
    BY <2>2, PlacesTyped
  <2> QED BY <1>1, <1>2, <2>1, <2>3, BoundAssumption DEF TypeOK, GuardedFails, Writes, Worker,
       destination, record, faults
<1>4. SavedInv'
  BY <1>1, <1>2, BoundAssumption DEF EngineInv, SavedInv, Sound, Open, TypeOK, States,
     CheckedInv, VerdictInv, InstallInv, Reconciling, Protected, Installed, In, Checked,
     Probed, Baselined, Installing, GuardedFails, Writes, Worker, When, With, destination,
     record, faults
<1>5. ThreadInv'
  BY <1>1, <1>2, BoundAssumption DEF EngineInv, ThreadInv, In, GuardedFails, Writes, Worker,
     When, With, destination, record, faults
<1>6. CheckedInv'
  BY <1>1, <1>2, BoundAssumption DEF EngineInv, CheckedInv, In, Checked, Probed, Baselined,
     GuardedFails, Writes, Worker, When, With, destination, record, faults
<1>7. VerdictInv'
  BY <1>1, <1>2, BoundAssumption DEF EngineInv, VerdictInv, In
<1>8. InstallInv'
  BY <1>1, <1>2, BoundAssumption DEF EngineInv, InstallInv, TypeOK, States, Installed, In,
     Installing, GuardedFails, Writes, Worker, When, With, destination, record, faults
<1>9. GitInv'
  BY <1>1, <1>2, BoundAssumption DEF EngineInv, GitInv, TypeOK, States, InstallInv, In,
     Installing, PathStep, GitStep, GuardedFails, Writes, Worker, When, With, destination,
     record, faults
<1> QED BY <1>3, <1>4, <1>5, <1>6, <1>7, <1>8, <1>9 DEF EngineInv

LEMMA BeginPreseedKeeps == ASSUME EngineInv, BeginPreseed PROVE EngineInv'
<1>1. TypeOK /\ Places(prog, pc)
  BY PlacesTyped DEF EngineInv, TypeOK
<1>2. /\ prog = "preseed" /\ pc = 1
      /\ prog' = prog /\ pc' = pc + 1
  <2>1. prog = "preseed" /\ pc = 1
    BY <1>1, Labels DEF Labelled, BeginPreseed
  <2> QED BY <2>1 DEF BeginPreseed, Go
<1>3. TypeOK'
  <2>1. st' \in States /\ dSt' \in States
    BY <1>1, <1>2, WithTyped DEF TypeOK, Reports, Protected, Installed, BeginPreseed,
       Writes, Worker, Update, destination, record, faults, Statuses, Phases
  <2>2. Places(prog', pc')
    BY <1>2 DEF Places
  <2>3. /\ prog' \in Programs /\ pc' \in 0..Len(Script["finalize"])
        /\ prog' # "none" => pc' \in 1..Len(Script[prog'])
    BY <2>2, PlacesTyped
  <2> QED BY <1>1, <1>2, <2>1, <2>3, BoundAssumption DEF TypeOK, BeginPreseed, Writes, Worker,
       destination, record, faults
<1>4. SavedInv'
  BY <1>1, <1>2, BoundAssumption DEF EngineInv, SavedInv, Sound, Open, TypeOK, States,
     CheckedInv, VerdictInv, InstallInv, Reconciling, Protected, Installed, In, Checked,
     Probed, Baselined, Installing, BeginPreseed, Writes, Worker, Update, With, destination,
     record, faults
<1>5. ThreadInv'
  BY <1>1, <1>2, BoundAssumption DEF EngineInv, ThreadInv, In, BeginPreseed, Writes, Worker,
     Update, With, destination, record, faults
<1>6. CheckedInv'
  BY <1>1, <1>2, BoundAssumption DEF EngineInv, CheckedInv, In, Checked, Probed, Baselined,
     BeginPreseed, Writes, Worker, Update, With, destination, record, faults
<1>7. VerdictInv'
  BY <1>1, <1>2, BoundAssumption DEF EngineInv, VerdictInv, In
<1>8. InstallInv'
  BY <1>1, <1>2, BoundAssumption DEF EngineInv, InstallInv, TypeOK, States, Protected,
     Installed, In, Installing, BeginPreseed, Writes, Worker, Update, With, destination,
     record, faults
<1>9. GitInv'
  BY <1>1, <1>2, BoundAssumption DEF EngineInv, GitInv, TypeOK, States, InstallInv, In,
     Installing, PathStep, GitStep, BeginPreseed, Writes, Worker, Update, With, destination,
     record, faults
<1> QED BY <1>3, <1>4, <1>5, <1>6, <1>7, <1>8, <1>9 DEF EngineInv

LEMMA PreflightCheckKeeps == ASSUME EngineInv, PreflightCheck PROVE EngineInv'
<1>1. TypeOK /\ Places(prog, pc)
  BY PlacesTyped DEF EngineInv, TypeOK
<1>2. /\ \/ prog = "inspect" /\ pc = 1
         \/ prog = "preseed" /\ pc = 2
         \/ prog = "finalize" /\ pc = 1
      /\ \/ Ready /\ prog' = prog /\ pc' = pc + 1
         \/ prog' = "raised" /\ pc' = 1
  <2>1. \/ prog = "inspect" /\ pc = 1
        \/ prog = "preseed" /\ pc = 2
        \/ prog = "finalize" /\ pc = 1
    BY <1>1, Labels DEF Labelled, PreflightCheck
  <2> QED BY <2>1 DEF PreflightCheck, Go, Raise, Jump
<1>3. TypeOK'
  <2>1. st' \in States /\ dSt' \in States
    BY <1>1, <1>2, WithTyped DEF TypeOK, PreflightCheck, Writes, Statuses, Phases
  <2>2. Places(prog', pc')
    BY <1>2 DEF Places
  <2>3. /\ prog' \in Programs /\ pc' \in 0..Len(Script["finalize"])
        /\ prog' # "none" => pc' \in 1..Len(Script[prog'])
    BY <2>2, PlacesTyped
  <2> QED
    BY <1>1, <1>2, <2>1, <2>3, BoundAssumption DEF TypeOK, PreflightCheck, Writes, Worker,
       Unlocked, destination, record, faults
<1>4. SavedInv'
  BY <1>1, <1>2, BoundAssumption DEF EngineInv, SavedInv, Sound, PreflightCheck, Writes,
     Worker, Ready, RecoveryResolved, Unlocked, destination, record, faults
<1>5. ThreadInv'
  BY <1>1, <1>2, BoundAssumption DEF EngineInv, ThreadInv, In, PreflightCheck, Writes,
     Worker, Ready, RecoveryResolved, Unlocked, destination, record, faults
<1>6. CheckedInv'
  <2>1. CASE prog' = "raised"
    BY <2>1 DEF CheckedInv, Checked, Probed, Baselined, In
  <2>2. CASE Ready /\ prog' = prog /\ pc' = pc + 1
    <3>1. ~Open(st) /\ ~st.receipt
      BY <2>2 DEF Ready, RecoveryResolved, Open
    <3>2. /\ ~Probed' /\ ~In("finalize", 4, 21)' /\ ~In("finalize", 12, 21)'
          /\ ~Baselined'
      BY <1>2 DEF Probed, Baselined, In
    <3> QED BY <3>1, <3>2 DEF CheckedInv, PreflightCheck
  <2> QED BY <1>2, <2>1, <2>2
<1>7. VerdictInv'
  BY <1>1, <1>2, BoundAssumption DEF EngineInv, VerdictInv, In
<1>8. InstallInv'
  BY <1>1, <1>2, BoundAssumption DEF EngineInv, InstallInv, In, Installing, PreflightCheck,
     Writes, Worker, Ready, RecoveryResolved, Unlocked, destination, record, faults
<1>9. GitInv'
  BY <1>1, <1>2, BoundAssumption DEF EngineInv, GitInv, In, PathStep, GitStep,
     PreflightCheck, Writes, Worker, Ready, RecoveryResolved, Unlocked, destination, record,
     faults
<1> QED BY <1>3, <1>4, <1>5, <1>6, <1>7, <1>8, <1>9 DEF EngineInv

LEMMA PreflightProbeKeeps == ASSUME EngineInv, PreflightProbe PROVE EngineInv'
<1>1. TypeOK /\ Places(prog, pc)
  BY PlacesTyped DEF EngineInv, TypeOK
<1>2. /\ \/ prog = "inspect" /\ pc = 2
         \/ prog = "preseed" /\ pc = 3
         \/ prog = "finalize" /\ pc = 2
      /\ \/ prog' = "raised" /\ pc' = 1
         \/ journal = 0 /\ ~flag.cancel /\ prog' = prog /\ pc' = pc + 1
  <2>1. \/ prog = "inspect" /\ pc = 2
        \/ prog = "preseed" /\ pc = 3
        \/ prog = "finalize" /\ pc = 2
    BY <1>1, Labels DEF Labelled, PreflightProbe
  <2> QED BY <2>1 DEF PreflightProbe, Go, Raise, Jump, Update
<1>3. TypeOK'
  <2>1. st' \in States /\ dSt' \in States
    BY <1>1, <1>2, WithTyped DEF TypeOK, PreflightProbe, Writes, Update, destination,
       record, Statuses, Phases
  <2>2. Places(prog', pc')
    BY <1>2 DEF Places
  <2>3. /\ prog' \in Programs /\ pc' \in 0..Len(Script["finalize"])
        /\ prog' # "none" => pc' \in 1..Len(Script[prog'])
    BY <2>2, PlacesTyped
  <2> QED
    BY <1>1, <1>2, <2>1, <2>3, BoundAssumption DEF TypeOK, PreflightProbe, Writes, Worker,
       destination, record, faults
<1>4. SavedInv'
  BY <1>1, <1>2, BoundAssumption DEF EngineInv, SavedInv, Sound, Open, TypeOK, States,
     CheckedInv, VerdictInv, InstallInv, Reconciling, Protected, Installed, In, Checked,
     Probed, Baselined, Installing, PreflightProbe, Writes, Worker, Update, With,
     destination, record, faults
<1>5. ThreadInv'
  BY <1>1, <1>2, BoundAssumption DEF EngineInv, ThreadInv, In, PreflightProbe, Writes,
     Worker, Update, With, destination, record, faults
<1>6. CheckedInv'
  <2>1. CASE prog' = "raised"
    BY <2>1 DEF CheckedInv, Checked, Probed, Baselined, In
  <2>2. CASE journal = 0 /\ prog' = prog /\ pc' = pc + 1
    <3>1. ~Open(st) /\ ~st.receipt /\ st.found = 0 /\ dSt.found = 0
      BY <1>2, <2>2 DEF EngineInv, CheckedInv, Checked, In, SavedInv, Sound
    <3>2. st'.attempt = st.attempt /\ st'.resolved = st.resolved
          /\ st'.receipt = st.receipt /\ st'.found = st.found
      BY <1>1 DEF PreflightProbe, Update, With, TypeOK, States
    <3>3. /\ ~In("finalize", 4, 21)' /\ ~In("finalize", 12, 21)' /\ ~Baselined'
      BY <1>2 DEF Baselined, In
    <3> QED BY <3>1, <3>2, <3>3 DEF CheckedInv, PreflightProbe, Writes, Open
  <2> QED BY <1>2, <2>1, <2>2
<1>7. VerdictInv'
  BY <1>1, <1>2, BoundAssumption DEF EngineInv, VerdictInv, In
<1>8. InstallInv'
  BY <1>1, <1>2, BoundAssumption DEF EngineInv, InstallInv, TypeOK, States, Protected,
     Installed, In, Installing, PreflightProbe, Writes, Worker, Update, With, destination,
     record, faults
<1>9. GitInv'
  BY <1>1, <1>2, BoundAssumption DEF EngineInv, GitInv, TypeOK, States, InstallInv, In,
     Installing, PathStep, GitStep, PreflightProbe, Writes, Worker, Update, With,
     destination, record, faults
<1> QED BY <1>3, <1>4, <1>5, <1>6, <1>7, <1>8, <1>9 DEF EngineInv

LEMMA PreflightPublishKeeps == ASSUME EngineInv, PreflightPublish PROVE EngineInv'
<1>1. TypeOK /\ Places(prog, pc)
  BY PlacesTyped DEF EngineInv, TypeOK
<1>2. /\ \/ prog = "inspect" /\ pc = 3
         \/ prog = "preseed" /\ pc = 4
         \/ prog = "finalize" /\ pc = 3
      /\ prog' = prog /\ pc' = pc + 1
  <2>1. \/ prog = "inspect" /\ pc = 3
        \/ prog = "preseed" /\ pc = 4
        \/ prog = "finalize" /\ pc = 3
    BY <1>1, Labels DEF Labelled, PreflightPublish
  <2> QED BY <2>1 DEF PreflightPublish, Go
<1>3. TypeOK'
  <2>1. st' \in States /\ dSt' \in States
    BY <1>1, <1>2, WithTyped DEF TypeOK, PreflightPublish, Writes, Update, Status,
       destination, record, Statuses, Phases
  <2>2. Places(prog', pc')
    BY <1>2 DEF Places
  <2>3. /\ prog' \in Programs /\ pc' \in 0..Len(Script["finalize"])
        /\ prog' # "none" => pc' \in 1..Len(Script[prog'])
    BY <2>2, PlacesTyped
  <2> QED
    BY <1>1, <1>2, <2>1, <2>3, BoundAssumption DEF TypeOK, PreflightPublish, Writes, Worker,
       destination, record, faults
<1>4. SavedInv'
  BY <1>1, <1>2, BoundAssumption DEF EngineInv, SavedInv, Sound, Open, TypeOK, States,
     CheckedInv, VerdictInv, InstallInv, Reconciling, Protected, Installed, In, Checked,
     Probed, Baselined, Installing, PreflightPublish, Writes, Worker, Update, With, Status,
     destination, record, faults
<1>5. ThreadInv'
  BY <1>1, <1>2, BoundAssumption DEF EngineInv, ThreadInv, In, PreflightPublish, Writes,
     Worker, Update, With, Status, destination, record, faults
<1>6. CheckedInv'
  BY <1>1, <1>2, BoundAssumption DEF EngineInv, CheckedInv, Open, TypeOK, States, In,
     Checked, Probed, Baselined, PreflightPublish, Writes, Worker, Update, With, Status,
     destination, record, faults
<1>7. VerdictInv'
  BY <1>1, <1>2, BoundAssumption DEF EngineInv, VerdictInv, In
<1>8. InstallInv'
  BY <1>1, <1>2, BoundAssumption DEF EngineInv, InstallInv, TypeOK, States, Protected,
     Installed, In, Installing, PreflightPublish, Writes, Worker, Update, With, Status,
     destination, record, faults
<1>9. GitInv'
  BY <1>1, <1>2, BoundAssumption DEF EngineInv, GitInv, TypeOK, States, InstallInv, In,
     Installing, PathStep, GitStep, PreflightPublish, Writes, Worker, Update, With, Status,
     destination, record, faults
<1> QED BY <1>3, <1>4, <1>5, <1>6, <1>7, <1>8, <1>9 DEF EngineInv

LEMMA RequestedStopKeeps == ASSUME EngineInv, RequestedStop PROVE EngineInv'
<1>1. TypeOK /\ Places(prog, pc)
  BY PlacesTyped DEF EngineInv, TypeOK
<1>2. /\ \/ prog = "inspect" /\ pc = 4
         \/ prog = "preseed" /\ pc \in {5, 7, 11}
         \/ prog = "finalize" /\ pc \in {9, 13, 16}
      /\ up /\ up' = up /\ ctl' = ctl /\ flag' = flag
      /\ \/ /\ ~flag.pause /\ ~flag.cancel /\ prog # "inspect"
            /\ UNCHANGED st /\ prog' = prog /\ pc' = pc + 1
         \/ prog' = "none" /\ pc' = 0 /\ UNCHANGED st /\ prog = "inspect"
         \/ /\ prog' = "none" /\ pc' = 0 /\ flag.pause
            /\ st' = With(st, Status("paused", "staging"))
         \/ /\ prog' = "none" /\ pc' = 0 /\ flag.cancel
            /\ st' = With(st, Status("cancelled", "staging"))
  <2>1. \/ prog = "inspect" /\ pc = 4
        \/ prog = "preseed" /\ pc \in {5, 7, 11}
        \/ prog = "finalize" /\ pc \in {9, 13, 16}
    BY <1>1, Labels DEF Labelled, RequestedStop
  <2> QED BY <2>1 DEF RequestedStop, Writes, Worker, Go, End, Jump, Update
<1>3. TypeOK'
  <2>1. st' \in States /\ dSt' \in States
    BY <1>1, <1>2, WithTyped DEF TypeOK, RequestedStop, Writes, Update, Status, destination,
       record, Statuses, Phases
  <2>2. Places(prog', pc')
    BY <1>2 DEF Places
  <2>3. /\ prog' \in Programs /\ pc' \in 0..Len(Script["finalize"])
        /\ prog' # "none" => pc' \in 1..Len(Script[prog'])
    BY <2>2, PlacesTyped
  <2> QED BY <1>1, <1>2, <2>1, <2>3, BoundAssumption DEF TypeOK, RequestedStop, Writes, Worker,
       destination, record, faults
<1>4. SavedInv'
  BY <1>1, <1>2, BoundAssumption DEF EngineInv, SavedInv, Sound, Open, TypeOK, States,
     Protected, Installed, RequestedStop, Writes, Worker, Go, End, Jump, Update, With,
     Status, destination, record, faults
<1>5. ThreadInv'
  BY <1>1, <1>2, BoundAssumption DEF EngineInv, ThreadInv, In, Status
<1>6. CheckedInv'
  <2>1. CASE prog' = "none"
    BY <2>1 DEF CheckedInv, Checked, Probed, Baselined, In
  <2>2. CASE prog' # "none"
    <3>1. NotFurther
      BY <1>2 DEF NotFurther, Checked, Probed, Baselined, In
    <3> QED BY <1>2, <2>2, <3>1, CheckedStays DEF EngineInv, RequestedStop, Writes
  <2> QED BY <2>1, <2>2
<1>7. VerdictInv'
  BY <1>2 DEF VerdictInv, In
<1>8. InstallInv'
  BY <1>1, <1>2, BoundAssumption DEF EngineInv, InstallInv, TypeOK, States, Protected,
     Installed, In, Installing, RequestedStop, Writes, Worker, Go, End, Jump, Update, With,
     Status, destination, record, faults
<1>9. GitInv'
  BY <1>1, <1>2, BoundAssumption DEF EngineInv, GitInv, TypeOK, States, ThreadInv, Open,
     InstallInv, In, Installing, PathStep, GitStep, RequestedStop, Writes, Worker, Go, End,
     Jump, Update, With, Status, destination, record, faults
<1> QED BY <1>3, <1>4, <1>5, <1>6, <1>7, <1>8, <1>9 DEF EngineInv

LEMMA PrepareStagingKeeps == ASSUME EngineInv, PrepareStaging PROVE EngineInv'
<1>1. TypeOK /\ Places(prog, pc)
  BY PlacesTyped DEF EngineInv, TypeOK
<1>2. /\ \/ prog = "preseed" /\ pc = 6
         \/ prog = "finalize" /\ pc = 5
      /\ \/ remote = "none" /\ UNCHANGED remote /\ prog' = prog /\ pc' = pc + 1
         \/ prog' = "raised" /\ pc' = 1
  <2>1. \/ prog = "preseed" /\ pc = 6
        \/ prog = "finalize" /\ pc = 5
    BY <1>1, Labels DEF Labelled, PrepareStaging
  <2> QED BY <2>1 DEF PrepareStaging, StageRequest, Go, Raise, Jump
<1>3. TypeOK'
  <2>1. st' \in States /\ dSt' \in States
    BY <1>1, <1>2, WithTyped DEF TypeOK, PrepareStaging, StageRequest, Statuses, Phases
  <2>2. Places(prog', pc')
    BY <1>2 DEF Places
  <2>3. /\ prog' \in Programs /\ pc' \in 0..Len(Script["finalize"])
        /\ prog' # "none" => pc' \in 1..Len(Script[prog'])
    BY <2>2, PlacesTyped
  <2> QED
    BY <1>1, <1>2, <2>1, <2>3, BoundAssumption DEF TypeOK, PrepareStaging, StageRequest,
       Worker, record, faults
<1>4. SavedInv'
  BY <1>1, <1>2, BoundAssumption DEF EngineInv, SavedInv, Sound, CheckedInv, VerdictInv,
     InstallInv, Reconciling, Protected, In, Checked, Probed, Baselined, Installing,
     PrepareStaging, StageRequest, Worker, record, faults
<1>5. ThreadInv'
  BY <1>1, <1>2, BoundAssumption DEF EngineInv, ThreadInv, In, PrepareStaging, StageRequest,
     Worker, record, faults
<1>6. CheckedInv'
  BY <1>1, <1>2, BoundAssumption DEF EngineInv, CheckedInv, In, Checked, Probed, Baselined,
     PrepareStaging, StageRequest, Worker, record, faults
<1>7. VerdictInv'
  BY <1>1, <1>2, BoundAssumption DEF EngineInv, VerdictInv, In
<1>8. InstallInv'
  BY <1>1, <1>2, BoundAssumption DEF EngineInv, InstallInv, In, Installing, PrepareStaging,
     StageRequest, Worker, record, faults
<1>9. GitInv'
  BY <1>1, <1>2, BoundAssumption DEF EngineInv, GitInv, In, PathStep, GitStep,
     PrepareStaging, StageRequest, Worker, record, faults
<1> QED BY <1>3, <1>4, <1>5, <1>6, <1>7, <1>8, <1>9 DEF EngineInv

LEMMA EnterCopyKeeps == ASSUME EngineInv, EnterCopy PROVE EngineInv'
<1>1. TypeOK /\ Places(prog, pc)
  BY PlacesTyped DEF EngineInv, TypeOK
<1>2. /\ \/ prog = "preseed" /\ pc = 8
         \/ prog = "finalize" /\ pc = 10
      /\ prog' = prog /\ pc' = pc + 1
  <2>1. \/ prog = "preseed" /\ pc = 8
        \/ prog = "finalize" /\ pc = 10
    BY <1>1, Labels DEF Labelled, EnterCopy
  <2> QED BY <2>1 DEF EnterCopy, Go
<1>3. TypeOK'
  <2>1. st' \in States /\ dSt' \in States
    BY <1>1, <1>2, WithTyped DEF TypeOK, Protected, EnterCopy, Writes, Worker, Update,
       Status, destination, record, faults, Statuses, Phases
  <2>2. Places(prog', pc')
    BY <1>2 DEF Places
  <2>3. /\ prog' \in Programs /\ pc' \in 0..Len(Script["finalize"])
        /\ prog' # "none" => pc' \in 1..Len(Script[prog'])
    BY <2>2, PlacesTyped
  <2> QED BY <1>1, <1>2, <2>1, <2>3, BoundAssumption DEF TypeOK, EnterCopy, Writes, Worker,
       destination, record, faults
<1>4. SavedInv'
  BY <1>1, <1>2, BoundAssumption DEF EngineInv, SavedInv, Sound, Open, TypeOK, States,
     CheckedInv, VerdictInv, InstallInv, Reconciling, Protected, Installed, In, Checked,
     Probed, Baselined, Installing, EnterCopy, Writes, Worker, Update, With, Status,
     destination, record, faults
<1>5. ThreadInv'
  BY <1>1, <1>2, BoundAssumption DEF EngineInv, ThreadInv, In, EnterCopy, Writes, Worker,
     Update, With, Status, destination, record, faults
<1>6. CheckedInv'
  BY <1>1, <1>2, BoundAssumption DEF EngineInv, CheckedInv, Open, TypeOK, States, In,
     Checked, Probed, Baselined, EnterCopy, Writes, Worker, Update, With, Status,
     destination, record, faults
<1>7. VerdictInv'
  BY <1>1, <1>2, BoundAssumption DEF EngineInv, VerdictInv, In
<1>8. InstallInv'
  BY <1>1, <1>2, BoundAssumption DEF EngineInv, InstallInv, TypeOK, States, Protected,
     Installed, In, Installing, EnterCopy, Writes, Worker, Update, With, Status,
     destination, record, faults
<1>9. GitInv'
  BY <1>1, <1>2, BoundAssumption DEF EngineInv, GitInv, TypeOK, States, InstallInv, In,
     Installing, PathStep, GitStep, EnterCopy, Writes, Worker, Update, With, Status,
     destination, record, faults
<1> QED BY <1>3, <1>4, <1>5, <1>6, <1>7, <1>8, <1>9 DEF EngineInv

LEMMA BeginCopyKeeps == ASSUME EngineInv, BeginCopy PROVE EngineInv'
<1>1. TypeOK /\ Places(prog, pc)
  BY PlacesTyped DEF EngineInv, TypeOK
<1>2. /\ \/ prog = "preseed" /\ pc = 9
         \/ prog = "finalize" /\ pc = 11
      /\ \/ ~flag.cancel /\ prog' = prog /\ pc' = pc + 1
         \/ prog' = "raised" /\ pc' = 1
  <2>1. \/ prog = "preseed" /\ pc = 9
        \/ prog = "finalize" /\ pc = 11
    BY <1>1, Labels DEF Labelled, BeginCopy
  <2> QED BY <2>1 DEF BeginCopy, Checkpoint, Go, Raise, Jump, Update
<1>3. TypeOK'
  <2>1. st' \in States /\ dSt' \in States
    BY <1>1, <1>2, WithTyped DEF TypeOK, Reports, Protected, Installed, BeginCopy, Writes,
       Worker, Update, destination, record, faults, Statuses, Phases
  <2>2. Places(prog', pc')
    BY <1>2 DEF Places
  <2>3. /\ prog' \in Programs /\ pc' \in 0..Len(Script["finalize"])
        /\ prog' # "none" => pc' \in 1..Len(Script[prog'])
    BY <2>2, PlacesTyped
  <2> QED BY <1>1, <1>2, <2>1, <2>3, BoundAssumption DEF TypeOK, BeginCopy, Writes, Worker,
       destination, record, faults
<1>4. SavedInv'
  BY <1>1, <1>2, BoundAssumption DEF EngineInv, SavedInv, Sound, Open, TypeOK, States,
     CheckedInv, VerdictInv, InstallInv, Reconciling, Protected, Installed, In, Checked,
     Probed, Baselined, Installing, BeginCopy, Writes, Worker, Update, With, destination,
     record, faults
<1>5. ThreadInv'
  BY <1>1, <1>2, BoundAssumption DEF EngineInv, ThreadInv, In, BeginCopy, Writes, Worker,
     Update, With, destination, record, faults
<1>6. CheckedInv'
  BY <1>1, <1>2, BoundAssumption DEF EngineInv, CheckedInv, Open, TypeOK, States, In,
     Checked, Probed, Baselined, BeginCopy, Writes, Worker, Update, With, destination,
     record, faults
<1>7. VerdictInv'
  BY <1>1, <1>2, BoundAssumption DEF EngineInv, VerdictInv, In
<1>8. InstallInv'
  BY <1>1, <1>2, BoundAssumption DEF EngineInv, InstallInv, TypeOK, States, Installed, In,
     Installing, BeginCopy, Writes, Worker, Update, With, destination, record, faults
<1>9. GitInv'
  BY <1>1, <1>2, BoundAssumption DEF EngineInv, GitInv, TypeOK, States, InstallInv, In,
     Installing, PathStep, GitStep, BeginCopy, Writes, Worker, Update, With, destination,
     record, faults
<1> QED BY <1>3, <1>4, <1>5, <1>6, <1>7, <1>8, <1>9 DEF EngineInv

LEMMA CopyKeeps == ASSUME EngineInv, Copy PROVE EngineInv'
<1>1. TypeOK /\ Places(prog, pc)
  BY PlacesTyped DEF EngineInv, TypeOK
<1>2. /\ \/ prog = "preseed" /\ pc = 10
         \/ prog = "finalize" /\ pc = 12
      /\ \/ remote = "none" /\ UNCHANGED remote /\ prog' = prog /\ pc' = pc + 1
         \/ prog' = "raised" /\ pc' = 1
  <2>1. \/ prog = "preseed" /\ pc = 10
        \/ prog = "finalize" /\ pc = 12
    BY <1>1, Labels DEF Labelled, Copy
  <2> QED BY <2>1 DEF Copy, StageRequest, Go, Raise, Jump
<1>3. TypeOK'
  <2>1. st' \in States /\ dSt' \in States
    BY <1>1, <1>2, WithTyped DEF TypeOK, Copy, StageRequest, Statuses, Phases
  <2>2. Places(prog', pc')
    BY <1>2 DEF Places
  <2>3. /\ prog' \in Programs /\ pc' \in 0..Len(Script["finalize"])
        /\ prog' # "none" => pc' \in 1..Len(Script[prog'])
    BY <2>2, PlacesTyped
  <2> QED
    BY <1>1, <1>2, <2>1, <2>3, BoundAssumption DEF TypeOK, Copy, StageRequest, Worker,
       record, faults
<1>4. SavedInv'
  BY <1>1, <1>2, BoundAssumption DEF EngineInv, SavedInv, Sound, CheckedInv, VerdictInv,
     InstallInv, Reconciling, Protected, In, Checked, Probed, Baselined, Installing, Copy,
     StageRequest, Worker, record, faults
<1>5. ThreadInv'
  BY <1>1, <1>2, BoundAssumption DEF EngineInv, ThreadInv, In, Copy, StageRequest, Worker,
     record, faults
<1>6. CheckedInv'
  BY <1>1, <1>2, BoundAssumption DEF EngineInv, CheckedInv, In, Checked, Probed, Baselined,
     Copy, StageRequest, Worker, record, faults
<1>7. VerdictInv'
  BY <1>1, <1>2, BoundAssumption DEF EngineInv, VerdictInv, In
<1>8. InstallInv'
  BY <1>1, <1>2, BoundAssumption DEF EngineInv, InstallInv, In, Installing, Copy,
     StageRequest, Worker, record, faults
<1>9. GitInv'
  BY <1>1, <1>2, BoundAssumption DEF EngineInv, GitInv, In, PathStep, GitStep, Copy,
     StageRequest, Worker, record, faults
<1> QED BY <1>3, <1>4, <1>5, <1>6, <1>7, <1>8, <1>9 DEF EngineInv

LEMMA StagedKeeps == ASSUME EngineInv, Staged PROVE EngineInv'
<1>1. TypeOK /\ Places(prog, pc)
  BY PlacesTyped DEF EngineInv, TypeOK
<1>2. /\ prog = "preseed" /\ pc = 12
      /\ prog' = "none" /\ pc' = 0
  <2>1. prog = "preseed" /\ pc = 12
    BY <1>1, Labels DEF Labelled, Staged
  <2> QED BY <2>1 DEF Staged, End, Jump
<1>3. TypeOK'
  <2>1. st' \in States /\ dSt' \in States
    BY <1>1, <1>2, WithTyped DEF TypeOK, Reports, Protected, Installed, Staged, Writes,
       Worker, Update, destination, record, faults, Statuses, Phases
  <2>2. Places(prog', pc')
    BY <1>2 DEF Places
  <2>3. /\ prog' \in Programs /\ pc' \in 0..Len(Script["finalize"])
        /\ prog' # "none" => pc' \in 1..Len(Script[prog'])
    BY <2>2, PlacesTyped
  <2> QED BY <1>1, <1>2, <2>1, <2>3, BoundAssumption DEF TypeOK, Staged, Writes, Worker,
       destination, record, faults
<1>4. SavedInv'
  BY <1>1, <1>2, BoundAssumption DEF EngineInv, SavedInv, Sound, Open, TypeOK, States,
     CheckedInv, VerdictInv, InstallInv, Reconciling, Protected, Installed, In, Checked,
     Probed, Baselined, Installing, Staged, Writes, Worker, Update, With, destination,
     record, faults
<1>5. ThreadInv'
  BY <1>1, <1>2, BoundAssumption DEF EngineInv, ThreadInv, In, Staged, Writes, Worker,
     Update, With, destination, record, faults
<1>6. CheckedInv'
  BY <1>1, <1>2, BoundAssumption DEF EngineInv, CheckedInv, In, Checked, Probed, Baselined,
     Staged, Writes, Worker, Update, With, destination, record, faults
<1>7. VerdictInv'
  BY <1>1, <1>2, BoundAssumption DEF EngineInv, VerdictInv, In
<1>8. InstallInv'
  BY <1>1, <1>2, BoundAssumption DEF EngineInv, InstallInv, TypeOK, States, Protected,
     Installed, In, Installing, Staged, Writes, Worker, Update, With, destination, record,
     faults
<1>9. GitInv'
  BY <1>1, <1>2, BoundAssumption DEF EngineInv, GitInv, TypeOK, States, InstallInv, In,
     Installing, PathStep, GitStep, Staged, Writes, Worker, Update, With, destination,
     record, faults
<1> QED BY <1>3, <1>4, <1>5, <1>6, <1>7, <1>8, <1>9 DEF EngineInv

LEMMA CodexClosedKeeps == ASSUME EngineInv, CodexClosed PROVE EngineInv'
<1>1. TypeOK /\ Places(prog, pc)
  BY PlacesTyped DEF EngineInv, TypeOK
<1>2. /\ prog = "finalize" /\ pc \in {4, 17}
      /\ \/ UNCHANGED st /\ prog' = prog /\ pc' = pc + 1
         \/ prog' = "none" /\ pc' = 0
  <2>1. prog = "finalize" /\ pc \in {4, 17}
    BY <1>1, Labels DEF Labelled, CodexClosed
  <2> QED BY <2>1 DEF CodexClosed, Go, End, Jump
<1>3. TypeOK'
  <2>1. st' \in States /\ dSt' \in States
    BY <1>1, <1>2, WithTyped DEF TypeOK, Reports, Protected, Installed, CodexClosed, Writes,
       Worker, When, Status, destination, record, faults, Statuses, Phases
  <2>2. Places(prog', pc')
    BY <1>2 DEF Places
  <2>3. /\ prog' \in Programs /\ pc' \in 0..Len(Script["finalize"])
        /\ prog' # "none" => pc' \in 1..Len(Script[prog'])
    BY <2>2, PlacesTyped
  <2> QED BY <1>1, <1>2, <2>1, <2>3, BoundAssumption DEF TypeOK, CodexClosed, Writes, Worker,
       destination, record, faults
<1>4. SavedInv'
  BY <1>1, <1>2, BoundAssumption DEF EngineInv, SavedInv, Sound, Open, TypeOK, States,
     ThreadInv, CheckedInv, VerdictInv, InstallInv, Reconciling, Protected, Installed, In,
     Checked, Probed, Baselined, Installing, CodexClosed, Writes, Worker, When, With,
     Status, destination, record, faults
<1>5. ThreadInv'
  BY <1>1, <1>2, BoundAssumption DEF EngineInv, ThreadInv, In, CodexClosed, Writes, Worker,
     When, With, Status, destination, record, faults
<1>6. CheckedInv'
  <2>1. CASE prog' = "none"
    BY <2>1 DEF CheckedInv, Checked, Probed, Baselined, In
  <2>2. CASE prog' # "none"
    <3>1. NotFurther
      BY <1>2 DEF NotFurther, Checked, Probed, Baselined, In
    <3> QED BY <1>2, <2>2, <3>1, CheckedStays DEF EngineInv, CodexClosed, Writes
  <2> QED BY <2>1, <2>2
<1>7. VerdictInv'
  BY <1>1, <1>2, BoundAssumption DEF EngineInv, VerdictInv, In
<1>8. InstallInv'
  BY <1>1, <1>2, BoundAssumption DEF EngineInv, InstallInv, TypeOK, States, Protected,
     Installed, In, Installing, CodexClosed, Writes, Worker, When, With, Status,
     destination, record, faults
<1>9. GitInv'
  BY <1>1, <1>2, BoundAssumption DEF EngineInv, GitInv, TypeOK, States, ThreadInv,
     InstallInv, In, Installing, PathStep, GitStep, CodexClosed, Writes, Worker, When, With,
     Status, destination, record, faults
<1> QED BY <1>3, <1>4, <1>5, <1>6, <1>7, <1>8, <1>9 DEF EngineInv

LEMMA FreezeKeeps == ASSUME EngineInv, Freeze PROVE EngineInv'
<1>1. TypeOK /\ Places(prog, pc)
  BY PlacesTyped DEF EngineInv, TypeOK
<1>2. /\ prog = "finalize" /\ pc \in {6, 14}
      /\ \/ ~flag.cancel /\ prog' = prog /\ pc' = pc + 1
         \/ UNCHANGED st /\ prog' = "raised" /\ pc' = 1
  <2>1. prog = "finalize" /\ pc \in {6, 14}
    BY <1>1, Labels DEF Labelled, Freeze
  <2> QED BY <2>1 DEF Freeze, Checkpoint, Go, Raise, Jump, Update
<1>3. TypeOK'
  <2>1. st' \in States /\ dSt' \in States
    BY <1>1, <1>2, WithTyped DEF TypeOK, Freeze, Writes, Update, Status, destination,
       record, Statuses, Phases
  <2>2. Places(prog', pc')
    BY <1>2 DEF Places
  <2>3. /\ prog' \in Programs /\ pc' \in 0..Len(Script["finalize"])
        /\ prog' # "none" => pc' \in 1..Len(Script[prog'])
    BY <2>2, PlacesTyped
  <2> QED
    BY <1>1, <1>2, <2>1, <2>3, BoundAssumption DEF TypeOK, Freeze, Writes, Worker, Unlocked,
       destination, record, faults
<1>4. SavedInv'
  BY <1>1, <1>2, BoundAssumption DEF EngineInv, SavedInv, Sound, Open, TypeOK, States,
     CheckedInv, VerdictInv, InstallInv, Reconciling, Protected, Installed, In, Checked,
     Probed, Baselined, Installing, Freeze, Writes, Worker, Update, With, Status, Unlocked,
     destination, record, faults
<1>5. ThreadInv'
  BY <1>1, <1>2, BoundAssumption DEF EngineInv, ThreadInv, In, Freeze, Writes, Worker,
     Update, With, Status, Unlocked, destination, record, faults
<1>6. CheckedInv'
  BY <1>1, <1>2, BoundAssumption DEF EngineInv, CheckedInv, Open, TypeOK, States, SavedInv,
     Sound, Protected, Installed, In, Checked, Probed, Baselined, Freeze, Writes, Worker,
     Update, With, Status, Unlocked, destination, record, faults
<1>7. VerdictInv'
  BY <1>1, <1>2, BoundAssumption DEF EngineInv, VerdictInv, In
<1>8. InstallInv'
  BY <1>1, <1>2, BoundAssumption DEF EngineInv, InstallInv, TypeOK, States, In, Installing,
     Freeze, Writes, Worker, Update, With, Status, Unlocked, destination, record, faults
<1>9. GitInv'
  BY <1>1, <1>2, BoundAssumption DEF EngineInv, GitInv, TypeOK, States, InstallInv, In,
     Installing, PathStep, GitStep, Freeze, Writes, Worker, Update, With, Status, Unlocked,
     destination, record, faults
<1> QED BY <1>3, <1>4, <1>5, <1>6, <1>7, <1>8, <1>9 DEF EngineInv

LEMMA FreezeReadKeeps == ASSUME EngineInv, FreezeRead PROVE EngineInv'
<1>1. TypeOK /\ Places(prog, pc)
  BY PlacesTyped DEF EngineInv, TypeOK
<1>2. /\ prog = "finalize" /\ pc \in {7, 15}
      /\ \/ prog' = prog /\ pc' = pc + 1
         \/ prog' = "raised" /\ pc' = 1
         \/ prog' = prog /\ pc' = pc - 1
  <2>1. prog = "finalize" /\ pc \in {7, 15}
    BY <1>1, Labels DEF Labelled, FreezeRead
  <2> QED BY <2>1 DEF FreezeRead, Checkpoint, Go, Raise, Jump
<1>3. TypeOK'
  <2>1. st' \in States /\ dSt' \in States
    BY <1>1, <1>2, WithTyped DEF TypeOK, FreezeRead, Writes, Statuses, Phases
  <2>2. Places(prog', pc')
    BY <1>2 DEF Places
  <2>3. /\ prog' \in Programs /\ pc' \in 0..Len(Script["finalize"])
        /\ prog' # "none" => pc' \in 1..Len(Script[prog'])
    BY <2>2, PlacesTyped
  <2> QED BY <1>1, <1>2, <2>1, <2>3, BoundAssumption DEF TypeOK, FreezeRead, Writes, Worker,
       destination, record, faults
<1>4. SavedInv'
  BY <1>1, <1>2, BoundAssumption DEF EngineInv, SavedInv, Sound, FreezeRead, Writes, Worker,
     destination, record, faults
<1>5. ThreadInv'
  BY <1>1, <1>2, BoundAssumption DEF EngineInv, ThreadInv, In, FreezeRead, Writes, Worker,
     destination, record, faults
<1>6. CheckedInv'
  <2>1. NotFurther
    BY <1>2 DEF NotFurther, Checked, Probed, Baselined, In
  <2> QED BY <2>1, CheckedStays DEF EngineInv, FreezeRead, Writes
<1>7. VerdictInv'
  BY <1>1, <1>2, BoundAssumption DEF EngineInv, VerdictInv, In
<1>8. InstallInv'
  BY <1>1, <1>2, BoundAssumption DEF EngineInv, InstallInv, In, Installing, FreezeRead,
     Writes, Worker, destination, record, faults
<1>9. GitInv'
  BY <1>1, <1>2, BoundAssumption DEF EngineInv, GitInv, In, PathStep, GitStep, FreezeRead,
     Writes, Worker, destination, record, faults
<1> QED BY <1>3, <1>4, <1>5, <1>6, <1>7, <1>8, <1>9 DEF EngineInv

LEMMA SaveBaselineKeeps == ASSUME EngineInv, SaveBaseline PROVE EngineInv'
<1>1. TypeOK /\ Places(prog, pc)
  BY PlacesTyped DEF EngineInv, TypeOK
<1>2. /\ prog = "finalize" /\ pc = 8
      /\ \/ ~flag.cancel /\ prog' = prog /\ pc' = pc + 1
         \/ prog' = "raised" /\ pc' = 1
  <2>1. prog = "finalize" /\ pc = 8
    BY <1>1, Labels DEF Labelled, SaveBaseline
  <2> QED BY <2>1 DEF SaveBaseline, Checkpoint, Go, Raise, Jump, Update
<1>3. TypeOK'
  <2>1. st' \in States /\ dSt' \in States
    BY <1>1, <1>2, WithTyped DEF TypeOK, SaveBaseline, Update, destination, record,
       Statuses, Phases
  <2>2. Places(prog', pc')
    BY <1>2 DEF Places
  <2>3. /\ prog' \in Programs /\ pc' \in 0..Len(Script["finalize"])
        /\ prog' # "none" => pc' \in 1..Len(Script[prog'])
    BY <2>2, PlacesTyped
  <2> QED BY <1>1, <1>2, <2>1, <2>3, BoundAssumption DEF TypeOK, SaveBaseline, Worker,
       destination, record, faults
<1>4. SavedInv'
  BY <1>1, <1>2, BoundAssumption DEF EngineInv, SavedInv, Sound, Open, TypeOK, States,
     CheckedInv, VerdictInv, InstallInv, Reconciling, Protected, Installed, In, Checked,
     Probed, Baselined, Installing, SaveBaseline, Worker, Update, With, destination, record,
     faults
<1>5. ThreadInv'
  BY <1>1, <1>2, BoundAssumption DEF EngineInv, ThreadInv, In, SaveBaseline, Worker, Update,
     With, destination, record, faults
<1>6. CheckedInv'
  BY <1>1, <1>2, BoundAssumption DEF EngineInv, CheckedInv, Open, TypeOK, States, Installed,
     In, Checked, Probed, Baselined, SaveBaseline, Worker, Update, With, destination,
     record, faults
<1>7. VerdictInv'
  BY <1>1, <1>2, BoundAssumption DEF EngineInv, VerdictInv, In
<1>8. InstallInv'
  BY <1>1, <1>2, BoundAssumption DEF EngineInv, InstallInv, TypeOK, States, Installed, In,
     Installing, SaveBaseline, Worker, Update, With, destination, record, faults
<1>9. GitInv'
  BY <1>1, <1>2, BoundAssumption DEF EngineInv, GitInv, TypeOK, States, InstallInv, In,
     Installing, PathStep, GitStep, SaveBaseline, Worker, Update, With, destination, record,
     faults
<1> QED BY <1>3, <1>4, <1>5, <1>6, <1>7, <1>8, <1>9 DEF EngineInv

LEMMA CommitInstallKeeps == ASSUME EngineInv, CommitInstall PROVE EngineInv'
<1>1. TypeOK /\ Places(prog, pc)
  BY PlacesTyped DEF EngineInv, TypeOK
<1>2. /\ prog = "finalize" /\ pc = 18
      /\ up /\ up' = up /\ ctl' = ctl /\ flag' = flag
      /\ \/ /\ ~flag.pause /\ ~flag.cancel
            /\ st' = With(st, Status("running", "installing")) /\ prog' = prog /\ pc' = pc + 1
         \/ /\ prog' = "none" /\ pc' = 0 /\ flag.pause
            /\ st' = With(st, Status("paused", "staging"))
         \/ /\ prog' = "none" /\ pc' = 0 /\ flag.cancel
            /\ st' = With(st, Status("cancelled", "staging"))
  <2>1. prog = "finalize" /\ pc = 18
    BY <1>1, Labels DEF Labelled, CommitInstall
  <2> QED BY <2>1 DEF CommitInstall, Writes, Worker, Go, End, Jump, Update
<1>3. TypeOK'
  <2>1. st' \in States /\ dSt' \in States
    BY <1>1, <1>2, WithTyped DEF TypeOK, CommitInstall, Writes, Update, Status, destination,
       record, Statuses, Phases
  <2>2. Places(prog', pc')
    BY <1>2 DEF Places
  <2>3. /\ prog' \in Programs /\ pc' \in 0..Len(Script["finalize"])
        /\ prog' # "none" => pc' \in 1..Len(Script[prog'])
    BY <2>2, PlacesTyped
  <2> QED BY <1>1, <1>2, <2>1, <2>3, BoundAssumption DEF TypeOK, CommitInstall, Writes, Worker,
       Unlocked, destination, record, faults
<1>4. SavedInv'
  BY <1>1, <1>2, BoundAssumption DEF EngineInv, SavedInv, Sound, Open, TypeOK, States,
     ThreadInv, CheckedInv, VerdictInv, InstallInv, Reconciling, Protected, Installed, In,
     Checked, Probed, Baselined, Installing, CommitInstall, Writes, Worker, Go, End, Jump,
     Update, With, Status, Unlocked, destination, record, faults
<1>5. ThreadInv'
  BY <1>1, <1>2, BoundAssumption DEF EngineInv, ThreadInv, In
<1>6. CheckedInv'
  BY <1>1, <1>2, BoundAssumption DEF EngineInv, CheckedInv, Open, TypeOK, States, In,
     Checked, Probed, Baselined, CommitInstall, Writes, Worker, Go, End, Jump, Update, With,
     Status, Unlocked, destination, record, faults
<1>7. VerdictInv'
  BY <1>1, <1>2, BoundAssumption DEF EngineInv, VerdictInv, In, With, Status
<1>8. InstallInv'
  BY <1>1, <1>2, BoundAssumption DEF EngineInv, InstallInv, TypeOK, States, Installed, In,
     Installing, CommitInstall, Writes, Worker, Go, End, Jump, Update, With, Status,
     Unlocked, destination, record, faults
<1>9. GitInv'
  BY <1>1, <1>2, BoundAssumption DEF EngineInv, GitInv, TypeOK, States, InstallInv, In,
     Installing, PathStep, GitStep, CommitInstall, Writes, Worker, Go, End, Jump, Update,
     With, Status, Unlocked, destination, record, faults
<1> QED BY <1>3, <1>4, <1>5, <1>6, <1>7, <1>8, <1>9 DEF EngineInv

LEMMA SendInstallKeeps == ASSUME EngineInv, SendInstall PROVE EngineInv'
<1>1. TypeOK /\ Places(prog, pc)
  BY PlacesTyped DEF EngineInv, TypeOK
<1>2. /\ prog = "finalize" /\ pc = 19
      /\ prog' = prog /\ pc' = pc + 1
  <2>1. prog = "finalize" /\ pc = 19
    BY <1>1, Labels DEF Labelled, SendInstall
  <2> QED BY <2>1 DEF SendInstall, Go
<1>3. TypeOK'
  <2>1. st' \in States /\ dSt' \in States
    BY <1>1, <1>2, WithTyped DEF TypeOK, SendInstall, Update, record, Statuses, Phases
  <2>2. Places(prog', pc')
    BY <1>2 DEF Places
  <2>3. /\ prog' \in Programs /\ pc' \in 0..Len(Script["finalize"])
        /\ prog' # "none" => pc' \in 1..Len(Script[prog'])
    BY <2>2, PlacesTyped
  <2> QED
    BY <1>1, <1>2, <2>1, <2>3, BoundAssumption DEF TypeOK, SendInstall, Worker, record,
       faults
<1>4. SavedInv'
  BY <1>1, <1>2, BoundAssumption DEF EngineInv, SavedInv, Sound, TypeOK, States, CheckedInv,
     VerdictInv, InstallInv, Reconciling, Protected, Installed, In, Checked, Probed,
     Baselined, Installing, SendInstall, Worker, Update, With, record, faults
<1>5. ThreadInv'
  BY <1>1, <1>2, BoundAssumption DEF EngineInv, ThreadInv, In, SendInstall, Worker, Update,
     With, record, faults
<1>6. CheckedInv'
  BY <1>1, <1>2, BoundAssumption DEF EngineInv, CheckedInv, Open, TypeOK, States, In,
     Checked, Probed, Baselined, SendInstall, Worker, Update, With, record, faults
<1>7. VerdictInv'
  BY <1>1, <1>2, BoundAssumption DEF EngineInv, VerdictInv, In
<1>8. InstallInv'
  BY <1>1, <1>2, BoundAssumption DEF EngineInv, InstallInv, TypeOK, States, Installed, In,
     Installing, SendInstall, Worker, Update, With, record, faults
<1>9. GitInv'
  BY <1>1, <1>2, BoundAssumption DEF EngineInv, GitInv, TypeOK, States, InstallInv, In,
     Installing, PathStep, GitStep, SendInstall, Worker, Update, With, record, faults
<1> QED BY <1>3, <1>4, <1>5, <1>6, <1>7, <1>8, <1>9 DEF EngineInv

LEMMA CompleteInstallKeeps == ASSUME EngineInv, CompleteInstall PROVE EngineInv'
<1>1. TypeOK /\ Places(prog, pc)
  BY PlacesTyped DEF EngineInv, TypeOK
<1>2. /\ prog = "finalize" /\ pc = 21 /\ up /\ ctl = "none"
      /\ st' \in States /\ dSt' \in States /\ st'.git = st.git
      /\ \A s \in {st', dSt'} : s = dSt \/
           /\ s.status = "needs_attention" /\ s.phase = "path_compatibility" /\ s.receipt
           /\ s.staging_complete = st.staging_complete /\ s.attempt = st.attempt
           /\ s.resolved = st.resolved /\ s.recovery = st.recovery /\ s.found = st.found
      /\ st'.phase = "path_compatibility" /\ st'.found = st.found
      /\ \/ prog' = "none" /\ pc' = 0
         \/ prog' = "finalize" /\ pc' = 22 /\ ~flag.cancel
         \/ prog' = "raised" /\ pc' = 1
      /\ flag' \in Flags /\ flag'.git = flag.cancel /\ flag'.path = flag.cancel
      /\ UNCHANGED <<verdict, requested, ctl, up, closing, destination, faults>>
  <2> DEFINE s == With(st, [status |-> "needs_attention", phase |-> "path_compatibility",
                            receipt |-> TRUE])
             t == With(s, [path |-> IF flag.cancel THEN "unverified" ELSE "checking"])
  <2>1. st \in States /\ dSt \in States /\ flag \in Flags
    BY <1>1 DEF TypeOK
  <2>2. s \in States
    BY <2>1, WithTyped DEF Installed, Statuses, Phases
  <2>3. /\ s.status = "needs_attention" /\ s.phase = "path_compatibility"
        /\ s.receipt /\ s.staging_complete = st.staging_complete /\ s.attempt = st.attempt
        /\ s.resolved = st.resolved /\ s.recovery = st.recovery /\ s.found = st.found
        /\ s.git = st.git
    BY <2>1 DEF With, States
  <2>4. \/ dSt' = s /\ st' = t
        \/ dSt' = dSt /\ st' = s
    BY DEF CompleteInstall
  <2>5. flag' \in Flags /\ flag'.git = flag.cancel /\ flag'.path = flag.cancel
    BY <2>1 DEF CompleteInstall, Flags
  <2>6. prog = "finalize" /\ pc = 21
    BY <1>1, Labels DEF CompleteInstall, Labelled
  <2>7. \/ prog' = "none" /\ pc' = 0
        \/ prog' = "finalize" /\ pc' = 22 /\ ~flag.cancel
        \/ prog' = "raised" /\ pc' = 1
    BY <2>6 DEF CompleteInstall, End, Raise, Jump, Go
  <2> HIDE DEF s
  <2>8. t \in States
    BY <2>2, WithTyped DEF Statuses, Phases
  <2>9. /\ t.status = s.status /\ t.phase = s.phase
        /\ t.receipt = s.receipt /\ t.staging_complete = s.staging_complete
        /\ t.attempt = s.attempt /\ t.resolved = s.resolved
        /\ t.recovery = s.recovery /\ t.found = s.found /\ t.git = s.git
    BY <2>2 DEF With, States
  <2> HIDE DEF t
  <2> QED BY <2>1, <2>2, <2>3, <2>4, <2>5, <2>6, <2>7, <2>8, <2>9 DEF CompleteInstall, Worker,
       Unlocked
<1>3. TypeOK'
  <2>1. st' \in States /\ dSt' \in States
    BY <1>2
  <2>2. Places(prog', pc')
    BY <1>2 DEF Places
  <2>3. /\ prog' \in Programs /\ pc' \in 0..Len(Script["finalize"])
        /\ prog' # "none" => pc' \in 1..Len(Script[prog'])
    BY <2>2, PlacesTyped
  <2> QED BY <1>1, <1>2, <2>1, <2>3, BoundAssumption DEF TypeOK, destination, record, faults
<1>4. SavedInv'
  BY <1>1, <1>2, BoundAssumption DEF EngineInv, SavedInv, Sound, Open, ThreadInv,
     CheckedInv, VerdictInv, InstallInv, Reconciling, Protected, In, Checked, Probed,
     Baselined, Installing, destination, record, faults
<1>5. ThreadInv'
  BY <1>1, <1>2, BoundAssumption DEF EngineInv, ThreadInv, In
<1>6. CheckedInv'
  BY <1>2 DEF CheckedInv, Checked, Probed, Baselined, In
<1>7. VerdictInv'
  BY <1>2, BoundAssumption DEF EngineInv, VerdictInv, In
<1>8. InstallInv'
  BY <1>1, <1>2, BoundAssumption DEF EngineInv, InstallInv, In, Installing, destination,
     record, faults
<1>9. GitInv'
  BY <1>1, <1>2, BoundAssumption DEF EngineInv, GitInv, In, PathStep, GitStep, destination,
     record, faults
<1> QED BY <1>3, <1>4, <1>5, <1>6, <1>7, <1>8, <1>9 DEF EngineInv

LEMMA PathCheckKeeps == ASSUME EngineInv, PathCheck PROVE EngineInv'
<1>1. TypeOK /\ Places(prog, pc)
  BY PlacesTyped DEF EngineInv, TypeOK
<1>2. /\ \/ prog = "finalize" /\ pc = 22
         \/ prog = "paths" /\ pc = 1
      /\ up /\ up' = up /\ ctl' = ctl /\ UNCHANGED <<st, dSt, flag>>
      /\ \/ flag.path /\ prog' = "none" /\ pc' = 0 /\ UNCHANGED verdict
         \/ /\ verdict' \in {"ready", "unverified"} /\ (flag.path => verdict' = "unverified")
            /\ prog' = prog /\ pc' = pc + 1
  <2>1. \/ prog = "finalize" /\ pc = 22
        \/ prog = "paths" /\ pc = 1
    BY <1>1, Labels DEF Labelled, PathCheck
  <2> QED BY <2>1 DEF PathCheck, Worker, Go, End, Jump
<1>3. TypeOK'
  <2>1. st' \in States /\ dSt' \in States
    BY <1>1, <1>2, WithTyped DEF TypeOK, Statuses, Phases
  <2>2. Places(prog', pc')
    BY <1>2 DEF Places
  <2>3. /\ prog' \in Programs /\ pc' \in 0..Len(Script["finalize"])
        /\ prog' # "none" => pc' \in 1..Len(Script[prog'])
    BY <2>2, PlacesTyped
  <2> QED
    BY <1>1, <1>2, <2>1, <2>3, BoundAssumption DEF TypeOK, PathCheck, Worker, destination,
       record, faults
<1>4. SavedInv'
  BY <1>1, <1>2, BoundAssumption DEF EngineInv, SavedInv, Sound, PathCheck, Worker, Go, End,
     Jump, destination, record, faults
<1>5. ThreadInv'
  BY <1>1, <1>2, BoundAssumption DEF EngineInv, ThreadInv, In
<1>6. CheckedInv'
  BY <1>2 DEF CheckedInv, Checked, Probed, Baselined, In
<1>7. VerdictInv'
  BY <1>2 DEF VerdictInv, In
<1>8. InstallInv'
  BY <1>1, <1>2, BoundAssumption DEF EngineInv, InstallInv, In, Installing, PathCheck,
     Worker, Go, End, Jump, destination, record, faults
<1>9. GitInv'
  BY <1>1, <1>2, BoundAssumption DEF EngineInv, GitInv, In, PathStep, GitStep, PathCheck,
     Worker, Go, End, Jump, destination, record, faults
<1> QED BY <1>3, <1>4, <1>5, <1>6, <1>7, <1>8, <1>9 DEF EngineInv

LEMMA HandoffKeeps == ASSUME EngineInv, Handoff PROVE EngineInv'
<1>1. TypeOK /\ Places(prog, pc)
  BY PlacesTyped DEF EngineInv, TypeOK
<1>2. /\ \/ prog = "finalize" /\ pc = 23
         \/ prog = "paths" /\ pc = 2
      /\ up /\ up' = up /\ ctl' = ctl /\ flag' = flag
      /\ \/ flag.path /\ prog' = "none" /\ pc' = 0 /\ UNCHANGED st
         \/ /\ ~flag.path /\ prog' = "none" /\ pc' = 0
            /\ st' = When(st.phase \in Installed, With(st, [path |-> verdict]),
                   IF st.receipt /\ verdict = "ready"
                   THEN [git |-> "checking", status |-> "needs_attention",
                         phase |-> "git_verification"]
                   ELSE Status("needs_attention", "path_compatibility"))
            /\ st.phase \notin Installed \/ ~(st.receipt /\ verdict = "ready")
         \/ /\ ~flag.path /\ st.phase \in Installed /\ prog' = prog /\ pc' = pc + 1
            /\ st' = With(With(st, [path |-> verdict]),
                   [git |-> "checking", status |-> "needs_attention",
                    phase |-> "git_verification"])
  <2>1. \/ prog = "finalize" /\ pc = 23
        \/ prog = "paths" /\ pc = 2
    BY <1>1, Labels DEF Labelled, Handoff
  <2> QED BY <2>1 DEF Handoff, Writes, Worker, Go, End, Jump, When
<1>3. TypeOK'
  <2>1. st' \in States /\ dSt' \in States
    <3>1. verdict \in {"ready", "unverified"}
      BY <1>2 DEF EngineInv, VerdictInv, In
    <3>2. With(st, [path |-> verdict]) \in States
      BY <1>1, <3>1, WithTyped DEF TypeOK, Statuses, Phases
    <3> QED
      BY <1>1, <3>2, WithTyped DEF Handoff, When, Status, Writes, Installed, TypeOK,
         Statuses, Phases
  <2>2. Places(prog', pc')
    BY <1>2 DEF Places
  <2>3. /\ prog' \in Programs /\ pc' \in 0..Len(Script["finalize"])
        /\ prog' # "none" => pc' \in 1..Len(Script[prog'])
    BY <2>2, PlacesTyped
  <2> QED BY <1>1, <1>2, <2>1, <2>3, BoundAssumption DEF TypeOK, Handoff, Writes, Worker,
       Unlocked, destination, record, faults
<1>4. SavedInv'
  BY <1>1, <1>2, BoundAssumption DEF EngineInv, SavedInv, Sound, Open, TypeOK, States,
     ThreadInv, CheckedInv, VerdictInv, InstallInv, Reconciling, Protected, Installed, In,
     Checked, Probed, Baselined, Installing, Handoff, Writes, Worker, Go, End, Jump, When,
     With, Status, Unlocked, destination, record, faults
<1>5. ThreadInv'
  BY <1>2 DEF EngineInv, ThreadInv, In
<1>6. CheckedInv'
  BY <1>2 DEF CheckedInv, Checked, Probed, Baselined, In
<1>7. VerdictInv'
  BY <1>1, <1>2, BoundAssumption DEF EngineInv, VerdictInv, In, With, Status
<1>8. InstallInv'
  BY <1>1, <1>2, BoundAssumption DEF EngineInv, InstallInv, TypeOK, States, Protected,
     Installed, In, Installing, Handoff, Writes, Worker, Go, End, Jump, When, With, Status,
     Unlocked, destination, record, faults
<1>9. GitInv'
  <2>1. st.git # "checking"
    BY <1>2 DEF EngineInv, GitInv, GitStep, In
  <2>2. CASE flag.path \/ st.phase \notin Installed \/ ~(st.receipt /\ verdict = "ready")
    <3>1. prog' = "none"
      BY <2>2 DEF Handoff, End, Jump
    <3>2. st'.git # "checking"
      <4>1. CASE flag.path \/ st.phase \notin Installed
        <5>1. CASE flag.path
          BY <1>2, <2>1, <5>1
        <5>2. CASE ~flag.path /\ st.phase \notin Installed
          <6>1. \A c : When(st.phase \in Installed, With(st, [path |-> verdict]), c)
                        = With(st, [path |-> verdict])
            BY <5>2 DEF When
          <6>2. st' = With(st, [path |-> verdict])
            BY <1>2, <5>2, <6>1
          <6> QED BY <1>1, <2>1, <6>2 DEF TypeOK, States, With
        <5> QED BY <4>1, <5>1, <5>2
      <4>2. CASE ~flag.path /\ st.phase \in Installed /\ ~(st.receipt /\ verdict = "ready")
        <5>1. st' = With(With(st, [path |-> verdict]),
                         [status |-> "needs_attention", phase |-> "path_compatibility"])
          BY <4>2 DEF Handoff, When, Status
        <5> QED BY <1>1, <2>1, <5>1 DEF TypeOK, States, With
      <4> QED BY <2>2, <4>1, <4>2
    <3> QED BY <3>1, <3>2 DEF GitInv, GitStep, PathStep, In
  <2>3. CASE ~flag.path /\ st.phase \in Installed /\ st.receipt /\ verdict = "ready"
    <3>1. prog' = prog /\ pc' = pc + 1
      BY <2>3 DEF Handoff, Writes, Worker, Go
    <3>2. GitStep' /\ ~PathStep'
      BY <1>2, <3>1 DEF GitStep, PathStep, In
    <3>3. PathStep
      BY <1>2 DEF PathStep, In
    <3>4. ~flag'.git
      BY <1>2, <2>3, <3>3 DEF EngineInv, GitInv
    <3> QED BY <3>2, <3>4 DEF GitInv
  <2> QED BY <2>2, <2>3
<1> QED BY <1>3, <1>4, <1>5, <1>6, <1>7, <1>8, <1>9 DEF EngineInv

LEMMA BeginGitKeeps == ASSUME EngineInv, BeginGit PROVE EngineInv'
<1>1. TypeOK /\ Places(prog, pc)
  BY PlacesTyped DEF EngineInv, TypeOK
<1>2. /\ \/ prog = "finalize" /\ pc = 24
         \/ prog = "paths" /\ pc = 3
      /\ up /\ up' = up /\ ctl' = ctl /\ flag' = flag
      /\ \/ flag.git /\ prog' = "none" /\ pc' = 0 /\ UNCHANGED st
         \/ /\ ~flag.git /\ prog' = prog /\ pc' = pc + 1
            /\ st' = With(st, [status |-> "needs_attention",
                    phase |-> "git_verification", git |-> "checking"])
  <2>1. \/ prog = "finalize" /\ pc = 24
        \/ prog = "paths" /\ pc = 3
    BY <1>1, Labels DEF Labelled, BeginGit
  <2> QED BY <2>1 DEF BeginGit, Writes, Worker, Go, End, Jump, Update
<1>3. TypeOK'
  <2>1. st' \in States /\ dSt' \in States
    BY <1>1, <1>2, WithTyped DEF TypeOK, Protected, Installed, BeginGit, Writes, Worker,
       Update, destination, record, faults, Statuses, Phases
  <2>2. Places(prog', pc')
    BY <1>2 DEF Places
  <2>3. /\ prog' \in Programs /\ pc' \in 0..Len(Script["finalize"])
        /\ prog' # "none" => pc' \in 1..Len(Script[prog'])
    BY <2>2, PlacesTyped
  <2> QED BY <1>1, <1>2, <2>1, <2>3, BoundAssumption DEF TypeOK, BeginGit, Writes, Worker,
       Unlocked, destination, record, faults
<1>4. SavedInv'
  BY <1>1, <1>2, BoundAssumption DEF EngineInv, SavedInv, Sound, Open, TypeOK, States,
     ThreadInv, CheckedInv, VerdictInv, InstallInv, Reconciling, Protected, Installed, In,
     Checked, Probed, Baselined, Installing, BeginGit, Writes, Worker, Go, End, Jump,
     Update, With, Unlocked, destination, record, faults
<1>5. ThreadInv'
  BY <1>1, <1>2, BoundAssumption DEF EngineInv, ThreadInv, In
<1>6. CheckedInv'
  BY <1>2 DEF CheckedInv, Checked, Probed, Baselined, In
<1>7. VerdictInv'
  BY <1>1, <1>2, BoundAssumption DEF EngineInv, VerdictInv, In, With
<1>8. InstallInv'
  BY <1>1, <1>2, BoundAssumption DEF EngineInv, InstallInv, TypeOK, States, Installed, In,
     Installing, BeginGit, Writes, Worker, Go, End, Jump, Update, With, Unlocked,
     destination, record, faults
<1>9. GitInv'
  BY <1>1, <1>2, BoundAssumption DEF EngineInv, GitInv, In, PathStep, GitStep, BeginGit,
     Writes, Worker, Go, End, Jump, Update, With, Unlocked, destination, record, faults
<1> QED BY <1>3, <1>4, <1>5, <1>6, <1>7, <1>8, <1>9 DEF EngineInv

LEMMA ProbeGitKeeps == ASSUME EngineInv, ProbeGit PROVE EngineInv'
<1>1. TypeOK /\ Places(prog, pc)
  BY PlacesTyped DEF EngineInv, TypeOK
<1>2. /\ \/ prog = "finalize" /\ pc = 25
         \/ prog = "paths" /\ pc = 4
      /\ prog' = prog /\ pc' = pc + 1
  <2>1. \/ prog = "finalize" /\ pc = 25
        \/ prog = "paths" /\ pc = 4
    BY <1>1, Labels DEF Labelled, ProbeGit
  <2> QED BY <2>1 DEF ProbeGit, Go
<1>3. TypeOK'
  <2>1. st' \in States /\ dSt' \in States
    BY <1>1, <1>2, WithTyped DEF TypeOK, ProbeGit, Statuses, Phases
  <2>2. Places(prog', pc')
    BY <1>2 DEF Places
  <2>3. /\ prog' \in Programs /\ pc' \in 0..Len(Script["finalize"])
        /\ prog' # "none" => pc' \in 1..Len(Script[prog'])
    BY <2>2, PlacesTyped
  <2> QED BY <1>1, <1>2, <2>1, <2>3, BoundAssumption DEF TypeOK, ProbeGit, Worker, destination,
       record, faults
<1>4. SavedInv'
  BY <1>1, <1>2, BoundAssumption DEF EngineInv, SavedInv, Sound, ProbeGit, Worker,
     destination, record, faults
<1>5. ThreadInv'
  BY <1>1, <1>2, BoundAssumption DEF EngineInv, ThreadInv, In, ProbeGit, Worker,
     destination, record, faults
<1>6. CheckedInv'
  BY <1>1, <1>2, BoundAssumption DEF EngineInv, CheckedInv, In, Checked, Probed, Baselined,
     ProbeGit, Worker, destination, record, faults
<1>7. VerdictInv'
  BY <1>1, <1>2, BoundAssumption DEF EngineInv, VerdictInv, In, ProbeGit, Worker,
     destination, record, faults
<1>8. InstallInv'
  BY <1>1, <1>2, BoundAssumption DEF EngineInv, InstallInv, In, Installing, ProbeGit,
     Worker, destination, record, faults
<1>9. GitInv'
  BY <1>1, <1>2, BoundAssumption DEF EngineInv, GitInv, In, PathStep, GitStep, ProbeGit,
     Worker, destination, record, faults
<1> QED BY <1>3, <1>4, <1>5, <1>6, <1>7, <1>8, <1>9 DEF EngineInv

LEMMA PublishGitKeeps == ASSUME EngineInv, PublishGit PROVE EngineInv'
<1>1. TypeOK /\ Places(prog, pc)
  BY PlacesTyped DEF EngineInv, TypeOK
<1>2. /\ \/ prog = "finalize" /\ pc = 26
         \/ prog = "paths" /\ pc = 5
      /\ prog' = "none" /\ pc' = 0
  <2>1. \/ prog = "finalize" /\ pc = 26
        \/ prog = "paths" /\ pc = 5
    BY <1>1, Labels DEF Labelled, PublishGit
  <2> QED BY <2>1 DEF PublishGit, End, Jump
<1>3. TypeOK'
  <2>1. st' \in States /\ dSt' \in States
    <3>1. verdict \in {"verified", "unverified"}
      BY <1>2 DEF EngineInv, VerdictInv, In
    <3> QED
      BY <1>1, <3>1, WithTyped DEF PublishGit, Update, Writes, Installed, TypeOK, Statuses,
         Phases
  <2>2. Places(prog', pc')
    BY <1>2 DEF Places
  <2>3. /\ prog' \in Programs /\ pc' \in 0..Len(Script["finalize"])
        /\ prog' # "none" => pc' \in 1..Len(Script[prog'])
    BY <2>2, PlacesTyped
  <2> QED BY <1>1, <1>2, <2>1, <2>3, BoundAssumption DEF TypeOK, PublishGit, Writes, Worker,
       Unlocked, destination, record, faults
<1>4. SavedInv'
  BY <1>1, <1>2, BoundAssumption DEF EngineInv, SavedInv, Sound, Open, TypeOK, States,
     ThreadInv, CheckedInv, VerdictInv, InstallInv, Reconciling, Protected, Installed, In,
     Checked, Probed, Baselined, Installing, PublishGit, Writes, Worker, Update, With,
     Unlocked, destination, record, faults
<1>5. ThreadInv'
  BY <1>1, <1>2, BoundAssumption DEF EngineInv, ThreadInv, In, PublishGit, Writes, Worker,
     Update, With, Unlocked, destination, record, faults
<1>6. CheckedInv'
  BY <1>1, <1>2, BoundAssumption DEF EngineInv, CheckedInv, In, Checked, Probed, Baselined,
     PublishGit, Writes, Worker, Update, With, Unlocked, destination, record, faults
<1>7. VerdictInv'
  BY <1>1, <1>2, BoundAssumption DEF EngineInv, VerdictInv, In
<1>8. InstallInv'
  BY <1>1, <1>2, BoundAssumption DEF EngineInv, InstallInv, TypeOK, States, In, Installing,
     PublishGit, Writes, Worker, Update, With, Unlocked, destination, record, faults
<1>9. GitInv'
  <2>1. verdict # "checking" /\ (flag.git => st.git # "checking")
    BY <1>2 DEF EngineInv, VerdictInv, GitInv, GitStep, In
  <2>2. st'.git # "checking"
    BY <1>1, <2>1 DEF PublishGit, Update, With, TypeOK, States
  <2> QED BY <1>2, <2>2 DEF GitInv, PathStep, In
<1> QED BY <1>3, <1>4, <1>5, <1>6, <1>7, <1>8, <1>9 DEF EngineInv

LEMMA LookKeeps == ASSUME EngineInv, Look PROVE EngineInv'
<1>1. TypeOK /\ Places(prog, pc)
  BY PlacesTyped DEF EngineInv, TypeOK
<1>2. /\ prog = "recover" /\ pc = 1
      /\ prog' = prog /\ pc' = pc + 1
  <2>1. prog = "recover" /\ pc = 1
    BY <1>1, Labels DEF Labelled, Look
  <2> QED BY <2>1 DEF Look, Report, Go
<1>3. TypeOK'
  <2>1. st' \in States /\ dSt' \in States
    BY <1>1, <1>2, WithTyped DEF TypeOK, Look, Report, Inspected, Reconciled, destination,
       record, Statuses, Phases
  <2>2. Places(prog', pc')
    BY <1>2 DEF Places
  <2>3. /\ prog' \in Programs /\ pc' \in 0..Len(Script["finalize"])
        /\ prog' # "none" => pc' \in 1..Len(Script[prog'])
    BY <2>2, PlacesTyped
  <2> QED BY <1>1, <1>2, <2>1, <2>3, BoundAssumption DEF TypeOK, Reports, Look, Report, Worker,
       Inspected, Reconciled, destination, record, faults
<1>4. SavedInv'
  BY <1>1, <1>2, BoundAssumption DEF EngineInv, SavedInv, Sound, Look, Report, Worker,
     Inspected, Reconciled, destination, record, faults
<1>5. ThreadInv'
  BY <1>1, <1>2, BoundAssumption DEF EngineInv, ThreadInv, In, Look, Report, Worker,
     Inspected, Reconciled, destination, record, faults
<1>6. CheckedInv'
  BY <1>1, <1>2, BoundAssumption DEF EngineInv, CheckedInv, In, Checked, Probed, Baselined,
     Look, Report, Worker, Inspected, Reconciled, destination, record, faults
<1>7. VerdictInv'
  BY <1>1, <1>2, BoundAssumption DEF EngineInv, VerdictInv, Reconciling, Reports, In, Look,
     Report, Worker, Inspected, Reconciled, destination, record, faults
<1>8. InstallInv'
  BY <1>1, <1>2, BoundAssumption DEF EngineInv, InstallInv, In, Installing, Look, Report,
     Worker, Inspected, Reconciled, destination, record, faults
<1>9. GitInv'
  BY <1>1, <1>2, BoundAssumption DEF EngineInv, GitInv, In, PathStep, GitStep, Look, Report,
     Worker, Inspected, Reconciled, destination, record, faults
<1> QED BY <1>3, <1>4, <1>5, <1>6, <1>7, <1>8, <1>9 DEF EngineInv

LEMMA LookFailsKeeps == ASSUME EngineInv, LookFails PROVE EngineInv'
<1>1. TypeOK /\ Places(prog, pc)
  BY PlacesTyped DEF EngineInv, TypeOK
<1>2. /\ prog = "recover" /\ pc = 1
      /\ prog' = prog /\ pc' = pc + 1
  <2>1. prog = "recover" /\ pc = 1
    BY <1>1, Labels DEF Labelled, LookFails
  <2> QED BY <2>1 DEF LookFails, Report, Go
<1>3. TypeOK'
  <2>1. st' \in States /\ dSt' \in States
    BY <1>1, <1>2, WithTyped DEF TypeOK, LookFails, Report, Statuses, Phases
  <2>2. Places(prog', pc')
    BY <1>2 DEF Places
  <2>3. /\ prog' \in Programs /\ pc' \in 0..Len(Script["finalize"])
        /\ prog' # "none" => pc' \in 1..Len(Script[prog'])
    BY <2>2, PlacesTyped
  <2> QED BY <1>1, <1>2, <2>1, <2>3, BoundAssumption DEF TypeOK, Reports, LookFails, Report,
       Worker, destination, record, faults
<1>4. SavedInv'
  BY <1>1, <1>2, BoundAssumption DEF EngineInv, SavedInv, Sound, LookFails, Report, Worker,
     destination, record, faults
<1>5. ThreadInv'
  BY <1>1, <1>2, BoundAssumption DEF EngineInv, ThreadInv, In, LookFails, Report, Worker,
     destination, record, faults
<1>6. CheckedInv'
  BY <1>1, <1>2, BoundAssumption DEF EngineInv, CheckedInv, In, Checked, Probed, Baselined,
     LookFails, Report, Worker, destination, record, faults
<1>7. VerdictInv'
  BY <1>1, <1>2, BoundAssumption DEF EngineInv, VerdictInv, Reports, In, LookFails, Report,
     Worker, destination, record, faults
<1>8. InstallInv'
  BY <1>1, <1>2, BoundAssumption DEF EngineInv, InstallInv, In, Installing, LookFails,
     Report, Worker, destination, record, faults
<1>9. GitInv'
  BY <1>1, <1>2, BoundAssumption DEF EngineInv, GitInv, In, PathStep, GitStep, LookFails,
     Report, Worker, destination, record, faults
<1> QED BY <1>3, <1>4, <1>5, <1>6, <1>7, <1>8, <1>9 DEF EngineInv

LEMMA SendRestoreKeeps == ASSUME EngineInv, SendRestore PROVE EngineInv'
<1>1. TypeOK /\ Places(prog, pc)
  BY PlacesTyped DEF EngineInv, TypeOK
<1>2. /\ prog = "restore" /\ pc = 1
      /\ prog' = prog /\ pc' = pc + 1
  <2>1. prog = "restore" /\ pc = 1
    BY <1>1, Labels DEF Labelled, SendRestore
  <2> QED BY <2>1 DEF SendRestore, Go
<1>3. TypeOK'
  <2>1. st' = st /\ dSt' = dSt /\ asked' = st.attempt /\ remote' = "restore"
    BY DEF SendRestore
  <2>2. Places(prog', pc')
    BY <1>2 DEF Places
  <2>3. /\ prog' \in Programs /\ pc' \in 0..Len(Script["finalize"])
        /\ prog' # "none" => pc' \in 1..Len(Script[prog'])
    BY <2>2, PlacesTyped
  <2>4. asked' \in 0..txn
    BY <2>1, BoundAssumption DEF EngineInv, SavedInv, Sound, TypeOK, States
  <2> QED BY <1>1, <2>1, <2>3, <2>4 DEF TypeOK, SendRestore, Worker, record, faults
<1>4. SavedInv'
  BY <1>1, <1>2, BoundAssumption DEF EngineInv, SavedInv, Sound, ThreadInv, VerdictInv,
     InstallInv, Reconciling, Protected, In, Installing, SendRestore, Worker, record, faults
<1>5. ThreadInv'
  BY <1>1, <1>2, BoundAssumption DEF EngineInv, ThreadInv, In, SendRestore, Worker, record,
     faults
<1>6. CheckedInv'
  BY <1>1, <1>2, BoundAssumption DEF EngineInv, CheckedInv, In, Checked, Probed, Baselined,
     SendRestore, Worker, record, faults
<1>7. VerdictInv'
  BY <1>1, <1>2, BoundAssumption DEF EngineInv, VerdictInv, In
<1>8. InstallInv'
  BY <1>1, <1>2, BoundAssumption DEF EngineInv, InstallInv, In, Installing, SendRestore,
     Worker, record, faults
<1>9. GitInv'
  BY <1>1, <1>2, BoundAssumption DEF EngineInv, GitInv, In, PathStep, GitStep, SendRestore,
     Worker, record, faults
<1> QED BY <1>3, <1>4, <1>5, <1>6, <1>7, <1>8, <1>9 DEF EngineInv

LEMMA JudgeKeeps == ASSUME EngineInv, Judge PROVE EngineInv'
<1>1. TypeOK /\ Places(prog, pc)
  BY PlacesTyped DEF EngineInv, TypeOK
<1>2. /\ prog = "restore" /\ pc = 3
      /\ prog' = prog /\ pc' = pc + 1
  <2>1. prog = "restore" /\ pc = 3
    BY <1>1, Labels DEF Labelled, Judge
  <2> QED BY <2>1 DEF Judge, Report, Go
<1>3. TypeOK'
  <2>1. st' \in States /\ dSt' \in States
    BY <1>1, <1>2, WithTyped DEF TypeOK, Judge, Report, Reconciled, destination, record,
       Statuses, Phases
  <2>2. Places(prog', pc')
    BY <1>2 DEF Places
  <2>3. /\ prog' \in Programs /\ pc' \in 0..Len(Script["finalize"])
        /\ prog' # "none" => pc' \in 1..Len(Script[prog'])
    BY <2>2, PlacesTyped
  <2> QED
    BY <1>1, <1>2, <2>1, <2>3, BoundAssumption DEF TypeOK, Reports, Judge, Report, Worker,
       Reconciled, destination, record, faults
<1>4. SavedInv'
  BY <1>1, <1>2, BoundAssumption DEF EngineInv, SavedInv, Sound, Judge, Report, Worker,
     Reconciled, destination, record, faults
<1>5. ThreadInv'
  BY <1>1, <1>2, BoundAssumption DEF EngineInv, ThreadInv, In, Judge, Report, Worker,
     Reconciled, destination, record, faults
<1>6. CheckedInv'
  BY <1>1, <1>2, BoundAssumption DEF EngineInv, CheckedInv, In, Checked, Probed, Baselined,
     Judge, Report, Worker, Reconciled, destination, record, faults
<1>7. VerdictInv'
  BY <1>1, <1>2, BoundAssumption DEF EngineInv, VerdictInv, ThreadInv, GitInv, Open,
     Reconciling, Protected, Reports, In, PathStep, GitStep, Judge, Report, Worker,
     Reconciled, destination, record, faults
<1>8. InstallInv'
  BY <1>1, <1>2, BoundAssumption DEF EngineInv, InstallInv, In, Installing, Judge, Report,
     Worker, Reconciled, destination, record, faults
<1>9. GitInv'
  BY <1>1, <1>2, BoundAssumption DEF EngineInv, GitInv, In, PathStep, GitStep, Judge,
     Report, Worker, Reconciled, destination, record, faults
<1> QED BY <1>3, <1>4, <1>5, <1>6, <1>7, <1>8, <1>9 DEF EngineInv

LEMMA RestoreUnconfirmedKeeps == ASSUME EngineInv, RestoreUnconfirmed PROVE EngineInv'
<1>1. TypeOK /\ Places(prog, pc)
  BY PlacesTyped DEF EngineInv, TypeOK
<1>2. prog = "restore" /\ pc \in 1..3 /\ prog' = "restore" /\ pc' = 4
  <2>1. prog = "restore" /\ pc # 4
    BY <1>1, Labels DEF Labelled, RestoreUnconfirmed
  <2> QED BY <1>1, <2>1, PlacesTyped DEF RestoreUnconfirmed, Places
<1>3. TypeOK'
  <2>1. st' \in States /\ dSt' \in States
    BY <1>1, <1>2, WithTyped DEF TypeOK, RestoreUnconfirmed, Statuses, Phases
  <2>2. Places(prog', pc')
    BY <1>2 DEF Places
  <2>3. /\ prog' \in Programs /\ pc' \in 0..Len(Script["finalize"])
        /\ prog' # "none" => pc' \in 1..Len(Script[prog'])
    BY <2>2, PlacesTyped
  <2> QED BY <1>1, <1>2, <2>1, <2>3, BoundAssumption DEF TypeOK, Reports, RestoreUnconfirmed,
       Worker, Script, destination, record, faults
<1>4. SavedInv'
  BY <1>1, <1>2, BoundAssumption DEF EngineInv, SavedInv, Sound, RestoreUnconfirmed, Worker,
     Script, destination, record, faults
<1>5. ThreadInv'
  BY <1>1, <1>2, BoundAssumption DEF EngineInv, ThreadInv, In, RestoreUnconfirmed, Worker,
     Script, destination, record, faults
<1>6. CheckedInv'
  BY <1>1, <1>2, BoundAssumption DEF EngineInv, CheckedInv, In, Checked, Probed, Baselined,
     RestoreUnconfirmed, Worker, Script, destination, record, faults
<1>7. VerdictInv'
  BY <1>1, <1>2, BoundAssumption DEF EngineInv, VerdictInv, Reports, In, RestoreUnconfirmed,
     Worker, Script, destination, record, faults
<1>8. InstallInv'
  BY <1>1, <1>2, BoundAssumption DEF EngineInv, InstallInv, In, Installing,
     RestoreUnconfirmed, Worker, Script, destination, record, faults
<1>9. GitInv'
  BY <1>1, <1>2, BoundAssumption DEF EngineInv, GitInv, In, PathStep, GitStep,
     RestoreUnconfirmed, Worker, Script, destination, record, faults
<1> QED BY <1>3, <1>4, <1>5, <1>6, <1>7, <1>8, <1>9 DEF EngineInv

LEMMA PublishKeeps == ASSUME EngineInv, Publish PROVE EngineInv'
<1>1. TypeOK /\ Places(prog, pc)
  BY PlacesTyped DEF EngineInv, TypeOK
<1>2. /\ \/ prog = "recover" /\ pc = 2
         \/ prog = "restore" /\ pc = 4
      /\ up /\ ctl = "none" /\ prog' = "none" /\ pc' = 0
      /\ UNCHANGED <<dSt, verdict, flag, requested, ctl, up, closing, destination, faults>>
  BY <1>1, Labels DEF Publish, Labelled, Writes, Worker, End, Jump, Unlocked
<1>3. verdict \in Reports
  BY <1>2 DEF EngineInv, VerdictInv, In
<1>4. \/ st' = st
      \/ /\ st' \in States /\ st'.git = st.git
         /\ st'.attempt = st.attempt /\ st'.recovery = verdict
         /\ st'.found = IF verdict = "backup_verified" THEN journal ELSE 0
         /\ \/ /\ ~Reconciling /\ st'.resolved = st.resolved /\ st'.receipt = st.receipt
               /\ st'.status = st.status /\ st'.phase = st.phase
               /\ st'.staging_complete = st.staging_complete
            \/ /\ Reconciling /\ verdict = "restore_verified"
               /\ st'.resolved /\ ~st'.receipt /\ ~st'.staging_complete
               /\ st'.status = "interrupted" /\ st'.phase = "restored"
            \/ /\ Reconciling /\ verdict # "restore_verified"
               /\ ~st'.resolved /\ ~st'.receipt /\ ~st'.staging_complete
               /\ st'.status = "failed" /\ st'.phase = "recovery_required"
  <2> DEFINE ok == verdict = "restore_verified"
             f == IF verdict = "backup_verified" THEN journal ELSE 0
             r == With(st, [recovery |-> verdict, found |-> f])
             c == [resolved |-> ok, staging_complete |-> FALSE, receipt |-> FALSE,
                   status |-> IF ok THEN "interrupted" ELSE "failed",
                   phase |-> IF ok THEN "restored" ELSE "recovery_required"]
  <2>1. f \in 0..MaxInstalls /\ st \in States
    BY <1>1, BoundAssumption DEF TypeOK
  <2> HIDE DEF f
  <2>2. r \in States
    BY <1>3, <2>1, WithTyped DEF Statuses, Phases
  <2>3. /\ r.git = st.git /\ r.attempt = st.attempt /\ r.recovery = verdict
        /\ r.found = f
        /\ r.resolved = st.resolved /\ r.receipt = st.receipt /\ r.status = st.status
        /\ r.phase = st.phase /\ r.staging_complete = st.staging_complete
    BY <2>1 DEF With, States
  <2>4. st' = st \/ (~Reconciling /\ st' = r) \/ (Reconciling /\ st' = With(r, c))
    BY DEF Publish, When, f
  <2> HIDE DEF r
  <2>5. With(r, c) \in States
    BY <2>2, WithTyped DEF Protected, Statuses, Phases
  <2>6. LET t == With(r, c)
        IN /\ t.git = r.git /\ t.attempt = r.attempt /\ t.recovery = r.recovery
           /\ t.found = r.found /\ ~t.receipt /\ ~t.staging_complete
           /\ t.status = (IF ok THEN "interrupted" ELSE "failed")
           /\ t.phase = (IF ok THEN "restored" ELSE "recovery_required")
    BY <2>2 DEF With, States
  <2>7. With(r, c).resolved <=> ok
    BY <2>2 DEF With, States
  <2> HIDE DEF c
  <2> QED BY <2>2, <2>3, <2>4, <2>5, <2>6, <2>7 DEF f
<1>5. TypeOK'
  <2>1. st' \in States /\ dSt' \in States
    BY <1>1, <1>2, <1>3, <1>4, WithTyped DEF TypeOK, Statuses, Phases
  <2>2. Places(prog', pc')
    BY <1>2 DEF Places
  <2>3. /\ prog' \in Programs /\ pc' \in 0..Len(Script["finalize"])
        /\ prog' # "none" => pc' \in 1..Len(Script[prog'])
    BY <2>2, PlacesTyped
  <2> QED
    BY <1>1, <1>2, <1>3, <1>4, <2>1, <2>3, BoundAssumption DEF TypeOK, destination, record,
       faults
<1>6. SavedInv'
  BY <1>1, <1>2, <1>3, <1>4, BoundAssumption DEF EngineInv, SavedInv, Sound, Open, TypeOK,
     VerdictInv, InstallInv, Reconciling, Protected, In, Installing, destination, record,
     faults
<1>7. ThreadInv'
  BY <1>1, <1>2, <1>3, <1>4, BoundAssumption DEF EngineInv, ThreadInv, In
<1>8. CheckedInv'
  BY <1>1, <1>2, <1>3, <1>4, BoundAssumption DEF EngineInv, CheckedInv, In, Checked, Probed,
     Baselined, destination, record, faults
<1>9. VerdictInv'
  BY <1>1, <1>2, <1>3, <1>4, BoundAssumption DEF EngineInv, VerdictInv, In, faults
<1>10. InstallInv'
  BY <1>1, <1>2, <1>3, <1>4, BoundAssumption DEF EngineInv, InstallInv, In, Installing,
     destination, record, faults
<1>11. GitInv'
  BY <1>1, <1>2, <1>3, <1>4, BoundAssumption DEF EngineInv, GitInv, In, PathStep, GitStep,
     destination, record, faults
<1> QED BY <1>5, <1>6, <1>7, <1>8, <1>9, <1>10, <1>11 DEF EngineInv

LEMMA StageEndsKeeps == ASSUME EngineInv, StageEnds PROVE EngineInv'
<1>1. TypeOK /\ Places(prog, pc)
  BY PlacesTyped DEF EngineInv, TypeOK
<1>2. Returned(TRUE)
  BY <1>1, EndsFacts DEF StageEnds
<1>3. TypeOK'
  <2>1. st' \in States /\ dSt' \in States
    BY <1>1, <1>2, WithTyped DEF TypeOK, StageEnds, Destination, faults, Statuses, Phases
  <2>2. Places(prog', pc')
    BY <1>1, <1>2 DEF Places, Returned, In
  <2>3. /\ prog' \in Programs /\ pc' \in 0..Len(Script["finalize"])
        /\ prog' # "none" => pc' \in 1..Len(Script[prog'])
    BY <2>2, PlacesTyped
  <2> QED
    BY <1>1, <1>2, <2>1, <2>3, BoundAssumption DEF TypeOK, StageEnds, Destination, record,
       Returned, faults
<1>4. SavedInv'
  BY <1>1, <1>2, BoundAssumption DEF EngineInv, SavedInv, Sound, StageEnds, Destination,
     record, Returned, faults
<1>5. ThreadInv'
  BY <1>1, <1>2, BoundAssumption DEF EngineInv, ThreadInv, In, StageEnds, Destination,
     record, Returned, faults
<1>6. CheckedInv'
  BY <1>1, <1>2, BoundAssumption DEF EngineInv, CheckedInv, In, Checked, Probed, Baselined,
     StageEnds, Destination, record, Returned, faults
<1>7. VerdictInv'
  BY <1>1, <1>2, BoundAssumption DEF EngineInv, VerdictInv, Reconciling, In, StageEnds,
     Destination, record, Returned, faults
<1>8. InstallInv'
  BY <1>1, <1>2, BoundAssumption DEF EngineInv, InstallInv, In, Installing, StageEnds,
     Destination, record, Returned, faults
<1>9. GitInv'
  BY <1>1, <1>2, BoundAssumption DEF EngineInv, GitInv, In, PathStep, GitStep, StageEnds,
     Destination, record, Returned, faults
<1> QED BY <1>3, <1>4, <1>5, <1>6, <1>7, <1>8, <1>9 DEF EngineInv

\* The destination: what becomes of an installation and a restoration.
LEMMA InstallRefusedKeeps == ASSUME EngineInv, InstallRefused PROVE EngineInv'
<1>1. TypeOK /\ Places(prog, pc)
  BY PlacesTyped DEF EngineInv, TypeOK
<1>2. Returned(FALSE)
  BY <1>1, EndsFacts DEF InstallRefused
<1>3. TypeOK'
  <2>1. st' \in States /\ dSt' \in States
    BY <1>1, <1>2, WithTyped DEF TypeOK, InstallRefused, Destination, faults, Statuses, Phases
  <2>2. Places(prog', pc')
    BY <1>1, <1>2 DEF Places, Returned, In
  <2>3. /\ prog' \in Programs /\ pc' \in 0..Len(Script["finalize"])
        /\ prog' # "none" => pc' \in 1..Len(Script[prog'])
    BY <2>2, PlacesTyped
  <2> QED
    BY <1>1, <1>2, <2>1, <2>3, BoundAssumption DEF TypeOK, Reports, InstallRefused,
       Destination, record, Returned, faults
<1>4. SavedInv'
  BY <1>1, <1>2, BoundAssumption DEF EngineInv, SavedInv, Sound, InstallRefused,
     Destination, record, Returned, faults
<1>5. ThreadInv'
  BY <1>1, <1>2, BoundAssumption DEF EngineInv, ThreadInv, In, InstallRefused, Destination,
     record, Returned, faults
<1>6. CheckedInv'
  BY <1>1, <1>2, BoundAssumption DEF EngineInv, CheckedInv, In, Checked, Probed, Baselined,
     InstallRefused, Destination, record, Returned, faults
<1>7. VerdictInv'
  BY <1>1, <1>2, BoundAssumption DEF EngineInv, VerdictInv, Reconciling, Reports, In,
     InstallRefused, Destination, record, Returned, faults
<1>8. InstallInv'
  BY <1>1, <1>2, BoundAssumption DEF EngineInv, InstallInv, In, Installing, InstallRefused,
     Destination, record, Returned, faults
<1>9. GitInv'
  BY <1>1, <1>2, BoundAssumption DEF EngineInv, GitInv, In, PathStep, GitStep,
     InstallRefused, Destination, record, Returned, faults
<1> QED BY <1>3, <1>4, <1>5, <1>6, <1>7, <1>8, <1>9 DEF EngineInv

LEMMA InstallBeginsKeeps == ASSUME EngineInv, InstallBegins PROVE EngineInv'
<1>1. TypeOK /\ Places(prog, pc)
  BY PlacesTyped DEF EngineInv, TypeOK
<1>2. prog' = prog /\ pc' = pc
  BY DEF InstallBegins, Silent
<1>3. TypeOK'
  <2>1. st' \in States /\ dSt' \in States
    BY <1>1, <1>2, WithTyped DEF TypeOK, InstallBegins, Destination, Statuses, Phases
  <2>2. Places(prog', pc')
    BY <1>1, <1>2 DEF Places
  <2>3. /\ prog' \in Programs /\ pc' \in 0..Len(Script["finalize"])
        /\ prog' # "none" => pc' \in 1..Len(Script[prog'])
    BY <2>2, PlacesTyped
  <2>4. /\ txn' = txn + 1 /\ journal' = txn + 1 /\ restored' = restored /\ asked' = asked
        /\ txn \in 0..MaxInstalls /\ txn < MaxInstalls /\ asked \in 0..txn
        /\ restored \subseteq 1..txn
    BY <1>1 DEF InstallBegins, TypeOK
  <2>5. /\ txn' \in 0..MaxInstalls /\ journal' \in 0..txn' /\ asked' \in 0..txn'
        /\ restored' \subseteq 1..txn'
    BY <2>4, BoundAssumption
  <2>6. base' \in Contents /\ content' \in Contents
    BY <1>1 DEF InstallBegins, TypeOK, Contents
  <2> QED
    BY <1>1, <1>2, <2>1, <2>3, <2>4, <2>5, <2>6, BoundAssumption DEF TypeOK, InstallBegins,
       Destination, Silent, faults
<1>4. SavedInv'
  BY <1>1, <1>2, BoundAssumption DEF EngineInv, SavedInv, Sound, TypeOK, States,
     InstallBegins, Destination, faults
<1>5. ThreadInv'
  BY <1>1, <1>2, BoundAssumption DEF EngineInv, ThreadInv, In, InstallBegins, Destination,
     faults
<1>6. CheckedInv'
  BY <1>1, <1>2, BoundAssumption DEF EngineInv, CheckedInv, In, Checked, Probed, Baselined,
     InstallBegins, Destination, faults
<1>7. VerdictInv'
  <2>1. UNCHANGED <<prog, pc, verdict, st>> /\ remote # "none" /\ remote' # "none"
        /\ journal = 0 /\ journal' # 0
    BY <1>1 DEF TypeOK, InstallBegins, Silent, Destination
  <2> QED BY <2>1 DEF EngineInv, VerdictInv, In, Reconciling
<1>8. InstallInv'
  BY <1>1, <1>2, BoundAssumption DEF EngineInv, InstallInv, In, Installing, InstallBegins,
     Destination, faults
<1>9. GitInv'
  BY <1>1, <1>2, BoundAssumption DEF EngineInv, GitInv, In, PathStep, GitStep,
     InstallBegins, Destination, faults
<1> QED BY <1>3, <1>4, <1>5, <1>6, <1>7, <1>8, <1>9 DEF EngineInv

LEMMA InstallDoneKeeps == ASSUME EngineInv, InstallDone PROVE EngineInv'
<1>1. TypeOK /\ Places(prog, pc)
  BY PlacesTyped DEF EngineInv, TypeOK
<1>2. Returned(TRUE)
  BY <1>1, EndsFacts DEF InstallDone
<1>3. TypeOK'
  <2>1. st' \in States /\ dSt' \in States
    BY <1>1, <1>2, WithTyped DEF TypeOK, InstallDone, Destination, faults, Statuses, Phases
  <2>2. Places(prog', pc')
    BY <1>1, <1>2 DEF Places, Returned, In
  <2>3. /\ prog' \in Programs /\ pc' \in 0..Len(Script["finalize"])
        /\ prog' # "none" => pc' \in 1..Len(Script[prog'])
    BY <2>2, PlacesTyped
  <2> QED
    BY <1>1, <1>2, <2>1, <2>3, BoundAssumption DEF TypeOK, Contents, InstallDone,
       Destination, Returned, faults
<1>4. SavedInv'
  BY <1>1, <1>2, BoundAssumption DEF EngineInv, SavedInv, Sound, InstallDone, Destination,
     Returned, faults
<1>5. ThreadInv'
  BY <1>1, <1>2, BoundAssumption DEF EngineInv, ThreadInv, In, InstallDone, Destination,
     Returned, faults
<1>6. CheckedInv'
  BY <1>1, <1>2, BoundAssumption DEF EngineInv, CheckedInv, In, Checked, Probed, Baselined,
     InstallDone, Destination, Returned, faults
<1>7. VerdictInv'
  BY <1>1, <1>2, BoundAssumption DEF EngineInv, VerdictInv, Reconciling, In, InstallDone,
     Destination, Returned, faults
<1>8. InstallInv'
  BY <1>1, <1>2, BoundAssumption DEF EngineInv, InstallInv, In, Installing, InstallDone,
     Destination, Returned, faults
<1>9. GitInv'
  BY <1>1, <1>2, BoundAssumption DEF EngineInv, GitInv, In, PathStep, GitStep, InstallDone,
     Destination, Returned, faults
<1> QED BY <1>3, <1>4, <1>5, <1>6, <1>7, <1>8, <1>9 DEF EngineInv

LEMMA InstallRollsBackKeeps == ASSUME EngineInv, InstallRollsBack PROVE EngineInv'
<1>1. TypeOK /\ Places(prog, pc)
  BY PlacesTyped DEF EngineInv, TypeOK
<1>2. Returned(FALSE)
  BY <1>1, EndsFacts DEF InstallRollsBack
<1>3. TypeOK'
  <2>1. st' \in States /\ dSt' \in States
    BY <1>1, <1>2, WithTyped DEF TypeOK, InstallRollsBack, Destination, faults, Statuses,
       Phases
  <2>2. Places(prog', pc')
    BY <1>1, <1>2 DEF Places, Returned, In
  <2>3. /\ prog' \in Programs /\ pc' \in 0..Len(Script["finalize"])
        /\ prog' # "none" => pc' \in 1..Len(Script[prog'])
    BY <2>2, PlacesTyped
  <2> QED
    BY <1>1, <1>2, <2>1, <2>3, BoundAssumption DEF TypeOK, Reports, InstallRollsBack,
       Destination, Returned, faults
<1>4. SavedInv'
  BY <1>1, <1>2, BoundAssumption DEF EngineInv, SavedInv, Sound, InstallRollsBack,
     Destination, Returned, faults
<1>5. ThreadInv'
  BY <1>1, <1>2, BoundAssumption DEF EngineInv, ThreadInv, In, InstallRollsBack,
     Destination, Returned, faults
<1>6. CheckedInv'
  BY <1>1, <1>2, BoundAssumption DEF EngineInv, CheckedInv, In, Checked, Probed, Baselined,
     InstallRollsBack, Destination, Returned, faults
<1>7. VerdictInv'
  BY <1>1, <1>2, BoundAssumption DEF EngineInv, VerdictInv, Reconciling, Reports, In,
     InstallRollsBack, Destination, Returned, faults
<1>8. InstallInv'
  BY <1>1, <1>2, BoundAssumption DEF EngineInv, InstallInv, In, Installing,
     InstallRollsBack, Destination, Returned, faults
<1>9. GitInv'
  BY <1>1, <1>2, BoundAssumption DEF EngineInv, GitInv, In, PathStep, GitStep,
     InstallRollsBack, Destination, Returned, faults
<1> QED BY <1>3, <1>4, <1>5, <1>6, <1>7, <1>8, <1>9 DEF EngineInv

LEMMA InstallDiesKeeps == ASSUME EngineInv, InstallDies PROVE EngineInv'
<1>1. TypeOK /\ Places(prog, pc)
  BY PlacesTyped DEF EngineInv, TypeOK
<1>2. Returned(FALSE)
  BY <1>1, EndsFacts DEF InstallDies
<1>3. TypeOK'
  <2>1. st' \in States /\ dSt' \in States
    BY <1>1, <1>2, WithTyped DEF TypeOK, InstallDies, Destination, faults, Statuses, Phases
  <2>2. Places(prog', pc')
    BY <1>1, <1>2 DEF Places, Returned, In
  <2>3. /\ prog' \in Programs /\ pc' \in 0..Len(Script["finalize"])
        /\ prog' # "none" => pc' \in 1..Len(Script[prog'])
    BY <2>2, PlacesTyped
  <2> QED
    BY <1>1, <1>2, <2>1, <2>3, BoundAssumption DEF TypeOK, Reports, Contents, InstallDies,
       Destination, Returned, faults
<1>4. SavedInv'
  BY <1>1, <1>2, BoundAssumption DEF EngineInv, SavedInv, Sound, InstallDies, Destination,
     Returned, faults
<1>5. ThreadInv'
  BY <1>1, <1>2, BoundAssumption DEF EngineInv, ThreadInv, In, InstallDies, Destination,
     Returned, faults
<1>6. CheckedInv'
  BY <1>1, <1>2, BoundAssumption DEF EngineInv, CheckedInv, In, Checked, Probed, Baselined,
     InstallDies, Destination, Returned, faults
<1>7. VerdictInv'
  BY <1>1, <1>2, BoundAssumption DEF EngineInv, VerdictInv, Reconciling, Reports, In,
     InstallDies, Destination, Returned, faults
<1>8. InstallInv'
  BY <1>1, <1>2, BoundAssumption DEF EngineInv, InstallInv, In, Installing, InstallDies,
     Destination, Returned, faults
<1>9. GitInv'
  BY <1>1, <1>2, BoundAssumption DEF EngineInv, GitInv, In, PathStep, GitStep, InstallDies,
     Destination, Returned, faults
<1> QED BY <1>3, <1>4, <1>5, <1>6, <1>7, <1>8, <1>9 DEF EngineInv

LEMMA RestoreBeginsKeeps == ASSUME EngineInv, RestoreBegins PROVE EngineInv'
<1>1. TypeOK /\ Places(prog, pc)
  BY PlacesTyped DEF EngineInv, TypeOK
<1>2. prog' = prog /\ pc' = pc
  BY DEF RestoreBegins, Silent
<1>3. TypeOK'
  <2>1. st' \in States /\ dSt' \in States
    BY <1>1, <1>2, WithTyped DEF TypeOK, RestoreBegins, Destination, Statuses, Phases
  <2>2. Places(prog', pc')
    BY <1>1, <1>2 DEF Places
  <2>3. /\ prog' \in Programs /\ pc' \in 0..Len(Script["finalize"])
        /\ prog' # "none" => pc' \in 1..Len(Script[prog'])
    BY <2>2, PlacesTyped
  <2>4. restored' = restored /\ txn' = txn /\ content' \in Contents
    BY <1>1 DEF RestoreBegins, TypeOK, Contents
  <2> QED
    BY <1>1, <1>2, <2>1, <2>3, <2>4, BoundAssumption DEF TypeOK, RestoreBegins, Destination,
       Silent, faults
<1>4. SavedInv'
  BY <1>1, <1>2, BoundAssumption DEF EngineInv, SavedInv, Sound, RestoreBegins, Destination,
     faults
<1>5. ThreadInv'
  BY <1>1, <1>2, BoundAssumption DEF EngineInv, ThreadInv, In, RestoreBegins, Destination,
     faults
<1>6. CheckedInv'
  BY <1>1, <1>2, BoundAssumption DEF EngineInv, CheckedInv, In, Checked, Probed, Baselined,
     RestoreBegins, Destination, faults
<1>7. VerdictInv'
  <2>1. UNCHANGED <<prog, pc, verdict, st>> /\ remote # "none" /\ remote' # "none"
    BY DEF RestoreBegins, Silent, Destination
  <2> QED BY <2>1 DEF EngineInv, VerdictInv, In, Reconciling
<1>8. InstallInv'
  BY <1>1, <1>2, BoundAssumption DEF EngineInv, InstallInv, In, Installing, RestoreBegins,
     Destination, faults
<1>9. GitInv'
  BY <1>1, <1>2, BoundAssumption DEF EngineInv, GitInv, In, PathStep, GitStep,
     RestoreBegins, Destination, faults
<1> QED BY <1>3, <1>4, <1>5, <1>6, <1>7, <1>8, <1>9 DEF EngineInv

LEMMA RestoreMovesKeeps == ASSUME EngineInv, RestoreMoves PROVE EngineInv'
<1>1. TypeOK /\ Places(prog, pc)
  BY PlacesTyped DEF EngineInv, TypeOK
<1>2. prog' = prog /\ pc' = pc
  BY DEF RestoreMoves, Silent
<1>3. TypeOK'
  <2>1. st' \in States /\ dSt' \in States
    BY <1>1, <1>2, WithTyped DEF TypeOK, RestoreMoves, Destination, Statuses, Phases
  <2>2. Places(prog', pc')
    BY <1>1, <1>2 DEF Places
  <2>3. /\ prog' \in Programs /\ pc' \in 0..Len(Script["finalize"])
        /\ prog' # "none" => pc' \in 1..Len(Script[prog'])
    BY <2>2, PlacesTyped
  <2>4. asked \in 1..txn
    BY <1>1, BoundAssumption DEF EngineInv, SavedInv, Sound, Open, RestoreMoves, TypeOK
  <2>5. restored' \subseteq 1..txn' /\ content' \in Contents
    BY <1>1, <2>4 DEF RestoreMoves, TypeOK
  <2> QED
    BY <1>1, <1>2, <2>1, <2>3, <2>4, <2>5, BoundAssumption DEF TypeOK, RestoreMoves,
       Destination, Silent, faults
<1>4. SavedInv'
  BY <1>1, <1>2, BoundAssumption DEF EngineInv, SavedInv, Sound, RestoreMoves, Destination,
     faults
<1>5. ThreadInv'
  BY <1>1, <1>2, BoundAssumption DEF EngineInv, ThreadInv, In, RestoreMoves, Destination,
     faults
<1>6. CheckedInv'
  BY <1>1, <1>2, BoundAssumption DEF EngineInv, CheckedInv, In, Checked, Probed, Baselined,
     RestoreMoves, Destination, faults
<1>7. VerdictInv'
  <2>1. UNCHANGED <<prog, pc, verdict, st>> /\ remote # "none" /\ remote' # "none"
    BY DEF RestoreMoves, Silent, Destination
  <2> QED BY <2>1 DEF EngineInv, VerdictInv, In, Reconciling
<1>8. InstallInv'
  BY <1>1, <1>2, BoundAssumption DEF EngineInv, InstallInv, In, Installing, RestoreMoves,
     Destination, faults
<1>9. GitInv'
  BY <1>1, <1>2, BoundAssumption DEF EngineInv, GitInv, In, PathStep, GitStep, RestoreMoves,
     Destination, faults
<1> QED BY <1>3, <1>4, <1>5, <1>6, <1>7, <1>8, <1>9 DEF EngineInv

LEMMA RestoreClearsKeeps == ASSUME EngineInv, RestoreClears PROVE EngineInv'
<1>1. TypeOK /\ Places(prog, pc)
  BY PlacesTyped DEF EngineInv, TypeOK
<1>2. Returned(TRUE)
  BY <1>1, EndsFacts DEF RestoreClears
<1>3. TypeOK'
  <2>1. st' \in States /\ dSt' \in States
    BY <1>1, <1>2, WithTyped DEF TypeOK, RestoreClears, Destination, faults, Statuses, Phases
  <2>2. Places(prog', pc')
    BY <1>1, <1>2 DEF Places, Returned, In
  <2>3. /\ prog' \in Programs /\ pc' \in 0..Len(Script["finalize"])
        /\ prog' # "none" => pc' \in 1..Len(Script[prog'])
    BY <2>2, PlacesTyped
  <2> QED
    BY <1>1, <1>2, <2>1, <2>3, BoundAssumption DEF TypeOK, RestoreClears, Destination,
       Returned, faults
<1>4. SavedInv'
  BY <1>1, <1>2, BoundAssumption DEF EngineInv, SavedInv, Sound, RestoreClears, Destination,
     Returned, faults
<1>5. ThreadInv'
  BY <1>1, <1>2, BoundAssumption DEF EngineInv, ThreadInv, In, RestoreClears, Destination,
     Returned, faults
<1>6. CheckedInv'
  <2>1. NotFurther
    BY <1>1, <1>2 DEF NotFurther, Checked, Probed, Baselined, In, Returned
  <2> QED BY <2>1, CheckedStays DEF EngineInv, RestoreClears, Destination
<1>7. VerdictInv'
  BY <1>1, <1>2, BoundAssumption DEF EngineInv, VerdictInv, Reconciling, In, RestoreClears,
     Destination, Returned, faults
<1>8. InstallInv'
  BY <1>1, <1>2, BoundAssumption DEF EngineInv, InstallInv, In, Installing, RestoreClears,
     Destination, Returned, faults
<1>9. GitInv'
  BY <1>1, <1>2, BoundAssumption DEF EngineInv, GitInv, In, PathStep, GitStep,
     RestoreClears, Destination, Returned, faults
<1> QED BY <1>3, <1>4, <1>5, <1>6, <1>7, <1>8, <1>9 DEF EngineInv

LEMMA RestoreDiesKeeps == ASSUME EngineInv, RestoreDies PROVE EngineInv'
<1>1. TypeOK /\ Places(prog, pc)
  BY PlacesTyped DEF EngineInv, TypeOK
<1>2. Returned(FALSE)
  BY <1>1, EndsFacts DEF RestoreDies
<1>3. TypeOK'
  <2>1. st' \in States /\ dSt' \in States
    BY <1>1, <1>2, WithTyped DEF TypeOK, RestoreDies, Destination, faults, Statuses, Phases
  <2>2. Places(prog', pc')
    BY <1>1, <1>2 DEF Places, Returned, In
  <2>3. /\ prog' \in Programs /\ pc' \in 0..Len(Script["finalize"])
        /\ prog' # "none" => pc' \in 1..Len(Script[prog'])
    BY <2>2, PlacesTyped
  <2> QED
    BY <1>1, <1>2, <2>1, <2>3, BoundAssumption DEF TypeOK, Reports, RestoreDies,
       Destination, record, Returned, faults
<1>4. SavedInv'
  BY <1>1, <1>2, BoundAssumption DEF EngineInv, SavedInv, Sound, RestoreDies, Destination,
     record, Returned, faults
<1>5. ThreadInv'
  BY <1>1, <1>2, BoundAssumption DEF EngineInv, ThreadInv, In, RestoreDies, Destination,
     record, Returned, faults
<1>6. CheckedInv'
  BY <1>1, <1>2, BoundAssumption DEF EngineInv, CheckedInv, In, Checked, Probed, Baselined,
     RestoreDies, Destination, record, Returned, faults
<1>7. VerdictInv'
  BY <1>1, <1>2, BoundAssumption DEF EngineInv, VerdictInv, Reconciling, Reports, In,
     RestoreDies, Destination, record, Returned, faults
<1>8. InstallInv'
  BY <1>1, <1>2, BoundAssumption DEF EngineInv, InstallInv, In, Installing, RestoreDies,
     Destination, record, Returned, faults
<1>9. GitInv'
  BY <1>1, <1>2, BoundAssumption DEF EngineInv, GitInv, In, PathStep, GitStep, RestoreDies,
     Destination, record, Returned, faults
<1> QED BY <1>3, <1>4, <1>5, <1>6, <1>7, <1>8, <1>9 DEF EngineInv

\* The person edits, the process ends, and the power goes.
LEMMA EditKeeps == ASSUME EngineInv, Edit PROVE EngineInv'
<1>1. TypeOK /\ Places(prog, pc)
  BY PlacesTyped DEF EngineInv, TypeOK
<1>2. prog' = prog /\ pc' = pc
  BY DEF Edit, local
<1>3. TypeOK'
  <2>1. st' \in States /\ dSt' \in States
    BY <1>1, <1>2, WithTyped DEF TypeOK, Edit, local, Statuses, Phases
  <2>2. Places(prog', pc')
    BY <1>1, <1>2 DEF Places
  <2>3. /\ prog' \in Programs /\ pc' \in 0..Len(Script["finalize"])
        /\ prog' # "none" => pc' \in 1..Len(Script[prog'])
    BY <2>2, PlacesTyped
  <2> QED BY <1>1, <1>2, <2>1, <2>3, BoundAssumption DEF TypeOK, Contents, Edit, local
<1>4. SavedInv'
  BY <1>1, <1>2, BoundAssumption DEF EngineInv, SavedInv, Sound, Edit, Within, local
<1>5. ThreadInv'
  BY <1>1, <1>2, BoundAssumption DEF EngineInv, ThreadInv, In, Edit, Within, local
<1>6. CheckedInv'
  BY <1>1, <1>2, BoundAssumption DEF EngineInv, CheckedInv, In, Checked, Probed, Baselined,
     Edit, Within, local
<1>7. VerdictInv'
  BY <1>1, <1>2, BoundAssumption DEF EngineInv, VerdictInv, Reconciling, In, Edit, Within,
     local
<1>8. InstallInv'
  BY <1>1, <1>2, BoundAssumption DEF EngineInv, InstallInv, In, Installing, Edit, Within, local
<1>9. GitInv'
  BY <1>1, <1>2, BoundAssumption DEF EngineInv, GitInv, In, PathStep, GitStep, Edit, Within,
     local
<1> QED BY <1>3, <1>4, <1>5, <1>6, <1>7, <1>8, <1>9 DEF EngineInv

LEMMA ExitKeeps == ASSUME EngineInv, Exit PROVE EngineInv'
<1>1. TypeOK /\ Places(prog, pc)
  BY PlacesTyped DEF EngineInv, TypeOK
<1>2. prog' = "none" /\ pc' = 0
  BY DEF Exit, Ended, End, Jump
<1>3. TypeOK'
  <2>1. st' \in States /\ dSt' \in States
    BY <1>1, <1>2, WithTyped DEF TypeOK, Exit, Statuses, Phases
  <2>2. Places(prog', pc')
    BY <1>2 DEF Places
  <2>3. /\ prog' \in Programs /\ pc' \in 0..Len(Script["finalize"])
        /\ prog' # "none" => pc' \in 1..Len(Script[prog'])
    BY <2>2, PlacesTyped
  <2>4. flag' \in Flags
    BY <1>1 DEF TypeOK, Flags, Exit, Ended
  <2> QED
    BY <1>1, <1>2, <2>1, <2>3, <2>4, BoundAssumption DEF TypeOK, Reports, Contents,
       Stopping, Exit, Ended, destination, record
<1>4. SavedInv'
  BY <1>1, <1>2, BoundAssumption DEF EngineInv, SavedInv, Sound, Exit, Ended, destination,
     record
<1>5. ThreadInv'
  BY <1>1, <1>2, BoundAssumption DEF EngineInv, ThreadInv, In, Exit, Ended, destination, record
<1>6. CheckedInv'
  BY <1>1, <1>2, BoundAssumption DEF EngineInv, CheckedInv, In, Checked, Probed, Baselined,
     Exit, Ended, destination, record
<1>7. VerdictInv'
  BY <1>1, <1>2, BoundAssumption DEF EngineInv, VerdictInv, In
<1>8. InstallInv'
  BY <1>1, <1>2, BoundAssumption DEF EngineInv, InstallInv, In, Installing, Exit, Ended,
     destination, record
<1>9. GitInv'
  BY <1>1, <1>2, BoundAssumption DEF EngineInv, GitInv, In, PathStep, GitStep, Exit, Ended,
     destination, record
<1> QED BY <1>3, <1>4, <1>5, <1>6, <1>7, <1>8, <1>9 DEF EngineInv

LEMMA CrashKeeps == ASSUME EngineInv, Crash PROVE EngineInv'
<1>1. TypeOK /\ Places(prog, pc)
  BY PlacesTyped DEF EngineInv, TypeOK
<1>2. prog' = "none" /\ pc' = 0
  BY DEF Crash, Ended, End, Jump
<1>3. TypeOK'
  <2>1. st' \in States /\ dSt' \in States
    BY <1>1, <1>2, WithTyped DEF TypeOK, Crash, Statuses, Phases
  <2>2. Places(prog', pc')
    BY <1>2 DEF Places
  <2>3. /\ prog' \in Programs /\ pc' \in 0..Len(Script["finalize"])
        /\ prog' # "none" => pc' \in 1..Len(Script[prog'])
    BY <2>2, PlacesTyped
  <2>4. flag' \in Flags
    BY <1>1 DEF TypeOK, Flags, Crash, Ended
  <2>5. crashes' \in 0..MaxCrashes
    BY <1>1, BoundAssumption DEF TypeOK, Crash
  <2> QED
    BY <1>1, <1>2, <2>1, <2>3, <2>4, <2>5, BoundAssumption DEF TypeOK, Reports, Contents,
       Stopping, Crash, Ended, destination, record
<1>4. SavedInv'
  BY <1>1, <1>2, BoundAssumption DEF EngineInv, SavedInv, Sound, Crash, Ended, destination,
     record
<1>5. ThreadInv'
  BY <1>1, <1>2, BoundAssumption DEF EngineInv, ThreadInv, In, Crash, Ended, destination,
     record
<1>6. CheckedInv'
  BY <1>1, <1>2, BoundAssumption DEF EngineInv, CheckedInv, In, Checked, Probed, Baselined,
     Crash, Ended, destination, record
<1>7. VerdictInv'
  BY <1>1, <1>2, BoundAssumption DEF EngineInv, VerdictInv, In
<1>8. InstallInv'
  BY <1>1, <1>2, BoundAssumption DEF EngineInv, InstallInv, In, Installing, Crash, Ended,
     destination, record
<1>9. GitInv'
  BY <1>1, <1>2, BoundAssumption DEF EngineInv, GitInv, In, PathStep, GitStep, Crash, Ended,
     destination, record
<1> QED BY <1>3, <1>4, <1>5, <1>6, <1>7, <1>8, <1>9 DEF EngineInv

LEMMA PowerLossKeeps == ASSUME EngineInv, PowerLoss PROVE EngineInv'
<1>1. TypeOK /\ Places(prog, pc)
  BY PlacesTyped DEF EngineInv, TypeOK
<1>2. prog' = "none" /\ pc' = 0
  BY DEF PowerLoss, Ended, End, Jump
<1>3. TypeOK'
  <2>1. st' \in States /\ dSt' \in States
    BY <1>1, <1>2, WithTyped DEF TypeOK, PowerLoss, Statuses, Phases
  <2>2. Places(prog', pc')
    BY <1>2 DEF Places
  <2>3. /\ prog' \in Programs /\ pc' \in 0..Len(Script["finalize"])
        /\ prog' # "none" => pc' \in 1..Len(Script[prog'])
    BY <2>2, PlacesTyped
  <2>4. flag' \in Flags
    BY <1>1 DEF TypeOK, Flags, PowerLoss, Ended
  <2>5. losses' \in 0..MaxLosses
    BY <1>1, BoundAssumption DEF TypeOK, PowerLoss
  <2> QED
    BY <1>1, <1>2, <2>1, <2>3, <2>4, <2>5, BoundAssumption DEF TypeOK, Reports, Contents,
       Stopping, PowerLoss, Ended, destination, record
<1>4. SavedInv'
  BY <1>1, <1>2, BoundAssumption DEF EngineInv, SavedInv, Sound, PowerLoss, Ended,
     destination, record
<1>5. ThreadInv'
  BY <1>1, <1>2, BoundAssumption DEF EngineInv, ThreadInv, In, PowerLoss, Ended,
     destination, record
<1>6. CheckedInv'
  BY <1>1, <1>2, BoundAssumption DEF EngineInv, CheckedInv, In, Checked, Probed, Baselined,
     PowerLoss, Ended, destination, record
<1>7. VerdictInv'
  BY <1>1, <1>2, BoundAssumption DEF EngineInv, VerdictInv, In
<1>8. InstallInv'
  BY <1>1, <1>2, BoundAssumption DEF EngineInv, InstallInv, In, Installing, PowerLoss,
     Ended, destination, record
<1>9. GitInv'
  BY <1>1, <1>2, BoundAssumption DEF EngineInv, GitInv, In, PathStep, GitStep, PowerLoss,
     Ended, destination, record
<1> QED BY <1>3, <1>4, <1>5, <1>6, <1>7, <1>8, <1>9 DEF EngineInv

LEMMA FlushKeeps == ASSUME EngineInv, Flush PROVE EngineInv'
<1>1. TypeOK /\ Places(prog, pc)
  BY PlacesTyped DEF EngineInv, TypeOK
<1>2. prog' = prog /\ pc' = pc
  BY DEF Flush
<1>3. TypeOK'
  <2>1. st' \in States /\ dSt' \in States
    BY <1>1, <1>2, WithTyped DEF TypeOK, Flush, Statuses, Phases
  <2>2. Places(prog', pc')
    BY <1>1, <1>2 DEF Places
  <2>3. /\ prog' \in Programs /\ pc' \in 0..Len(Script["finalize"])
        /\ prog' # "none" => pc' \in 1..Len(Script[prog'])
    BY <2>2, PlacesTyped
  <2> QED BY <1>1, <1>2, <2>1, <2>3, BoundAssumption DEF TypeOK, Flush, destination, record,
       faults
<1>4. SavedInv'
  BY <1>1, <1>2, BoundAssumption DEF EngineInv, SavedInv, Sound, Flush, destination, record,
     faults
<1>5. ThreadInv'
  BY <1>1, <1>2, BoundAssumption DEF EngineInv, ThreadInv, In, Flush, destination, record,
     faults
<1>6. CheckedInv'
  BY <1>1, <1>2, BoundAssumption DEF EngineInv, CheckedInv, In, Checked, Probed, Baselined,
     Flush, destination, record, faults
<1>7. VerdictInv'
  BY <1>1, <1>2, BoundAssumption DEF EngineInv, VerdictInv, Reconciling, In, Flush,
     destination, record, faults
<1>8. InstallInv'
  BY <1>1, <1>2, BoundAssumption DEF EngineInv, InstallInv, In, Installing, Flush,
     destination, record, faults
<1>9. GitInv'
  BY <1>1, <1>2, BoundAssumption DEF EngineInv, GitInv, In, PathStep, GitStep, Flush,
     destination, record, faults
<1> QED BY <1>3, <1>4, <1>5, <1>6, <1>7, <1>8, <1>9 DEF EngineInv

LEMMA RestartKeeps == ASSUME EngineInv, Restart PROVE EngineInv'
<1>1. TypeOK /\ Places(prog, pc)
  BY PlacesTyped DEF EngineInv, TypeOK
<1>2. /\ ~up /\ up' /\ st' = Restarted
      /\ UNCHANGED <<dSt, prog, pc, verdict, flag, requested, ctl, closing, destination,
                     faults>>
  BY DEF Restart
<1>3. /\ st' \in States /\ st'.git # "checking"
      /\ st'.attempt = st.attempt /\ st'.resolved = st.resolved /\ st'.receipt = st.receipt
      /\ st'.found = st.found /\ st'.recovery \in {st.recovery, "unknown"}
      /\ \/ /\ st.recovery = "restoring" \/ st.phase = "restoring"
            /\ st'.phase = "recovery_required"
         \/ /\ st'.phase \in {st.phase, "git_verification"}
            /\ st'.phase # "restoring"
            /\ st'.phase = "installing" =>
                 st'.status = "failed" /\ ~st'.staging_complete
  <2> DEFINE g == When(st.git = "checking", st, GitStopped)
             s == When(st.path = "checking", g, [path |-> "unverified"])
             t == When(s.recovery = "checking", s, [recovery |-> "unknown"])
             closed == With(s, [status |-> "failed", phase |-> "recovery_required",
                                staging_complete |-> FALSE, recovery |-> "unknown"])
  <2>1. s \in States /\ ChecksStopped(s)
    BY <1>1, StoppedFacts DEF TypeOK
  <2>2. \/ (s.recovery = "restoring" \/ s.phase = "restoring") /\ st' = closed
        \/ /\ s.phase # "restoring"
           /\ \/ t.status # "running" /\ st' = t
              \/ /\ t.phase = "installing"
                 /\ st' = With(t, [status |-> "failed", staging_complete |-> FALSE])
              \/ /\ t.phase # "installing"
                 /\ st' = With(t, [status |-> "interrupted"])
    BY <1>2 DEF Restarted
  <2>3. st.phase = "installing" => st.status \in {"running", "failed"} /\ ~st.staging_complete
    BY DEF EngineInv, SavedInv, Sound
  <2> HIDE DEF s
  <2>4. t \in States
    BY <2>1, WithTyped DEF When, Reports, Statuses, Phases
  <2>5. /\ t.git = s.git /\ t.phase = s.phase /\ t.status = s.status
        /\ t.attempt = s.attempt /\ t.resolved = s.resolved /\ t.receipt = s.receipt
        /\ t.found = s.found /\ t.recovery \in {s.recovery, "unknown"}
        /\ t.staging_complete = s.staging_complete
    BY <2>1 DEF When, With, States
  <2> HIDE DEF t
  <2>6. CASE (s.recovery = "restoring" \/ s.phase = "restoring") /\ st' = closed
    <3>1. st' \in States
      BY <2>1, <2>6, WithTyped DEF Reports, Protected, Statuses, Phases
    <3>2. /\ st'.phase = "recovery_required" /\ st'.recovery = "unknown"
          /\ st'.attempt = s.attempt /\ st'.resolved = s.resolved
          /\ st'.receipt = s.receipt /\ st'.found = s.found /\ st'.git = s.git
      BY <2>1, <2>6 DEF With, States
    <3> HIDE DEF closed
    <3> QED BY <2>1, <2>6, <3>1, <3>2 DEF ChecksStopped
  <2>7. CASE s.phase # "restoring" /\ t.status # "running" /\ st' = t
    BY <2>1, <2>3, <2>4, <2>5, <2>7 DEF ChecksStopped
  <2>8. CASE /\ s.phase # "restoring"
              /\ st' = With(t, [status |-> "failed", staging_complete |-> FALSE])
    <3>1. st' \in States
      BY <2>4, <2>8, WithTyped DEF Statuses, Phases
    <3>2. /\ st'.phase = t.phase /\ st'.recovery = t.recovery /\ st'.status = "failed"
          /\ ~st'.staging_complete /\ st'.attempt = t.attempt /\ st'.resolved = t.resolved
          /\ st'.receipt = t.receipt /\ st'.found = t.found /\ st'.git = t.git
      BY <2>4, <2>8 DEF With, States
    <3> QED BY <2>1, <2>5, <2>8, <3>1, <3>2 DEF ChecksStopped
  <2>9. CASE s.phase # "restoring" /\ t.phase # "installing"
             /\ st' = With(t, [status |-> "interrupted"])
    <3>1. st' \in States
      BY <2>4, <2>9, WithTyped DEF Statuses, Phases
    <3>2. /\ st'.phase = t.phase /\ st'.recovery = t.recovery
          /\ st'.attempt = t.attempt /\ st'.resolved = t.resolved
          /\ st'.receipt = t.receipt /\ st'.found = t.found /\ st'.git = t.git
      BY <2>4, <2>9 DEF With, States
    <3> QED BY <2>1, <2>5, <2>9, <3>1, <3>2 DEF ChecksStopped
  <2> QED BY <2>2, <2>6, <2>7, <2>8, <2>9
<1>4. TypeOK'
  <2>1. st' \in States /\ dSt' \in States
    BY <1>1, <1>2, <1>3, WithTyped DEF TypeOK, Statuses, Phases
  <2>2. Places(prog', pc')
    BY <1>1, <1>2 DEF Places
  <2>3. /\ prog' \in Programs /\ pc' \in 0..Len(Script["finalize"])
        /\ prog' # "none" => pc' \in 1..Len(Script[prog'])
    BY <2>2, PlacesTyped
  <2> QED
    BY <1>1, <1>2, <1>3, <2>1, <2>3, BoundAssumption DEF TypeOK, destination, record, faults
<1>5. SavedInv'
  BY <1>1, <1>2, <1>3, BoundAssumption DEF EngineInv, SavedInv, Sound, Open, destination,
     record, faults
<1>6. ThreadInv'
  BY <1>2, <1>3, BoundAssumption DEF EngineInv, ThreadInv, In
<1>7. CheckedInv'
  <2>1. prog' = "none"
    BY <1>2 DEF EngineInv, ThreadInv
  <2> QED BY <2>1 DEF CheckedInv, Checked, Probed, Baselined, In
<1>8. VerdictInv'
  BY <1>1, <1>2, <1>3, BoundAssumption DEF EngineInv, VerdictInv, ThreadInv, In,
     destination, record, faults
<1>9. InstallInv'
  BY <1>1, <1>2, <1>3, BoundAssumption DEF EngineInv, InstallInv, ThreadInv, Protected, In,
     Installing, destination, record, faults
<1>10. GitInv'
  BY <1>1, <1>2, <1>3, BoundAssumption DEF EngineInv, GitInv, In, PathStep, GitStep,
     destination, record, faults
<1> QED BY <1>4, <1>5, <1>6, <1>7, <1>8, <1>9, <1>10 DEF EngineInv

-----------------------------------------------------------------------------
(* The theorems.                                                           *)

\* At the start nothing is saved, and nothing works.
LEMMA EngineInit == ASSUME Init PROVE EngineInv
<1>1. TypeOK
  <2>1. st \in States
    BY BoundAssumption DEF Init, States, Reports
  <2>2. prog \in Programs /\ pc \in 0..Len(Script["finalize"])
    BY DEF Init, Programs, Script
  <2>3. flag \in Flags
    BY DEF Init, Flags
  <2>4. 0 \in 0..MaxInstalls /\ 0 \in 0..MaxCrashes /\ 0 \in 0..MaxLosses /\ 0 \in 0..MaxEdits
    BY BoundAssumption
  <2>5. /\ journal \in 0..txn /\ txn \in 0..MaxInstalls /\ asked \in 0..txn
        /\ restored \subseteq 1..txn
        /\ crashes \in 0..MaxCrashes /\ losses \in 0..MaxLosses /\ edits \in 0..MaxEdits
    BY <2>4 DEF Init
  <2>6. /\ verdict \in Reports /\ content \in Contents /\ base \in Contents
        /\ requested = "none" /\ ctl = "none" /\ remote = "none" /\ prog = "none"
        /\ up \in BOOLEAN /\ closing \in BOOLEAN /\ dSt = st
    BY DEF Init, Reports, Contents
  <2> QED BY <2>1, <2>2, <2>3, <2>5, <2>6 DEF TypeOK
<1>2. SavedInv
  BY DEF Init, SavedInv, Sound
<1>3. ThreadInv /\ CheckedInv /\ VerdictInv
  BY DEF Init, ThreadInv, CheckedInv, VerdictInv, Checked, Baselined, In
<1>4. InstallInv
  BY DEF Init, InstallInv, Installing, In
<1>5. GitInv
  BY DEF Init, GitInv
<1> QED BY <1>1, <1>2, <1>3, <1>4, <1>5 DEF EngineInv

\* A step of something else.
LEMMA EngineStutters == ASSUME EngineInv, UNCHANGED vars PROVE EngineInv'
<1>1. /\ UNCHANGED <<st, dSt, prog, pc, verdict, flag, requested, ctl, up, closing>>
      /\ UNCHANGED <<remote, asked, journal, content, base, restored, txn>>
      /\ UNCHANGED <<crashes, losses, edits>>
  BY DEF vars, local, destination, record, faults
<1>2. TypeOK'
  BY <1>1 DEF EngineInv, TypeOK
<1>3. SavedInv' /\ ThreadInv'
  BY <1>1 DEF EngineInv, SavedInv, Sound, ThreadInv, In
<1>4. CheckedInv'
  BY <1>1 DEF EngineInv, CheckedInv, Checked, Probed, Baselined, In
<1>5. VerdictInv'
  BY <1>1 DEF EngineInv, VerdictInv, In, Reconciling
<1>6. InstallInv' /\ GitInv'
  BY <1>1 DEF EngineInv, InstallInv, Installing, GitInv, GitStep, PathStep, In
<1> QED BY <1>2, <1>3, <1>4, <1>5, <1>6 DEF EngineInv

\* EngineInv is inductive.
LEMMA EngineSteps == ASSUME EngineInv, Next PROVE EngineInv'
<1>1. CASE Starting
  BY <1>1, StartInspectionKeeps, ResumeKeeps, StartRecoveryCheckKeeps, StartRestoreKeeps,
     StartPathCheckKeeps, StartRequestedKeeps, RequestKeeps DEF Starting
<1>2. CASE Stops
  BY <1>2, PauseKeeps, CancelKeeps, ShutdownKeeps, StopWrittenKeeps, StopRecoveryCheckKeeps,
     StopGitCheckKeeps, ShutdownChecksKeeps DEF Stops
<1>3. CASE Migrates
  BY <1>3, FailsKeeps, GuardedKeeps, GuardedFailsKeeps, BeginPreseedKeeps,
     PreflightCheckKeeps, PreflightProbeKeeps, PreflightPublishKeeps, RequestedStopKeeps,
     PrepareStagingKeeps, EnterCopyKeeps, BeginCopyKeeps, CopyKeeps, StagedKeeps,
     CodexClosedKeeps, FreezeKeeps, FreezeReadKeeps, SaveBaselineKeeps, CommitInstallKeeps,
     SendInstallKeeps, CompleteInstallKeeps DEF Migrates, FailLabels
<1>4. CASE Checks
  BY <1>4, PathCheckKeeps, HandoffKeeps, BeginGitKeeps, ProbeGitKeeps, PublishGitKeeps,
     LookKeeps, LookFailsKeeps, SendRestoreKeeps, JudgeKeeps, RestoreUnconfirmedKeeps,
     PublishKeeps DEF Checks
<1>5. CASE Writers
  BY <1>5, StageEndsKeeps, InstallRefusedKeeps, InstallBeginsKeeps, InstallDoneKeeps,
     InstallRollsBackKeeps, InstallDiesKeeps, RestoreBeginsKeeps, RestoreMovesKeeps,
     RestoreClearsKeeps, RestoreDiesKeeps DEF Writers
<1>6. CASE Machine
  BY <1>6, ExitKeeps, CrashKeeps, PowerLossKeeps, FlushKeeps, RestartKeeps, EditKeeps DEF
     Machine
<1> QED BY <1>1, <1>2, <1>3, <1>4, <1>5, <1>6 DEF Next

\* The engine, the destination and the saved states keep to EngineInv,
\* whatever is asked for and whatever fails.
THEOREM EngineInvariance == Spec => []EngineInv
BY EngineInit, EngineSteps, EngineStutters, PTL DEF Spec

\* Once a stop or a pause is accepted no installation is sent, and while one
\* runs the saved phase says so.
THEOREM AcceptedStopPrevents == Spec => []StopPreventsInstall
<1>1. ASSUME EngineInv PROVE StopPreventsInstall
  <2>1. Labelled
    BY <1>1, Labels DEF EngineInv
  <2>2. (prog = "finalize" /\ (At("install") \/ At("reply")))
          => prog = "finalize" /\ pc \in {19, 20}
    BY <2>1 DEF Labelled
  <2>3. SUFFICES ASSUME prog = "finalize", pc \in {19, 20}
                 PROVE  /\ st.phase = "installing" /\ st.status \in {"running", "failed"}
                        /\ closing \/ ~(flag.cancel \/ flag.pause)
    BY <2>2 DEF StopPreventsInstall
  <2> QED BY <1>1, <2>3 DEF EngineInv, InstallInv, Installing, In, SavedInv, Sound
<1> QED BY <1>1, EngineInvariance, PTL

\* An installation that ended without a receipt is on record as failed, and a
\* receipt is only there for an installation that stands.
THEOREM OutcomeIsKnown == Spec => []InstallationIsKnown
<1>1. ASSUME EngineInv PROVE InstallOutcomeKnown
  BY <1>1 DEF EngineInv, InstallInv, Installing, In, SavedInv, Sound, InstallOutcomeKnown,
     Alive
<1>2. ASSUME EngineInv PROVE ReceiptIsTrue
  BY <1>2 DEF EngineInv, SavedInv, Sound, ReceiptIsTrue
<1> QED BY <1>1, <1>2, EngineInvariance, PTL DEF InstallationIsKnown

\* While a restoration is unresolved nothing stages or installs.
THEOREM NothingWorksOnAnOpenAttempt == Spec => []OpenAttemptProtected
<1>1. ASSUME EngineInv PROVE OpenAttemptProtected
  <2>1. Labelled /\ CheckedInv /\ SavedInv
    BY <1>1, Labels DEF EngineInv
  <2>2. \A l \in {"prepare", "copy", "copying", "commit", "install"} : At(l) => Checked
    BY <2>1 DEF Labelled, Checked, In
  <2> QED BY <2>1, <2>2 DEF OpenAttemptProtected, CheckedInv, SavedInv, Sound
<1> QED BY <1>1, EngineInvariance, PTL

\* The saved attempt is the one the destination has pending or has finished,
\* in memory and on the device.
THEOREM AttemptIsTheDestinations == Spec => []AttemptNamesPending
<1>1. ASSUME EngineInv PROVE AttemptNamesPending
  BY <1>1 DEF EngineInv, SavedInv, Sound, AttemptNamesPending
<1> QED BY <1>1, EngineInvariance, PTL

\* An update that says nothing of the resolution leaves it.
LEMMA WithoutResolved ==
    ASSUME NEW s, NEW c, "resolved" \in DOMAIN s, "resolved" \notin DOMAIN c
    PROVE  "resolved" \in DOMAIN With(s, c) /\ With(s, c).resolved = s.resolved
BY DEF With

\* Whatever else is done to the saved state, only a report resolves an attempt.
LEMMA OnlyPublishResolves ==
    ASSUME EngineInv, Next, up', ~st.resolved, st'.resolved
    PROVE  Publish
<1>1. st \in States /\ "resolved" \in DOMAIN st
  BY DEF EngineInv, TypeOK, States
<1>2. CASE Starting
  <2>1. CASE StartInspection \/ Resume \/ StartRequested
    BY <1>1, <2>1, WithoutResolved DEF StartInspection, Resume, StartRequested, Update,
       Status
  <2>2. CASE StartRecoveryCheck \/ StartPathCheck
    <3>1. CASE StartRecoveryCheck
      BY <1>1, <3>1, WithoutResolved DEF StartRecoveryCheck, Update
    <3>2. CASE StartPathCheck
      <4> DEFINE s == With(st, [path |-> "checking"])
      <4>1. "resolved" \in DOMAIN s /\ s.resolved = st.resolved
        BY <1>1, WithoutResolved
      <4>2. st' = s \/ st' = With(s, Status("needs_attention", "path_compatibility"))
        BY <3>2 DEF StartPathCheck, When
      <4> HIDE DEF s
      <4> QED BY <4>1, <4>2, WithoutResolved DEF Status
    <3> QED BY <2>2, <3>1, <3>2
  <2>3. CASE StartRestore
    <3> DEFINE opened == With(st, [attempt |-> Selected, resolved |-> FALSE,
                   status |-> "running", phase |-> "restoring",
                   staging_complete |-> FALSE, recovery |-> "restoring", found |-> 0])
    <3>1. "resolved" \in DOMAIN opened /\ ~opened.resolved
      BY <1>1 DEF With
    <3>2. st' = opened \/ st' = With(opened, [status |-> "failed",
                phase |-> "recovery_required", recovery |-> "unknown"])
      BY <2>3 DEF StartRestore
    <3> HIDE DEF opened
    <3> QED BY <3>1, <3>2, WithoutResolved
  <2>4. CASE \E p \in {"preseed", "finalize"} : Request(p)
    BY <2>4 DEF Request
  <2> QED BY <1>2, <2>1, <2>2, <2>3, <2>4 DEF Starting
<1>3. CASE Stops
  <2>1. CASE Pause \/ Cancel \/ Shutdown
    BY <2>1 DEF Pause, Cancel, Shutdown, Stop
  <2>2. CASE StopWritten
    <3>1. ctl \in Stopping
      BY <2>2 DEF StopWritten, EngineInv, TypeOK
    <3> QED BY <1>1, <2>2, <3>1, WithoutResolved DEF StopWritten, Update, Status, Stopping
  <2>3. CASE StopRecoveryCheck \/ StopGitCheck
    <3>1. CASE StopRecoveryCheck
      BY <1>1, <3>1, WithoutResolved DEF StopRecoveryCheck, Update
    <3>2. CASE StopGitCheck
      <4> DEFINE s == With(st, GitStopped)
      <4>1. "resolved" \in DOMAIN s /\ s.resolved = st.resolved
        BY <1>1, WithoutResolved DEF GitStopped
      <4>2. st' = s \/ st' = With(s, [path |-> "unverified"])
        BY <3>2 DEF StopGitCheck, When
      <4> HIDE DEF s
      <4> QED BY <4>1, <4>2, WithoutResolved
    <3> QED BY <2>3, <3>1, <3>2
  <2>4. CASE ShutdownChecks
    BY <1>1, <2>4, WithoutResolved DEF ShutdownChecks, When, GitStopped
  <2> QED BY <1>3, <2>1, <2>2, <2>3, <2>4 DEF Stops
<1>4. CASE Migrates
  <2>1. CASE Fails(FailLabels) \/ PreflightCheck \/ PrepareStaging \/ Copy \/ FreezeRead
    BY <2>1 DEF Fails, PreflightCheck, PrepareStaging, Copy, StageRequest, FreezeRead
  <2>2. CASE Guarded \/ GuardedFails
    BY <1>1, <2>2, WithoutResolved DEF Guarded, GuardedFails, When, Status
  <2>3. CASE BeginPreseed \/ PreflightProbe \/ PreflightPublish
    BY <1>1, <2>3, WithoutResolved DEF BeginPreseed, PreflightProbe, PreflightPublish,
       Update, Status
  <2>4. CASE RequestedStop \/ EnterCopy \/ BeginCopy \/ Staged
    BY <1>1, <2>4, WithoutResolved DEF RequestedStop, EnterCopy, BeginCopy, Staged, Update,
       Status
  <2>5. CASE CodexClosed \/ Freeze \/ SaveBaseline
    BY <1>1, <2>5, WithoutResolved DEF CodexClosed, Freeze, SaveBaseline, Update, When,
       Status
  <2>6. CASE CommitInstall \/ SendInstall \/ CompleteInstall
    BY <1>1, <2>6, WithoutResolved DEF CommitInstall, SendInstall, CompleteInstall, Update,
       Status
  <2> QED BY <1>4, <2>1, <2>2, <2>3, <2>4, <2>5, <2>6 DEF Migrates, FailLabels
<1>5. CASE Checks /\ ~Publish
  <2>1. CASE PathCheck \/ ProbeGit \/ Look \/ LookFails \/ Judge
    BY <2>1 DEF PathCheck, ProbeGit, Look, LookFails, Judge, Report
  <2>2. CASE SendRestore \/ RestoreUnconfirmed
    BY <2>2 DEF SendRestore, RestoreUnconfirmed
  <2>3. CASE Handoff \/ BeginGit \/ PublishGit
    BY <1>1, <2>3, WithoutResolved DEF Handoff, BeginGit, PublishGit, Update, When, Status
  <2> QED BY <1>5, <2>1, <2>2, <2>3 DEF Checks
<1>6. CASE Writers
  BY <1>6 DEF Writers, Destination, StageEnds, InstallRefused, InstallBegins, InstallDone,
     InstallRollsBack, InstallDies, RestoreBegins, RestoreMoves, RestoreClears, RestoreDies
<1>7. CASE Machine
  <2>1. CASE Exit \/ Crash \/ PowerLoss \/ Flush \/ Edit
    BY <2>1 DEF Exit, Crash, PowerLoss, Ended, Flush, Edit, local
  <2>2. CASE Restart
    BY <1>1, <2>2, WithoutResolved DEF Restart, Restarted, When, GitStopped
  <2> QED BY <1>7, <2>1, <2>2 DEF Machine
<1> QED BY <1>2, <1>3, <1>4, <1>5, <1>6, <1>7 DEF Next

\* Only a verified restoration resolves an attempt: nothing is pending then,
\* and the destination has what it had or what its user made of it.
THEOREM ResolvedMeansRestored == Spec => RestoredIsTrue
<1> DEFINE Resolves == up' /\ ~st.resolved /\ st'.resolved
           Restored == /\ journal = 0 /\ remote \in {"none", "stage"}
                       /\ content \in {base, "edited"}
<1>1. ASSUME EngineInv, [Next]_vars, Resolves PROVE Restored
  <2>1. ~UNCHANGED vars
    BY <1>1 DEF vars, local
  <2>2. Publish
    BY <1>1, <2>1, OnlyPublishResolves
  <2>3. \/ prog = "recover" /\ pc = 2
        \/ prog = "restore" /\ pc = 4
    BY <1>1, <2>2, Labels DEF EngineInv, Publish, Labelled
  <2>4. verdict = "restore_verified"
    <3> DEFINE r == With(st, [recovery |-> verdict,
                              found |-> IF verdict = "backup_verified" THEN journal ELSE 0])
    <3>1. "resolved" \in DOMAIN st
      BY <1>1 DEF EngineInv, TypeOK, States
    <3>2. "resolved" \in DOMAIN r /\ r.resolved = st.resolved
      BY <3>1, WithoutResolved
    <3>3. SUFFICES ASSUME verdict # "restore_verified" PROVE ~st'.resolved
      BY <1>1
    <3>4. \/ st' = st \/ st' = r
          \/ \E c : "resolved" \in DOMAIN c /\ ~c.resolved /\ st' = With(r, c)
      BY <2>2, <3>3 DEF Publish, When
    <3> HIDE DEF r
    <3> QED BY <1>1, <3>2, <3>4 DEF With
  <2> QED BY <1>1, <2>3, <2>4 DEF EngineInv, VerdictInv, In
<1>2. ASSUME EngineInv, [Next]_vars PROVE [Resolves => Restored]_vars
  BY <1>1, <1>2
<1> QED BY <1>2, EngineInvariance, PTL DEF Spec, RestoredIsTrue
=============================================================================
