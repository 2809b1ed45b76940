----------------------- MODULE DestinationRestoreProofs -----------------------
(***************************************************************************)
(* Restoration discards nothing, can be resumed, and clears its record     *)
(* only when everything is restored, for any number of entries, attempts,  *)
(* edits and faults.                                                       *)
(*                                                                         *)
(* RestoreInv is inductive.  Its parts follow the design of restore.py:    *)
(* which records exist at which step (RecordInv); until ready.json is on   *)
(* the device nothing has moved, and after that the device is at most the  *)
(* two renames of an entry behind (PlaceInv); the candidates are the       *)
(* frozen backups with the identity of the displaced entry (PreparedInv);  *)
(* and without edits an entry is before, between or after its two renames  *)
(* (PhaseInv).                                                             *)
(***************************************************************************)
EXTENDS DestinationRestore, TLAPS

Preparing == {"planSync", "prepare", "overlay", "recheck", "ready"}
Moving == {"validate", "verifyOld", "moveOld", "syncOld", "moveNew", "syncNew",
           "check", "final", "doneSync", "unlink", "unlinkSync"}

\* Which records there are, by the step of the attempt.
RecordInv ==
    /\ \A r \in Records : dFiles[r] = "whole" => files[r] = "whole"
    /\ files["plan"] # "whole" => files["ready"] = "none"
    /\ files["ready"] # "whole" => files["done"] = "none"
    /\ pc = "plan" => files["plan"] # "whole"
    /\ Running /\ pc # "plan" => files["plan"] = "whole"
    /\ pc \in Preparing => files["ready"] # "whole"
    /\ pc \in Moving \cup {"readySync", "guard"} => files["ready"] = "whole"
    /\ pc \in Moving => dFiles["ready"] = "whole"
    /\ pc \in {"doneSync", "unlink", "unlinkSync"} => files["done"] = "whole"
    /\ pc \in {"unlink", "unlinkSync"} => dFiles["done"] = "whole"
    /\ Running => orphan = "none"
    /\ orphan = "cp" => files["plan"] = "whole" /\ files["ready"] # "whole"
    /\ orphan = "rm" => files["plan"] # "whole"

\* The pending record goes last.
JournalInv ==
    /\ dJournal # "this" => journal # "this"
    /\ pc = "unlinkSync" => journal = "none"
    /\ journal # "this" =>
         /\ pc \in {"idle", "unlinkSync"}
         /\ dFiles["ready"] = "whole" /\ dFiles["done"] = "whole" /\ dPlace = place

\* The device d has not seen the last renames of p: the one of the current
\* entry, the one of the candidate, or both.
Behind(d, p, old) ==
    \/ d = p
    \/ /\ There(d.orig) /\ ~There(d.saved)
       /\ p = [orig |-> Gone, saved |-> d.orig, prep |-> d.prep]
    \/ /\ There(d.prep) /\ ~There(d.orig) /\ (There(d.saved) \/ ~There(old))
       /\ p = [orig |-> d.prep, saved |-> d.saved, prep |-> Gone]
    \/ /\ There(d.prep) /\ There(d.orig) /\ ~There(d.saved)
       /\ p = [orig |-> d.prep, saved |-> d.orig, prep |-> Gone]

PlaceInv ==
    /\ dFiles["ready"] # "whole" =>
         \A i \in Items : /\ place[i].orig = dPlace[i].orig
                          /\ ~There(place[i].saved) /\ ~There(dPlace[i].saved)
    /\ dFiles["ready"] = "whole" => \A i \in Items : Behind(dPlace[i], place[i], current[i])
    /\ files["plan"] # "whole" => \A i \in Items : ~There(place[i].prep)
    /\ pc = "moveOld" => There(current[at])
    /\ pc = "syncOld" => There(place[at].saved)
    /\ pc = "moveNew" => There(place[at].saved) \/ ~There(current[at])

\* The candidate for entry i, once it is made.
Identity(i) == IF i = 1 /\ There(current[1]) THEN current[1].id ELSE frozen[i].id
Candidate(t, i) == t.body = frozen[i].body /\ (meddled \/ t.id = Identity(i))

PreparedInv ==
    /\ pc \in {"plan", "planSync"} => at = 1
    /\ pc = "overlay" => /\ at = 1 /\ place[1].prep = frozen[1]
                         /\ meddled \/ place[1].orig = current[1]
    /\ pc = "recheck" => Candidate(place[at].prep, at)
    /\ pc \in {"prepare", "overlay", "recheck"} =>
         \A j \in Items : j < at => Candidate(desired[j], j) /\ place[j].prep = desired[j]
    /\ pc = "ready" \/ files["ready"] = "whole" => \A i \in Items : Candidate(desired[i], i)
    /\ pc = "ready" \/ (files["ready"] = "whole" /\ dFiles["ready"] # "whole") =>
         \A i \in Items : place[i].prep = desired[i]

\* An entry before, between and after its two renames.
Phases(old, new) ==
    {[orig |-> old, saved |-> Gone, prep |-> new],
     [orig |-> Gone, saved |-> old, prep |-> new],
     [orig |-> new, saved |-> old, prep |-> Gone]}

PhaseInv ==
    /\ edits = 0 => ~meddled
    /\ edits = 0 /\ files["plan"] = "whole" /\ dFiles["ready"] # "whole" =>
         \A i \in Items : place[i].orig = current[i]
    /\ edits = 0 /\ ~hasty /\ dFiles["ready"] = "whole" =>
         \A i \in Items : {place[i], dPlace[i]} \subseteq Phases(current[i], desired[i])

\* What the last pass over all entries saw.
DoneInv ==
    /\ pc \in {"doneSync", "unlink"} => \A i \in Items :
         place[i].saved = current[i] /\ (meddled \/ place[i].orig = desired[i])
    /\ pc = "unlink" => dPlace = place

RestoreInv ==
    /\ TypeOK /\ RecordInv /\ JournalInv /\ PlaceInv /\ NothingDiscarded
    /\ PreparedInv /\ PhaseInv /\ DoneInv
-----------------------------------------------------------------------------
(* What the updates of an entry's record do.                               *)

\* Nothing is there in Gone, something is in Part.
LEMMA TreeFacts == Gone \in Tree /\ Part \in Tree /\ ~There(Gone) /\ There(Part) /\ 1 \in Items
BY ScopeAssumption DEF Gone, Part, Tree, Bodies, Identities, There, Items

\* A changed candidate leaves the rest of the entry and the other entries alone.
LEMMA PrepPut ==
    ASSUME NEW f \in [Items -> Place], NEW i \in Items, NEW t \in Tree,
           NEW g, g = [f EXCEPT ![i].prep = t]
    PROVE  /\ g \in [Items -> Place]
           /\ g[i] = [orig |-> f[i].orig, saved |-> f[i].saved, prep |-> t]
           /\ \A j \in Items \ {i} : g[j] = f[j]
<1>1. f[i] \in Place
  OBVIOUS
<1>2. g[i] = [f[i] EXCEPT !.prep = t] /\ \A j \in Items \ {i} : g[j] = f[j]
  OBVIOUS
<1>3. [f[i] EXCEPT !.prep = t] = [orig |-> f[i].orig, saved |-> f[i].saved, prep |-> t]
  BY <1>1 DEF Place
<1>4. g[i] \in Place
  BY <1>1, <1>2, <1>3 DEF Place
<1>5. g \in [Items -> Place]
  BY <1>2, <1>4
<1> QED BY <1>2, <1>3, <1>5

\* A changed path leaves the rest of the entry and the other entries alone.
LEMMA OrigPut ==
    ASSUME NEW f \in [Items -> Place], NEW i \in Items, NEW t \in Tree,
           NEW g, g = [f EXCEPT ![i].orig = t]
    PROVE  /\ g \in [Items -> Place]
           /\ g[i] = [orig |-> t, saved |-> f[i].saved, prep |-> f[i].prep]
           /\ \A j \in Items \ {i} : g[j] = f[j]
<1>1. f[i] \in Place
  OBVIOUS
<1>2. g[i] = [f[i] EXCEPT !.orig = t] /\ \A j \in Items \ {i} : g[j] = f[j]
  OBVIOUS
<1>3. [f[i] EXCEPT !.orig = t] = [orig |-> t, saved |-> f[i].saved, prep |-> f[i].prep]
  BY <1>1 DEF Place
<1>4. g[i] \in Place
  BY <1>1, <1>2, <1>3 DEF Place
<1>5. g \in [Items -> Place]
  BY <1>2, <1>4
<1> QED BY <1>2, <1>3, <1>5

\* A change by an app or by an orphan is on the device when it is made.
OrigChanged(i, t) ==
    /\ place' \in [Items -> Place] /\ dPlace' \in [Items -> Place]
    /\ latest' \in [Items -> Tree] /\ latest'[i] = t
    /\ place'[i] = [orig |-> t, saved |-> place[i].saved, prep |-> place[i].prep]
    /\ dPlace'[i] = IF dFiles["ready"] = "whole" THEN place'[i]
                    ELSE [orig |-> t, saved |-> dPlace[i].saved, prep |-> dPlace[i].prep]
    /\ \A j \in Items \ {i} :
         place'[j] = place[j] /\ dPlace'[j] = dPlace[j] /\ latest'[j] = latest[j]

\* What an app writes is in the path and is the latest.
LEMMA PutOrigFacts ==
    ASSUME TypeOK, NEW i \in Items, NEW t \in Tree, PutOrig(i, t)
    PROVE  OrigChanged(i, t)
<1>1. place \in [Items -> Place] /\ dPlace \in [Items -> Place] /\ latest \in [Items -> Tree]
  BY DEF TypeOK
<1>2. place' = [place EXCEPT ![i].orig = t] /\ latest' = [latest EXCEPT ![i] = t]
  BY DEF PutOrig
<1>3. /\ place' \in [Items -> Place]
      /\ place'[i] = [orig |-> t, saved |-> place[i].saved, prep |-> place[i].prep]
      /\ \A j \in Items \ {i} : place'[j] = place[j]
  <2> DEFINE g == [place EXCEPT ![i].orig = t]
  <2>1. /\ g \in [Items -> Place]
        /\ g[i] = [orig |-> t, saved |-> place[i].saved, prep |-> place[i].prep]
        /\ \A j \in Items \ {i} : g[j] = place[j]
    <3>1. g = [place EXCEPT ![i].orig = t]
      OBVIOUS
    <3> HIDE DEF g
    <3> QED BY <1>1, <3>1, OrigPut
  <2> QED BY <1>2, <2>1
<1>4. [dPlace[i] EXCEPT !.orig = t]
        = [orig |-> t, saved |-> dPlace[i].saved, prep |-> dPlace[i].prep]
  BY <1>1 DEF Place
<1>5. [orig |-> t, saved |-> dPlace[i].saved, prep |-> dPlace[i].prep] \in Place
  BY <1>1 DEF Place
<1>6. dPlace' = [dPlace EXCEPT ![i] = IF dFiles["ready"] = "whole" THEN place'[i]
                                      ELSE [@ EXCEPT !.orig = t]]
  BY DEF PutOrig
<1>7. /\ dPlace' \in [Items -> Place] /\ \A j \in Items \ {i} : dPlace'[j] = dPlace[j]
      /\ dPlace'[i] = IF dFiles["ready"] = "whole" THEN place'[i]
                      ELSE [orig |-> t, saved |-> dPlace[i].saved, prep |-> dPlace[i].prep]
  BY <1>1, <1>3, <1>4, <1>5, <1>6
<1> QED BY <1>1, <1>2, <1>3, <1>7 DEF OrigChanged

\* An edit puts some tree into the path.
LEMMA EditPuts ==
    ASSUME TypeOK, NEW i \in Items, Edit(i)
    PROVE  \E t \in Tree : PutOrig(i, t)
<1> DEFINE s == place[i].orig
<1>1. s \in Tree
  BY DEF TypeOK, Place
<1>2. \A d \in {"none", "later"} : [s EXCEPT !.id = d] \in Tree
  <2>1. \A d : [s EXCEPT !.id = d] = [body |-> s.body, id |-> d]
    BY <1>1 DEF Tree
  <2> QED BY <1>1, <2>1 DEF Tree, Identities
<1>3. [body |-> "later", id |-> s.id] \in Tree
  BY <1>1 DEF Tree, Bodies
<1> QED BY <1>2, <1>3, TreeFacts DEF Edit

\* A changed path keeps what does not depend on the step of an attempt.
LEMMA OrigChangedKeeps ==
    ASSUME RestoreInv, NEW i \in Items, NEW t \in Tree, OrigChanged(i, t),
           UNCHANGED <<pc, at, files, dFiles, current, journal, dJournal>>
    PROVE  JournalInv' /\ PlaceInv' /\ NothingDiscarded'
<1>1. JournalInv'
  <2>1. ASSUME journal # "this" PROVE dPlace' = place'
    <3>1. dPlace = place /\ dFiles["ready"] = "whole"
      BY <2>1 DEF RestoreInv, JournalInv
    <3>2. \A j \in Items : dPlace'[j] = place'[j]
      BY <3>1 DEF OrigChanged
    <3>3. dPlace' \in [Items -> Place] /\ place' \in [Items -> Place]
      BY DEF OrigChanged
    <3> QED BY <3>2, <3>3
  <2> QED BY <2>1 DEF RestoreInv, JournalInv
<1>2. PlaceInv'
  BY DEF RestoreInv, PlaceInv, Behind, OrigChanged, TypeOK
<1>3. NothingDiscarded'
  BY DEF RestoreInv, NothingDiscarded, OrigChanged
<1> QED BY <1>1, <1>2, <1>3

\* What a power loss can leave of an entry's record.
LEMMA SurvivorForms ==
    ASSUME TypeOK, NEW i \in Items, NEW p \in PlaceSurvivor(i)
    PROVE  \/ p \in {place[i], dPlace[i]}
           \/ /\ dFiles["ready"] # "whole"
              /\ p = [orig |-> place[i].orig, saved |-> place[i].saved, prep |-> Part]
<1> DEFINE torn == [place[i] EXCEPT !.prep = Part]
<1>1. torn = [orig |-> place[i].orig, saved |-> place[i].saved, prep |-> Part]
  BY DEF TypeOK, Place
<1>2. PlaceSurvivor(i) = {place[i], dPlace[i]} \cup
        IF dFiles["ready"] # "whole" /\ place[i].prep # dPlace[i].prep THEN {torn} ELSE {}
  BY DEF PlaceSurvivor
<1> HIDE DEF torn
<1>3. p \in {place[i], dPlace[i]} \/ (dFiles["ready"] # "whole" /\ p = torn)
  BY <1>2
<1> QED BY <1>1, <1>3

-----------------------------------------------------------------------------
(* Each step keeps the invariant.                                          *)

\* After the device barrier both records are durable, and nothing has moved
\* that the device has not seen, if this was the first.
BarrierFacts ==
    /\ dFiles' \in [Records -> {"none", "partial", "whole"}]
    /\ dFiles'["plan"] = "whole" /\ dFiles'["ready"] = "whole"
    /\ dFiles'["done"] = dFiles["done"]
    /\ dPlace' \in [Items -> Place]
    /\ dPlace' = IF dFiles["ready"] = "whole" THEN dPlace ELSE place

\* A barrier brings the device level with what is visible.
LEMMA BarrierSyncs == ASSUME RestoreInv, Barrier PROVE BarrierFacts
<1>1. dPlace' = IF dFiles["ready"] = "whole" THEN dPlace ELSE place
  <2> SUFFICES ASSUME dFiles["ready"] # "whole" PROVE dPlace' = place
    BY DEF Barrier
  <2>1. \A i \in Items : [dPlace[i] EXCEPT !.prep = place[i].prep] = place[i]
    BY DEF RestoreInv, TypeOK, PlaceInv, Place, There
  <2> QED BY <2>1 DEF Barrier, RestoreInv, TypeOK
<1> QED BY <1>1 DEF BarrierFacts, Barrier, RestoreInv, TypeOK, Records

LEMMA OpenKeeps == ASSUME RestoreInv, Open PROVE RestoreInv'
<1>1. TypeOK'
  BY ScopeAssumption DEF RestoreInv, TypeOK, Labels, disk, world, Items, Open, Goto
<1>2. RecordInv'
  BY DEF RestoreInv, RecordInv, Preparing, Moving, LockFree, disk, Open, Goto
<1>3. JournalInv'
  BY DEF RestoreInv, JournalInv, disk, Open, Goto
<1>4. PlaceInv'
  BY DEF RestoreInv, PlaceInv, disk, Open, Goto
<1>5. NothingDiscarded'
  BY DEF RestoreInv, NothingDiscarded, disk, world, Open
<1>6. PreparedInv'
  BY DEF RestoreInv, PreparedInv, Candidate, Identity, Items, disk, world, Open, Goto
<1>7. PhaseInv'
  BY DEF RestoreInv, PhaseInv, disk, world, Open
<1>8. DoneInv'
  BY DEF RestoreInv, DoneInv, Open, Goto
<1> QED BY <1>1, <1>2, <1>3, <1>4, <1>5, <1>6, <1>7, <1>8 DEF RestoreInv

LEMMA SavePlanKeeps == ASSUME RestoreInv, SavePlan PROVE RestoreInv'
<1>1. TypeOK'
  BY DEF RestoreInv, TypeOK, Labels, Place, world, SavePlan, Goto
<1>2. RecordInv'
  BY DEF RestoreInv, RecordInv, TypeOK, Records, Running, Moving, SavePlan, Goto
<1>3. JournalInv'
  BY DEF RestoreInv, JournalInv, SavePlan, Goto
<1>4. PlaceInv'
  BY DEF RestoreInv, PlaceInv, RecordInv, Records, SavePlan, Goto
<1>5. NothingDiscarded'
  BY DEF RestoreInv, NothingDiscarded, world, SavePlan
<1>6. PreparedInv'
  BY DEF RestoreInv, PreparedInv, RecordInv, SavePlan, Goto
<1>7. PhaseInv'
  BY DEF RestoreInv, PhaseInv, RecordInv, Records, world, SavePlan
<1>8. DoneInv'
  BY DEF RestoreInv, DoneInv, SavePlan, Goto
<1> QED BY <1>1, <1>2, <1>3, <1>4, <1>5, <1>6, <1>7, <1>8 DEF RestoreInv

LEMMA PlanSyncedKeeps == ASSUME RestoreInv, PlanSynced PROVE RestoreInv'
<1>1. TypeOK'
  BY DEF RestoreInv, TypeOK, Labels, world, PlanSynced, Goto
<1>2. RecordInv'
  BY DEF RestoreInv, RecordInv, Running, Preparing, Moving, PlanSynced, Goto
<1>3. JournalInv'
  BY DEF RestoreInv, JournalInv, PlanSynced, Goto
<1>4. PlaceInv'
  BY DEF RestoreInv, PlaceInv, PlanSynced, Goto
<1>5. NothingDiscarded'
  BY DEF RestoreInv, NothingDiscarded, world, PlanSynced
<1>6. PreparedInv'
  BY DEF RestoreInv, PreparedInv, Candidate, Identity, Items, world, PlanSynced, Goto
<1>7. PhaseInv'
  BY DEF RestoreInv, PhaseInv, world, PlanSynced
<1>8. DoneInv'
  BY DEF RestoreInv, DoneInv, PlanSynced, Goto
<1> QED BY <1>1, <1>2, <1>3, <1>4, <1>5, <1>6, <1>7, <1>8 DEF RestoreInv

LEMMA SetCandidateAsideKeeps == ASSUME RestoreInv, SetCandidateAside PROVE RestoreInv'
<1>1. TypeOK'
  <2>1. place' \in [Items -> Place] /\ dPlace' \in [Items -> Place]
    BY TreeFacts, PrepPut DEF RestoreInv, TypeOK, SetCandidateAside
  <2>2. kept' \in 0..Slots
    BY BoundAssumption DEF RestoreInv, TypeOK, SetCandidateAside, SetAside
  <2> QED BY <2>1, <2>2 DEF RestoreInv, TypeOK, SetCandidateAside, world
<1>2. RecordInv'
  BY DEF RestoreInv, RecordInv, Running, SetCandidateAside
<1>3. JournalInv'
  BY DEF RestoreInv, JournalInv, SetCandidateAside
<1>4. PlaceInv'
  BY DEF RestoreInv, PlaceInv, RecordInv, Preparing, Records, SetCandidateAside
<1>5. NothingDiscarded'
  BY DEF RestoreInv, NothingDiscarded, TypeOK, Place, world, SetCandidateAside
<1>6. PreparedInv'
  BY DEF RestoreInv, PreparedInv, RecordInv, Preparing, Candidate, Identity, Items, world,
     SetCandidateAside
<1>7. PhaseInv'
  BY DEF RestoreInv, PhaseInv, RecordInv, Preparing, Records, world, SetCandidateAside
<1>8. DoneInv'
  BY DEF RestoreInv, DoneInv, SetCandidateAside
<1> QED BY <1>1, <1>2, <1>3, <1>4, <1>5, <1>6, <1>7, <1>8 DEF RestoreInv

LEMMA CloneKeeps == ASSUME RestoreInv, Clone PROVE RestoreInv'
<1>1. /\ pc = "prepare" /\ pc' = IF at = 1 THEN "overlay" ELSE "recheck"
      /\ place[at].orig = current[at]
      /\ UNCHANGED <<at, dPlace, files, dFiles, current, desired, kept, journal, dJournal,
                     world, orphan>>
      /\ place' \in [Items -> Place]
      /\ place'[at] = [orig |-> place[at].orig, saved |-> place[at].saved, prep |-> frozen[at]]
      /\ \A j \in Items \ {at} : place'[j] = place[j]
  <2>1. place' = [place EXCEPT ![at].prep = frozen[at]] /\ frozen[at] \in Tree /\ at \in Items
        /\ place \in [Items -> Place]
    BY DEF Clone, RestoreInv, TypeOK
  <2> QED BY <2>1, PrepPut DEF Clone, Goto
<1>2. TypeOK'
  BY <1>1 DEF RestoreInv, TypeOK, Labels, world
<1>3. RecordInv'
  BY DEF RestoreInv, RecordInv, Running, Preparing, Moving, Clone, Goto
<1>4. JournalInv'
  BY DEF RestoreInv, JournalInv, Clone, Goto
<1>5. PlaceInv'
  BY <1>1 DEF RestoreInv, PlaceInv, RecordInv, Preparing, Running, Records
<1>6. NothingDiscarded'
  BY DEF RestoreInv, NothingDiscarded, TypeOK, Place, world, Clone
<1>7. PreparedInv'
  BY DEF RestoreInv, PreparedInv, TypeOK, RecordInv, Preparing, Candidate, Identity, Items,
     world, Clone, Goto
<1>8. PhaseInv'
  BY DEF RestoreInv, PhaseInv, RecordInv, Preparing, Records, world, Clone
<1>9. DoneInv'
  BY DEF RestoreInv, DoneInv, Clone, Goto
<1> QED BY <1>2, <1>3, <1>4, <1>5, <1>6, <1>7, <1>8, <1>9 DEF RestoreInv

LEMMA OverlayKeeps == ASSUME RestoreInv, Overlay PROVE RestoreInv'
<1>1. /\ pc = "overlay" /\ pc' = "recheck" /\ at = 1 /\ 1 \in Items
      /\ UNCHANGED <<at, dPlace, files, dFiles, current, desired, kept, journal, dJournal,
                     world, orphan>>
      /\ place' \in [Items -> Place]
      /\ place'[1] = [orig |-> place[1].orig, saved |-> place[1].saved,
                      prep |-> IF There(place[1].orig)
                               THEN [body |-> place[1].prep.body, id |-> place[1].orig.id]
                               ELSE place[1].prep]
      /\ \A j \in Items \ {1} : place'[j] = place[j]
  <2> DEFINE t == IF There(place[1].orig)
                  THEN [body |-> place[1].prep.body, id |-> place[1].orig.id]
                  ELSE place[1].prep
  <2>1. place \in [Items -> Place] /\ place[1] \in Place /\ t \in Tree
    BY TreeFacts DEF RestoreInv, TypeOK, Place, Tree
  <2>2. place' = [place EXCEPT ![1].prep = t]
    <3>1. place[1].prep = [body |-> place[1].prep.body, id |-> place[1].prep.id]
      BY <2>1 DEF Place, Tree
    <3>2. [place[1].prep EXCEPT !.id = place[1].orig.id]
          = [body |-> place[1].prep.body, id |-> place[1].orig.id]
      BY <2>1 DEF Place, Tree
    <3>3. [place[1] EXCEPT !.prep = place[1].prep] = place[1]
      BY <2>1 DEF Place
    <3>4. CASE There(place[1].orig)
      BY <3>2, <3>4 DEF Overlay
    <3>5. CASE ~There(place[1].orig)
      BY <2>1, <3>3, <3>5 DEF Overlay
    <3> QED BY <3>4, <3>5
  <2> HIDE DEF t
  <2>3. /\ place' \in [Items -> Place]
        /\ place'[1] = [orig |-> place[1].orig, saved |-> place[1].saved, prep |-> t]
        /\ \A j \in Items \ {1} : place'[j] = place[j]
    BY <2>1, <2>2, TreeFacts, PrepPut
  <2> QED BY <2>3, TreeFacts DEF t, Overlay, RestoreInv, PreparedInv, Goto
<1>2. TypeOK'
  BY <1>1 DEF RestoreInv, TypeOK, Labels, world
<1>3. RecordInv'
  BY DEF RestoreInv, RecordInv, Running, Preparing, Moving, Overlay, Goto
<1>4. JournalInv'
  BY DEF RestoreInv, JournalInv, Overlay, Goto
<1>5. PlaceInv'
  BY <1>1 DEF RestoreInv, PlaceInv, RecordInv, Preparing, Running, Records
<1>6. NothingDiscarded'
  BY DEF RestoreInv, NothingDiscarded, TypeOK, Place, world, Overlay
<1>7. PreparedInv'
  BY DEF RestoreInv, PreparedInv, TypeOK, RecordInv, Preparing, Candidate, Identity, world,
     Overlay, Goto
<1>8. PhaseInv'
  BY DEF RestoreInv, PhaseInv, RecordInv, Preparing, Records, world, Overlay
<1>9. DoneInv'
  BY DEF RestoreInv, DoneInv, Overlay, Goto
<1> QED BY <1>2, <1>3, <1>4, <1>5, <1>6, <1>7, <1>8, <1>9 DEF RestoreInv

LEMMA RecheckKeeps == ASSUME RestoreInv, Recheck PROVE RestoreInv'
<1>1. TypeOK'
  BY ScopeAssumption DEF RestoreInv, TypeOK, Labels, Place, world, Items, Recheck, Advance,
     Goto
<1>2. RecordInv'
  BY DEF RestoreInv, RecordInv, Running, Preparing, Moving, Recheck, Advance, Goto
<1>3. JournalInv'
  BY DEF RestoreInv, JournalInv, Recheck, Advance, Goto
<1>4. PlaceInv'
  BY DEF RestoreInv, PlaceInv, Recheck, Advance, Goto
<1>5. NothingDiscarded'
  BY DEF RestoreInv, NothingDiscarded, world, Recheck
<1>6. PreparedInv'
  BY ScopeAssumption DEF RestoreInv, PreparedInv, TypeOK, Candidate, Identity, Items, world,
     Recheck, Advance, Goto
<1>7. PhaseInv'
  BY DEF RestoreInv, PhaseInv, RecordInv, Preparing, Records, world, Recheck
<1>8. DoneInv'
  BY DEF RestoreInv, DoneInv, Recheck, Advance, Goto
<1> QED BY <1>1, <1>2, <1>3, <1>4, <1>5, <1>6, <1>7, <1>8 DEF RestoreInv

LEMMA SaveReadyKeeps == ASSUME RestoreInv, SaveReady PROVE RestoreInv'
<1>1. TypeOK'
  BY DEF RestoreInv, TypeOK, Labels, world, SaveReady, Goto
<1>2. RecordInv'
  BY DEF RestoreInv, RecordInv, TypeOK, Records, Running, Preparing, Moving, SaveReady, Goto
<1>3. JournalInv'
  BY DEF RestoreInv, JournalInv, SaveReady, Goto
<1>4. PlaceInv'
  BY DEF RestoreInv, PlaceInv, SaveReady, Goto
<1>5. NothingDiscarded'
  BY DEF RestoreInv, NothingDiscarded, world, SaveReady
<1>6. PreparedInv'
  BY DEF RestoreInv, PreparedInv, Candidate, Identity, world, SaveReady, Goto
<1>7. PhaseInv'
  BY DEF RestoreInv, PhaseInv, world, SaveReady
<1>8. DoneInv'
  BY DEF RestoreInv, DoneInv, SaveReady, Goto
<1> QED BY <1>1, <1>2, <1>3, <1>4, <1>5, <1>6, <1>7, <1>8 DEF RestoreInv

LEMMA ReadySyncedKeeps == ASSUME RestoreInv, ReadySynced PROVE RestoreInv'
<1>1. /\ pc = "readySync" /\ pc' = "guard" /\ BarrierFacts
      /\ UNCHANGED <<at, place, files, current, desired, kept, journal, dJournal, world,
                     orphan>>
  BY BarrierSyncs DEF ReadySynced, RestoreInv, Goto
<1>2. TypeOK'
  BY <1>1 DEF RestoreInv, TypeOK, Labels, world, BarrierFacts
<1>3. RecordInv'
  BY DEF RestoreInv, RecordInv, TypeOK, Preparing, Moving, ReadySynced, Barrier, Goto
<1>4. JournalInv'
  BY DEF RestoreInv, JournalInv, ReadySynced, Goto
<1>5. PlaceInv'
  BY <1>1 DEF RestoreInv, PlaceInv, Behind, BarrierFacts
<1>6. NothingDiscarded'
  BY DEF RestoreInv, NothingDiscarded, TypeOK, There, Gone, Place, world, ReadySynced,
     Barrier
<1>7. PreparedInv'
  BY DEF RestoreInv, PreparedInv, TypeOK, Records, Candidate, Identity, world, ReadySynced,
     Barrier, Goto
<1>8. PhaseInv'
  BY <1>1 DEF RestoreInv, PhaseInv, RecordInv, BarrierFacts, PreparedInv, PlaceInv, Phases,
     There, Place, world
<1>9. DoneInv'
  BY DEF RestoreInv, DoneInv, ReadySynced, Goto
<1> QED BY <1>2, <1>3, <1>4, <1>5, <1>6, <1>7, <1>8, <1>9 DEF RestoreInv

LEMMA ResyncKeeps == ASSUME RestoreInv, Resync PROVE RestoreInv'
<1>1. /\ pc = "guard" /\ pc' = "validate" /\ BarrierFacts
      /\ UNCHANGED <<at, place, files, current, desired, kept, journal, dJournal, world,
                     orphan>>
  BY BarrierSyncs DEF Resync, RestoreInv, Goto
<1>2. TypeOK'
  BY <1>1 DEF RestoreInv, TypeOK, Labels, world, BarrierFacts
<1>3. RecordInv'
  BY DEF RestoreInv, RecordInv, TypeOK, Records, Preparing, Resync, Barrier, Goto
<1>4. JournalInv'
  BY DEF RestoreInv, JournalInv, Resync, Goto
<1>5. PlaceInv'
  BY <1>1 DEF RestoreInv, PlaceInv, Behind, BarrierFacts
<1>6. NothingDiscarded'
  BY DEF RestoreInv, NothingDiscarded, TypeOK, There, Gone, Place, world, Resync, Barrier
<1>7. PreparedInv'
  BY DEF RestoreInv, PreparedInv, TypeOK, Records, Candidate, Identity, world, Resync,
     Barrier, Goto
<1>8. PhaseInv'
  BY <1>1 DEF RestoreInv, PhaseInv, RecordInv, BarrierFacts, PreparedInv, PlaceInv, Phases,
     There, Place, world
<1>9. DoneInv'
  BY DEF RestoreInv, DoneInv, Resync, Goto
<1> QED BY <1>2, <1>3, <1>4, <1>5, <1>6, <1>7, <1>8, <1>9 DEF RestoreInv

LEMMA ValidateKeeps == ASSUME RestoreInv, Validate PROVE RestoreInv'
<1>1. TypeOK'
  BY DEF RestoreInv, TypeOK, Labels, disk, world, Validate, Goto
<1>2. RecordInv'
  BY DEF RestoreInv, RecordInv, Running, Preparing, Moving, disk, Validate, Goto
<1>3. JournalInv'
  BY DEF RestoreInv, JournalInv, disk, Validate, Goto
<1>4. PlaceInv'
  BY DEF RestoreInv, PlaceInv, disk, Validate, Goto
<1>5. NothingDiscarded'
  BY DEF RestoreInv, NothingDiscarded, disk, world, Validate
<1>6. PreparedInv'
  BY DEF RestoreInv, PreparedInv, Candidate, Identity, disk, world, Validate, Goto
<1>7. PhaseInv'
  BY DEF RestoreInv, PhaseInv, disk, world, Validate
<1>8. DoneInv'
  BY DEF RestoreInv, DoneInv, Validate, Goto
<1> QED BY <1>1, <1>2, <1>3, <1>4, <1>5, <1>6, <1>7, <1>8 DEF RestoreInv

LEMMA VerifyOldKeeps == ASSUME RestoreInv, VerifyOld PROVE RestoreInv'
<1>1. TypeOK'
  BY DEF RestoreInv, TypeOK, Labels, disk, world, VerifyOld, Goto
<1>2. RecordInv'
  BY DEF RestoreInv, RecordInv, Running, Preparing, Moving, disk, VerifyOld, Goto
<1>3. JournalInv'
  BY DEF RestoreInv, JournalInv, disk, VerifyOld, Goto
<1>4. PlaceInv'
  BY DEF RestoreInv, PlaceInv, disk, VerifyOld, Goto
<1>5. NothingDiscarded'
  BY DEF RestoreInv, NothingDiscarded, disk, world, VerifyOld
<1>6. PreparedInv'
  BY DEF RestoreInv, PreparedInv, Candidate, Identity, disk, world, VerifyOld, Goto
<1>7. PhaseInv'
  BY DEF RestoreInv, PhaseInv, disk, world, VerifyOld
<1>8. DoneInv'
  BY DEF RestoreInv, DoneInv, VerifyOld, Goto
<1> QED BY <1>1, <1>2, <1>3, <1>4, <1>5, <1>6, <1>7, <1>8 DEF RestoreInv

LEMMA MoveOldKeeps == ASSUME RestoreInv, MoveOld PROVE RestoreInv'
<1>1. TypeOK'
  <2>1. place[at] \in Place /\ place \in [Items -> Place] /\ at \in Items
    BY DEF RestoreInv, TypeOK
  <2>2. [place[at] EXCEPT !.saved = place[at].orig]
        = [orig |-> place[at].orig, saved |-> place[at].orig, prep |-> place[at].prep]
    BY <2>1 DEF Place
  <2>3. [[place[at] EXCEPT !.saved = place[at].orig] EXCEPT !.orig = Gone] \in Place
    BY <2>1, <2>2, TreeFacts DEF Place
  <2>4. place' \in [Items -> Place]
    BY <2>1, <2>3 DEF MoveOld
  <2> QED BY <2>4 DEF RestoreInv, TypeOK, MoveOld, Labels, Goto, world
<1>2. RecordInv'
  BY DEF RestoreInv, RecordInv, Running, Preparing, Moving, MoveOld, Goto
<1>3. JournalInv'
  BY DEF RestoreInv, JournalInv, MoveOld, Goto
<1>4. PlaceInv'
  BY DEF RestoreInv, PlaceInv, TypeOK, There, Place, MoveOld
<1>5. NothingDiscarded'
  BY DEF RestoreInv, NothingDiscarded, TypeOK, Place, world, MoveOld
<1>6. PreparedInv'
  BY DEF RestoreInv, PreparedInv, RecordInv, Moving, Candidate, Identity, world, MoveOld,
     Goto
<1>7. PhaseInv'
  BY DEF RestoreInv, PhaseInv, TypeOK, There, Place, MoveOld
<1>8. DoneInv'
  BY DEF RestoreInv, DoneInv, MoveOld, Goto
<1> QED BY <1>1, <1>2, <1>3, <1>4, <1>5, <1>6, <1>7, <1>8 DEF RestoreInv

LEMMA MoveNewKeeps == ASSUME RestoreInv, MoveNew PROVE RestoreInv'
<1>1. TypeOK'
  <2>1. place' \in [Items -> Place]
    <3>1. place' = place \/ place' = [place EXCEPT ![at] = [orig |-> place[at].prep,
                                          saved |-> place[at].saved, prep |-> Gone]]
      BY DEF MoveNew, RestoreInv, TypeOK, Place
    <3> QED BY <3>1, TreeFacts DEF RestoreInv, TypeOK, Place
  <2> QED BY <2>1 DEF RestoreInv, TypeOK, MoveNew, Labels, Goto, world
<1>2. RecordInv'
  BY DEF RestoreInv, RecordInv, Running, Preparing, Moving, MoveNew, Goto
<1>3. JournalInv'
  BY DEF RestoreInv, JournalInv, MoveNew, Goto
<1>4. PlaceInv'
  BY DEF RestoreInv, PlaceInv, TypeOK, There, Place, MoveNew, Goto
<1>5. NothingDiscarded'
  BY DEF RestoreInv, NothingDiscarded, TypeOK, Place, world, MoveNew, Goto
<1>6. PreparedInv'
  BY DEF RestoreInv, PreparedInv, RecordInv, Moving, Candidate, Identity, world, MoveNew,
     Goto
<1>7. PhaseInv'
  BY DEF RestoreInv, PhaseInv, TypeOK, There, Place, world, MoveNew
<1>8. DoneInv'
  BY DEF RestoreInv, DoneInv, MoveNew, Goto
<1> QED BY <1>1, <1>2, <1>3, <1>4, <1>5, <1>6, <1>7, <1>8 DEF RestoreInv

LEMMA MoveSyncedKeeps == ASSUME RestoreInv, MoveSynced PROVE RestoreInv'
<1>1. TypeOK'
  BY DEF RestoreInv, TypeOK, Labels, world, MoveSynced, Goto
<1>2. RecordInv'
  BY DEF RestoreInv, RecordInv, Running, Preparing, Moving, MoveSynced, Goto
<1>3. JournalInv'
  BY DEF RestoreInv, JournalInv, MoveSynced, Goto
<1>4. PlaceInv'
  BY DEF RestoreInv, PlaceInv, Behind, MoveSynced, Goto
<1>5. NothingDiscarded'
  BY DEF RestoreInv, NothingDiscarded, world, MoveSynced
<1>6. PreparedInv'
  BY DEF RestoreInv, PreparedInv, Candidate, Identity, world, MoveSynced, Goto
<1>7. PhaseInv'
  BY DEF RestoreInv, PhaseInv, world, MoveSynced
<1>8. DoneInv'
  BY DEF RestoreInv, DoneInv, MoveSynced, Goto
<1> QED BY <1>1, <1>2, <1>3, <1>4, <1>5, <1>6, <1>7, <1>8 DEF RestoreInv

LEMMA CheckKeeps == ASSUME RestoreInv, Check PROVE RestoreInv'
<1>1. TypeOK'
  BY ScopeAssumption DEF RestoreInv, TypeOK, Labels, disk, world, Items, Check, Advance,
     Goto
<1>2. RecordInv'
  BY DEF RestoreInv, RecordInv, Running, Preparing, Moving, disk, Check, Advance, Goto
<1>3. JournalInv'
  BY DEF RestoreInv, JournalInv, disk, Check, Advance, Goto
<1>4. PlaceInv'
  BY DEF RestoreInv, PlaceInv, disk, Check, Advance, Goto
<1>5. NothingDiscarded'
  BY DEF RestoreInv, NothingDiscarded, disk, world, Check
<1>6. PreparedInv'
  BY DEF RestoreInv, PreparedInv, Candidate, Identity, disk, world, Check, Advance, Goto
<1>7. PhaseInv'
  BY DEF RestoreInv, PhaseInv, disk, world, Check
<1>8. DoneInv'
  BY DEF RestoreInv, DoneInv, Check, Advance, Goto
<1> QED BY <1>1, <1>2, <1>3, <1>4, <1>5, <1>6, <1>7, <1>8 DEF RestoreInv

LEMMA SaveDoneKeeps == ASSUME RestoreInv, SaveDone PROVE RestoreInv'
<1>1. TypeOK'
  BY DEF RestoreInv, TypeOK, Labels, world, SaveDone, Goto
<1>2. RecordInv'
  BY DEF RestoreInv, RecordInv, TypeOK, Records, Preparing, Moving, SaveDone, Goto
<1>3. JournalInv'
  BY DEF RestoreInv, JournalInv, SaveDone, Goto
<1>4. PlaceInv'
  BY DEF RestoreInv, PlaceInv, SaveDone, Goto
<1>5. NothingDiscarded'
  BY DEF RestoreInv, NothingDiscarded, world, SaveDone
<1>6. PreparedInv'
  BY DEF RestoreInv, PreparedInv, Candidate, Identity, world, SaveDone, Goto
<1>7. PhaseInv'
  BY DEF RestoreInv, PhaseInv, world, SaveDone
<1>8. DoneInv'
  BY DEF RestoreInv, DoneInv, SaveDone, Goto
<1> QED BY <1>1, <1>2, <1>3, <1>4, <1>5, <1>6, <1>7, <1>8 DEF RestoreInv

LEMMA DoneSyncedKeeps == ASSUME RestoreInv, DoneSynced PROVE RestoreInv'
<1>1. TypeOK'
  BY DEF RestoreInv, TypeOK, Labels, world, DoneSynced, Goto
<1>2. RecordInv'
  BY DEF RestoreInv, RecordInv, TypeOK, Records, Preparing, Moving, DoneSynced, Goto
<1>3. JournalInv'
  BY DEF RestoreInv, JournalInv, DoneSynced, Goto
<1>4. PlaceInv'
  BY DEF RestoreInv, PlaceInv, Behind, DoneSynced, Goto
<1>5. NothingDiscarded'
  BY DEF RestoreInv, NothingDiscarded, world, DoneSynced
<1>6. PreparedInv'
  BY DEF RestoreInv, PreparedInv, Candidate, Identity, world, DoneSynced, Goto
<1>7. PhaseInv'
  BY DEF RestoreInv, PhaseInv, world, DoneSynced
<1>8. DoneInv'
  BY DEF RestoreInv, DoneInv, world, DoneSynced
<1> QED BY <1>1, <1>2, <1>3, <1>4, <1>5, <1>6, <1>7, <1>8 DEF RestoreInv

LEMMA UnlinkKeeps == ASSUME RestoreInv, Unlink PROVE RestoreInv'
<1>1. TypeOK'
  BY DEF RestoreInv, TypeOK, Labels, world, Unlink, Goto
<1>2. RecordInv'
  BY DEF RestoreInv, RecordInv, Running, Preparing, Moving, Unlink, Goto
<1>3. JournalInv'
  BY DEF RestoreInv, JournalInv, RecordInv, DoneInv, Moving, Unlink, Goto
<1>4. PlaceInv'
  BY DEF RestoreInv, PlaceInv, Unlink, Goto
<1>5. NothingDiscarded'
  BY DEF RestoreInv, NothingDiscarded, world, Unlink
<1>6. PreparedInv'
  BY DEF RestoreInv, PreparedInv, Candidate, Identity, world, Unlink, Goto
<1>7. PhaseInv'
  BY DEF RestoreInv, PhaseInv, world, Unlink
<1>8. DoneInv'
  BY DEF RestoreInv, DoneInv, Unlink, Goto
<1> QED BY <1>1, <1>2, <1>3, <1>4, <1>5, <1>6, <1>7, <1>8 DEF RestoreInv

LEMMA UnlinkSyncedKeeps == ASSUME RestoreInv, UnlinkSynced PROVE RestoreInv'
<1>1. TypeOK'
  BY DEF RestoreInv, TypeOK, Labels, world, UnlinkSynced, Goto
<1>2. RecordInv'
  BY DEF RestoreInv, RecordInv, Running, Preparing, Moving, UnlinkSynced, Goto
<1>3. JournalInv'
  BY DEF RestoreInv, JournalInv, UnlinkSynced, Goto
<1>4. PlaceInv'
  BY DEF RestoreInv, PlaceInv, UnlinkSynced, Goto
<1>5. NothingDiscarded'
  BY DEF RestoreInv, NothingDiscarded, world, UnlinkSynced
<1>6. PreparedInv'
  BY DEF RestoreInv, PreparedInv, Candidate, Identity, world, UnlinkSynced, Goto
<1>7. PhaseInv'
  BY DEF RestoreInv, PhaseInv, world, UnlinkSynced
<1>8. DoneInv'
  BY DEF RestoreInv, DoneInv, UnlinkSynced, Goto
<1> QED BY <1>1, <1>2, <1>3, <1>4, <1>5, <1>6, <1>7, <1>8 DEF RestoreInv

LEMMA SetRecordAsideKeeps ==
    ASSUME RestoreInv, NEW r \in Records, SetRecordAside(r)
    PROVE  RestoreInv'
<1>1. TypeOK'
  BY BoundAssumption DEF RestoreInv, TypeOK, world, SetRecordAside, SetAside
<1>2. RecordInv'
  BY DEF RestoreInv, RecordInv, Running, SetRecordAside
<1>3. JournalInv'
  BY DEF RestoreInv, JournalInv, SetRecordAside, SavingAt
<1>4. PlaceInv'
  BY DEF RestoreInv, PlaceInv, RecordInv, SetRecordAside
<1>5. NothingDiscarded'
  BY DEF RestoreInv, NothingDiscarded, world, SetRecordAside
<1>6. PreparedInv'
  BY DEF RestoreInv, PreparedInv, Candidate, Identity, world, SetRecordAside
<1>7. PhaseInv'
  BY DEF RestoreInv, PhaseInv, RecordInv, world, SetRecordAside
<1>8. DoneInv'
  BY DEF RestoreInv, DoneInv, world, SetRecordAside
<1> QED BY <1>1, <1>2, <1>3, <1>4, <1>5, <1>6, <1>7, <1>8 DEF RestoreInv

LEMMA OrphanEndsKeeps == ASSUME RestoreInv, OrphanEnds PROVE RestoreInv'
<1>1. /\ pc = "idle" /\ orphan \in {"rm", "cp"} /\ orphan' = "none"
      /\ UNCHANGED <<pc, at, files, dFiles, current, desired, kept, journal, dJournal,
                     frozen, rotten, meddled, hasty, edits, stops, faults>>
  BY DEF OrphanEnds, RestoreInv, RecordInv, Running
<1>2. ASSUME orphan = "rm", NEW i \in Items, NEW t \in Tree, PutOrig(i, t) PROVE RestoreInv'
  <2>1. OrigChanged(i, t) /\ files["plan"] # "whole" /\ files["ready"] # "whole"
        /\ dFiles["ready"] # "whole"
    BY <1>2, PutOrigFacts DEF RestoreInv, RecordInv, Records
  <2>2. TypeOK'
    BY <1>1, <2>1 DEF RestoreInv, TypeOK, OrigChanged
  <2>3. RecordInv'
    BY <1>1 DEF RestoreInv, RecordInv, Running
  <2>4. JournalInv' /\ PlaceInv' /\ NothingDiscarded'
    BY <1>1, <2>1, OrigChangedKeeps
  <2>5. PreparedInv' /\ PhaseInv' /\ DoneInv'
    BY <1>1, <2>1 DEF RestoreInv, PreparedInv, PhaseInv, DoneInv
  <2> QED BY <2>2, <2>3, <2>4, <2>5 DEF RestoreInv
<1>3. CASE orphan = "rm" /\ UNCHANGED <<place, dPlace, latest>>
  <2>1. TypeOK' /\ RecordInv' /\ JournalInv' /\ PlaceInv'
    BY <1>1, <1>3 DEF RestoreInv, TypeOK, RecordInv, Running, JournalInv, PlaceInv
  <2>2. NothingDiscarded' /\ PreparedInv' /\ PhaseInv' /\ DoneInv'
    BY <1>1, <1>3 DEF RestoreInv, NothingDiscarded, PreparedInv, Candidate, Identity,
       PhaseInv, DoneInv
  <2> QED BY <2>1, <2>2 DEF RestoreInv
<1>4. ASSUME orphan = "cp", NEW t \in {frozen[at], Part}, place' = [place EXCEPT ![at].prep = t],
             UNCHANGED <<dPlace, latest>>
      PROVE  RestoreInv'
  <2>1. /\ place' \in [Items -> Place] /\ at \in Items
        /\ place'[at] = [orig |-> place[at].orig, saved |-> place[at].saved, prep |-> t]
        /\ \A j \in Items \ {at} : place'[j] = place[j]
    BY <1>4, TreeFacts, PrepPut DEF RestoreInv, TypeOK
  <2>2. files["plan"] = "whole" /\ files["ready"] # "whole" /\ dFiles["ready"] # "whole"
    BY <1>4 DEF RestoreInv, RecordInv, Records
  <2>3. \A i \in Items : place'[i].orig = place[i].orig /\ place'[i].saved = place[i].saved
    BY <2>1
  <2>4. TypeOK' /\ RecordInv'
    BY <1>1, <1>4, <2>1 DEF RestoreInv, TypeOK, RecordInv
  <2>5. JournalInv'
    BY <1>1, <1>4, <2>2 DEF RestoreInv, JournalInv
  <2>6. PlaceInv' /\ NothingDiscarded'
    <3>1. /\ pc' = "idle" /\ UNCHANGED <<dPlace, latest, dFiles>>
          /\ files'["plan"] = "whole" /\ dFiles["ready"] # "whole"
      BY <1>1, <1>4, <2>2
    <3>2. PlaceInv'
      BY <2>3, <3>1 DEF RestoreInv, PlaceInv
    <3>3. NothingDiscarded'
      BY <2>3, <3>1 DEF RestoreInv, NothingDiscarded
    <3> QED BY <3>2, <3>3
  <2>7. PreparedInv' /\ PhaseInv' /\ DoneInv'
    BY <1>1, <2>1, <2>2 DEF RestoreInv, PreparedInv, PhaseInv, DoneInv
  <2> QED BY <2>4, <2>5, <2>6, <2>7 DEF RestoreInv
<1> QED BY <1>1, <1>2, <1>3, <1>4, TreeFacts DEF OrphanEnds

LEMMA EditKeeps == ASSUME RestoreInv, NEW i \in Items, Edit(i) PROVE RestoreInv'
<1>1. PICK t \in Tree : PutOrig(i, t)
  BY EditPuts DEF RestoreInv
<1>2. /\ OrigChanged(i, t) /\ edits' = edits + 1 /\ edits < MaxEdits
      /\ meddled' = (meddled \/ Running)
      /\ UNCHANGED <<pc, at, orphan, files, dFiles, current, desired, kept, journal,
                     dJournal, frozen, rotten, hasty, stops, faults>>
  BY <1>1, PutOrigFacts DEF Edit, RestoreInv
<1>3. TypeOK'
  BY <1>2, BoundAssumption DEF RestoreInv, TypeOK, OrigChanged
<1>4. RecordInv'
  BY <1>2 DEF RestoreInv, RecordInv, Running
<1>5. JournalInv' /\ PlaceInv' /\ NothingDiscarded'
  BY <1>2, OrigChangedKeeps
<1>6. PreparedInv'
  <2>1. \A j \in Items : place'[j].prep = place[j].prep
    BY <1>2 DEF OrigChanged
  <2>2. \A s \in Tree, j \in Items : Candidate(s, j) => Candidate(s, j)'
    BY <1>2 DEF Candidate, Identity
  <2>3. pc \in {"overlay", "recheck", "prepare"} => meddled' /\ at \in Items
    BY <1>2 DEF Running, RestoreInv, TypeOK
  <2>4. \A j \in Items : desired[j] \in Tree /\ place[j].prep \in Tree
    BY DEF RestoreInv, TypeOK, Place
  <2> QED BY <1>2, <2>1, <2>2, <2>3, <2>4 DEF RestoreInv, PreparedInv
<1>7. PhaseInv'
  BY <1>2 DEF RestoreInv, TypeOK, PhaseInv
<1>8. DoneInv'
  <2>1. \A j \in Items : place'[j].saved = place[j].saved
    BY <1>2 DEF OrigChanged
  <2>2. pc \in {"doneSync", "unlink"} => meddled'
    BY <1>2 DEF Running
  <2>3. dPlace = place /\ dFiles["ready"] = "whole" => dPlace' = place'
    <3>1. dPlace' \in [Items -> Place] /\ place' \in [Items -> Place]
      BY <1>2 DEF OrigChanged
    <3>2. dPlace = place /\ dFiles["ready"] = "whole" => \A j \in Items : dPlace'[j] = place'[j]
      BY <1>2 DEF OrigChanged
    <3> QED BY <3>1, <3>2
  <2> QED BY <1>2, <2>1, <2>2, <2>3 DEF RestoreInv, DoneInv, RecordInv, Moving
<1> QED BY <1>3, <1>4, <1>5, <1>6, <1>7, <1>8 DEF RestoreInv

LEMMA OtherInstallKeeps == ASSUME RestoreInv, OtherInstall PROVE RestoreInv'
<1> DEFINE installed(i) == [body |-> "new", id |-> IF i = 1 THEN "dest" ELSE "none"]
<1>1. /\ pc = "idle" /\ orphan = "none" /\ journal = "none" /\ edits < MaxEdits
      /\ edits' = edits + 1 /\ journal' \in {"none", "other"} /\ dJournal' = journal'
      /\ dPlace' = place'
      /\ UNCHANGED <<pc, at, orphan, files, dFiles, current, desired, kept, frozen, rotten,
                     meddled, hasty, stops, faults>>
  BY DEF OtherInstall, LockFree, Running
<1>2. /\ dFiles["ready"] = "whole" /\ dFiles["done"] = "whole"
      /\ files["ready"] = "whole" /\ files["plan"] = "whole"
  BY <1>1 DEF RestoreInv, JournalInv, RecordInv, Records
<1>3. /\ place' \in [Items -> Place] /\ latest' \in [Items -> Tree]
      /\ \A i \in Items : place'[i].orig = latest'[i]
  <2>1. \A i \in Items : installed(i) \in Tree
    BY DEF Tree, Bodies, Identities
  <2>2. \A i \in Items : [place[i] EXCEPT !.orig = installed(i)] \in Place
    BY <2>1 DEF RestoreInv, TypeOK, Place
  <2>3. place' = [i \in Items |-> [place[i] EXCEPT !.orig = installed(i)]]
    BY DEF OtherInstall
  <2> HIDE DEF installed
  <2>4. place' \in [Items -> Place]
    BY <2>2, <2>3
  <2>5. latest' = [i \in Items |-> place'[i].orig]
    BY DEF OtherInstall
  <2> QED BY <2>4, <2>5 DEF Place
<1>4. TypeOK'
  BY <1>1, <1>3, BoundAssumption DEF RestoreInv, TypeOK
<1>5. RecordInv' /\ JournalInv' /\ DoneInv'
  BY <1>1, <1>2 DEF RestoreInv, RecordInv, JournalInv, DoneInv
<1>6. PlaceInv'
  BY <1>1, <1>2 DEF PlaceInv, Behind
<1>7. NothingDiscarded'
  BY <1>1, <1>3 DEF NothingDiscarded
<1>8. PreparedInv'
  BY <1>1, <1>2 DEF RestoreInv, PreparedInv, Candidate, Identity
<1>9. PhaseInv'
  BY <1>1, <1>2 DEF RestoreInv, TypeOK, PhaseInv
<1> QED BY <1>4, <1>5, <1>6, <1>7, <1>8, <1>9 DEF RestoreInv

LEMMA StopKeeps == ASSUME RestoreInv, Stop PROVE RestoreInv'
<1>1. \/ UNCHANGED place /\ orphan' = orphan
      \/ /\ pc \in {"prepare", "overlay"} /\ place' \in [Items -> Place] /\ at \in Items
         /\ place'[at] = [orig |-> place[at].orig, saved |-> place[at].saved, prep |-> Part]
         /\ \A j \in Items \ {at} : place'[j] = place[j]
         /\ orphan' \in {"none", "cp"} /\ UNCHANGED files
  BY TreeFacts, PrepPut DEF Stop, RestoreInv, TypeOK
<1>2. /\ Running /\ pc' = "idle"
      /\ files' \in [Records -> {"none", "partial", "whole"}]
      /\ \A r \in Records : files'[r] # files[r] =>
            SavingAt(r) /\ files[r] = "none" /\ files'[r] = "partial"
      /\ UNCHANGED <<at, dPlace, dFiles, current, desired, kept, journal, dJournal,
                     frozen, rotten, latest, meddled, hasty, edits, faults>>
  BY DEF Stop, Goto, RestoreInv, TypeOK
<1>3. TypeOK'
  BY <1>1, <1>2, BoundAssumption DEF RestoreInv, TypeOK, Labels, Stop
<1>4. RecordInv'
  BY DEF RestoreInv, RecordInv, TypeOK, Records, Running, Preparing, Moving, Stop, SavingAt,
     Goto
<1>5. JournalInv'
  BY DEF RestoreInv, JournalInv, Stop, Goto
<1>6. PlaceInv'
  BY <1>1, <1>2 DEF RestoreInv, PlaceInv, RecordInv, Records, Preparing
<1>7. NothingDiscarded'
  BY DEF RestoreInv, NothingDiscarded, TypeOK, PlaceInv, Behind, Gone, Place, Stop
<1>8. PreparedInv'
  BY DEF RestoreInv, PreparedInv, TypeOK, RecordInv, Preparing, Records, Candidate,
     Identity, Stop, Goto
<1>9. PhaseInv'
  BY <1>1, <1>2 DEF RestoreInv, PhaseInv, RecordInv, Records, Preparing
<1>10. DoneInv'
  BY DEF RestoreInv, DoneInv, Stop, Goto
<1> QED BY <1>3, <1>4, <1>5, <1>6, <1>7, <1>8, <1>9, <1>10 DEF RestoreInv

LEMMA PowerLossKeeps == ASSUME RestoreInv, PowerLoss PROVE RestoreInv'
<1>1. /\ pc' = "idle" /\ orphan' = "none" /\ place' \in [Items -> Place]
      /\ files' \in [Records -> {"none", "partial", "whole"}]
      /\ dFiles' = files' /\ dPlace' = place' /\ dJournal' = journal'
      /\ journal' \in {journal, dJournal}
      /\ hasty' = (hasty \/ (files["ready"] = "whole" /\ dFiles["ready"] # "whole"))
      /\ UNCHANGED <<at, current, desired, kept, frozen, rotten, latest, meddled, edits,
                     stops>>
  <2>1. \A i \in Items : PlaceSurvivor(i) \subseteq Place
    <3>1. \A i \in Items : [place[i] EXCEPT !.prep = Part] \in Place
      BY TreeFacts DEF RestoreInv, TypeOK, Place
    <3> QED BY <3>1 DEF PlaceSurvivor, RestoreInv, TypeOK
  <2>2. place' \in [Items -> Place]
    BY <2>1 DEF PowerLoss
  <2>3. hasty' = (hasty \/ (files["ready"] = "whole" /\ dFiles["ready"] # "whole"))
    BY DEF PowerLoss
  <2> QED BY <2>2, <2>3 DEF PowerLoss
<1>2. /\ \A r \in Records : files'[r] = "whole" => files[r] = "whole"
      /\ \A r \in Records : dFiles[r] = "whole" => files'[r] = "whole"
      /\ files'["ready"] # "none" => files'["plan"] = "whole"
      /\ files'["done"] # "none" => files'["ready"] = "whole"
  BY DEF PowerLoss, RecordSurvivor, RestoreInv, RecordInv
<1>3. \A i \in Items :
         /\ \/ place'[i] \in {place[i], dPlace[i]}
            \/ /\ dFiles["ready"] # "whole"
               /\ place'[i] = [orig |-> place[i].orig, saved |-> place[i].saved, prep |-> Part]
         /\ There(place'[i].prep) => files'["plan"] = "whole"
  <2>1. \A i \in Items : place'[i] \in PlaceSurvivor(i)
    BY DEF PowerLoss
  <2>2. \A i \in Items : There(place'[i].prep) => files'["plan"] = "whole"
    BY DEF PowerLoss
  <2> DEFINE torn(i) == [orig |-> place[i].orig, saved |-> place[i].saved, prep |-> Part]
  <2>3. \A i \in Items : \A p \in PlaceSurvivor(i) :
          p \in {place[i], dPlace[i]} \/ (dFiles["ready"] # "whole" /\ p = torn(i))
    BY SurvivorForms DEF RestoreInv
  <2> HIDE DEF torn
  <2>4. ASSUME NEW i \in Items
        PROVE  \/ place'[i] \in {place[i], dPlace[i]}
               \/ dFiles["ready"] # "whole" /\ place'[i] = torn(i)
    <3>1. place'[i] \in PlaceSurvivor(i)
      BY <2>1
    <3>2. \A p \in PlaceSurvivor(i) :
             p \in {place[i], dPlace[i]} \/ (dFiles["ready"] # "whole" /\ p = torn(i))
      BY <2>3
    <3> QED BY <3>1, <3>2
  <2> QED BY <2>4, <2>2 DEF torn
<1>4. TypeOK'
  BY <1>1, BoundAssumption DEF RestoreInv, TypeOK, Labels, PowerLoss
<1>5. RecordInv'
  BY DEF RestoreInv, RecordInv, Running, Preparing, Moving, PowerLoss
<1>6. JournalInv'
  BY DEF RestoreInv, JournalInv, RecordInv, Records, PowerLoss, RecordSurvivor
<1>7. PlaceInv'
  <2>1. dFiles'["ready"] # "whole" => dFiles["ready"] # "whole"
    BY <1>1, <1>2 DEF Records
  <2> QED BY <1>1, <1>2, <1>3, <2>1 DEF RestoreInv, PlaceInv, Behind
<1>8. NothingDiscarded'
  BY <1>1, <1>3 DEF RestoreInv, NothingDiscarded
<1>9. PreparedInv'
  BY <1>1, <1>2 DEF RestoreInv, PreparedInv, Candidate, Identity, Records
<1>10. PhaseInv'
  <2>1. edits' = 0 /\ files'["plan"] = "whole" /\ dFiles'["ready"] # "whole" =>
          \A i \in Items : place'[i].orig = current'[i]
    BY <1>1, <1>2, <1>3 DEF RestoreInv, PhaseInv, PlaceInv, Records
  <2>2. edits' = 0 /\ ~hasty' /\ dFiles'["ready"] = "whole" =>
          /\ edits = 0 /\ ~hasty /\ dFiles["ready"] = "whole"
          /\ \A i \in Items : place'[i] \in {place[i], dPlace[i]}
    BY <1>1, <1>2, <1>3 DEF Records
  <2> QED BY <1>1, <2>1, <2>2 DEF RestoreInv, PhaseInv
<1>11. DoneInv'
  BY DEF RestoreInv, DoneInv, PowerLoss
<1> QED BY <1>4, <1>5, <1>6, <1>7, <1>8, <1>9, <1>10, <1>11 DEF RestoreInv

LEMMA RotKeeps == ASSUME RestoreInv, NEW i \in Items, Rot(i) PROVE RestoreInv'
<1>1. TypeOK'
  BY BoundAssumption DEF RestoreInv, TypeOK, disk, Rot
<1>2. RecordInv'
  BY DEF RestoreInv, RecordInv, Running, disk, Rot
<1>3. JournalInv'
  BY DEF RestoreInv, JournalInv, disk, Rot
<1>4. PlaceInv'
  BY DEF RestoreInv, PlaceInv, disk, Rot
<1>5. NothingDiscarded'
  BY DEF RestoreInv, NothingDiscarded, disk, Rot
<1>6. PreparedInv'
  BY DEF RestoreInv, PreparedInv, Candidate, Identity, disk, Rot
<1>7. PhaseInv'
  BY DEF RestoreInv, PhaseInv, disk, Rot
<1>8. DoneInv'
  BY DEF RestoreInv, DoneInv, disk, Rot
<1> QED BY <1>1, <1>2, <1>3, <1>4, <1>5, <1>6, <1>7, <1>8 DEF RestoreInv

-----------------------------------------------------------------------------

LEMMA RestoreInit == Init => RestoreInv
<1> SUFFICES ASSUME Init PROVE RestoreInv
  OBVIOUS
<1>1. frozen \in [Items -> Tree] /\ latest \in [Items -> Tree]
  <2>1. \A i \in Items : Interrupted(i) \subseteq Tree
    BY TreeFacts DEF Init, Interrupted, Tree, Bodies, Identities
  <2> QED BY <2>1 DEF Init
<1>2. TypeOK
  <2>1. place \in [Items -> Place] /\ dPlace \in [Items -> Place]
    BY <1>1, TreeFacts DEF Init, Place
  <2>2. current \in [Items -> Tree] /\ desired \in [Items -> Tree]
    BY TreeFacts DEF Init
  <2>3. /\ kept \in 0..Slots /\ edits \in 0..MaxEdits
        /\ stops \in 0..MaxStops /\ faults \in 0..MaxFaults
    BY BoundAssumption DEF Init
  <2> QED BY <1>1, <2>1, <2>2, <2>3, TreeFacts DEF Init, TypeOK, Labels
<1>3. RecordInv /\ JournalInv /\ DoneInv
  BY DEF Init, RecordInv, JournalInv, DoneInv, Records, Running, Moving
<1>4. PlaceInv /\ NothingDiscarded
  BY TreeFacts DEF Init, PlaceInv, NothingDiscarded, Records
<1>5. PreparedInv /\ PhaseInv
  BY DEF Init, PreparedInv, PhaseInv, Records
<1> QED BY <1>2, <1>3, <1>4, <1>5 DEF RestoreInv

LEMMA StutterKeeps == ASSUME RestoreInv, UNCHANGED vars PROVE RestoreInv'
<1>1. TypeOK' /\ RecordInv' /\ JournalInv'
  BY DEF RestoreInv, vars, disk, world, TypeOK, RecordInv, JournalInv, Running
<1>2. PlaceInv' /\ NothingDiscarded' /\ PreparedInv' /\ PhaseInv' /\ DoneInv'
  BY DEF RestoreInv, vars, disk, world, PlaceInv, NothingDiscarded, PreparedInv, Candidate,
     Identity, PhaseInv, DoneInv
<1> QED BY <1>1, <1>2 DEF RestoreInv

LEMMA RestoreStep == RestoreInv /\ [Next]_vars => RestoreInv'
<1> SUFFICES ASSUME RestoreInv, [Next]_vars PROVE RestoreInv'
  OBVIOUS
<1>1. CASE Attempt
  BY <1>1, OpenKeeps, SavePlanKeeps, PlanSyncedKeeps, SetCandidateAsideKeeps, CloneKeeps,
     OverlayKeeps, RecheckKeeps, SaveReadyKeeps, ReadySyncedKeeps, ResyncKeeps, ValidateKeeps,
     VerifyOldKeeps, MoveOldKeeps, MoveNewKeeps, MoveSyncedKeeps, CheckKeeps, SaveDoneKeeps,
     DoneSyncedKeeps, UnlinkKeeps, UnlinkSyncedKeeps, SetRecordAsideKeeps DEF Attempt
<1>2. CASE OrphanEnds \/ Stop \/ PowerLoss \/ OtherInstall
  BY <1>2, OrphanEndsKeeps, StopKeeps, PowerLossKeeps, OtherInstallKeeps
<1>3. ASSUME NEW i \in Items, Edit(i) \/ Rot(i) PROVE RestoreInv'
  BY <1>3, EditKeeps, RotKeeps
<1>4. CASE UNCHANGED vars
  BY <1>4, StutterKeeps
<1> QED BY <1>1, <1>2, <1>3, <1>4 DEF Next

\* The invariant the promises of a restoration rest on.
THEOREM RestoreInvariance == Spec => []RestoreInv
<1>1. RestoreInv /\ [Next]_vars => RestoreInv'
  BY RestoreStep
<1> QED BY RestoreInit, <1>1, PTL DEF Spec

\* Whatever the destination last had of an entry is in its path or in its slot,
\* on the device too, at every moment of every attempt ("current destination
\* entries are never deleted", restore.py).
THEOREM NothingIsDiscarded == Spec => []NothingDiscarded
<1>1. RestoreInv => NothingDiscarded
  BY DEF RestoreInv
<1> QED BY <1>1, RestoreInvariance, PTL

\* Stopped or cut off from power, a restoration that nobody interferes with can
\* always be resumed: validate() accepts what any earlier attempt left.
THEOREM RestorationIsNeverWedged == Spec => []NeverWedged
<1>1. RestoreInv => NeverWedged
  <2> SUFFICES ASSUME RestoreInv, ~Running, orphan = "none", edits = 0, ~hasty
               PROVE  CanResume
    BY DEF NeverWedged
  <2>1. \A i \in Items : /\ place[i] \in Place /\ current[i] \in Tree /\ desired[i] \in Tree
                         /\ place[i] = [orig |-> place[i].orig, saved |-> place[i].saved,
                                        prep |-> place[i].prep]
    BY DEF RestoreInv, TypeOK, Place
  <2>2. CASE files["plan"] # "whole"
    BY <2>2 DEF CanResume, RestoreInv, RecordInv, PlaceInv, Records
  <2>3. CASE files["plan"] = "whole" /\ files["ready"] # "whole"
    BY <2>3 DEF CanResume, RestoreInv, RecordInv, PlaceInv, PhaseInv, Records
  <2>4. CASE files["plan"] = "whole" /\ files["ready"] = "whole"
    <3>1. ASSUME NEW i \in Items, place[i] \in Phases(current[i], desired[i]) PROVE Valid(i)
      BY <2>1, <3>1, TreeFacts DEF Phases, Valid, There
    <3>2. \A i \in Items : place[i] \in Phases(current[i], desired[i])
      <4>1. CASE dFiles["ready"] = "whole"
        BY <4>1 DEF RestoreInv, PhaseInv
      <4>2. CASE dFiles["ready"] # "whole"
        BY <2>1, <2>4, <4>2 DEF RestoreInv, PhaseInv, PlaceInv, PreparedInv, Phases, There
      <4> QED BY <4>1, <4>2
    <3> QED BY <2>4, <3>1, <3>2 DEF CanResume
  <2> QED BY <2>2, <2>3, <2>4
<1> QED BY <1>1, RestoreInvariance, PTL

\* The candidate in its path, with the displaced entry in its slot, is restored.
LEMMA DesiredIsRestored ==
    ASSUME RestoreInv, files["ready"] = "whole", NEW i \in Items,
           place[i].orig = desired[i], place[i].saved = current[i]
    PROVE  Restored(i)
BY DEF RestoreInv, PreparedInv, Candidate, Identity, Restored

\* The read-only verdict restore_verified (reconciliation.py) is true, and a
\* power loss cannot make it false.
THEOREM VerdictIsTrue == Spec => []VerifiedIsTrue
<1>1. RestoreInv => VerifiedIsTrue
  <2> SUFFICES ASSUME RestoreInv, ReconcileStatus = "restore_verified", NEW i \in Items
               PROVE  Restored(i) /\ dPlace[i] = place[i]
    BY DEF VerifiedIsTrue
  <2>1. /\ journal # "this" /\ files["ready"] = "whole"
        /\ place[i].orig = desired[i] /\ place[i].saved = current[i]
    BY DEF ReconcileStatus, Unfinished
  <2> QED BY <2>1, DesiredIsRestored DEF RestoreInv, JournalInv
<1> QED BY <1>1, RestoreInvariance, PTL

\* What was moved to a slot stays there for ever; a power loss can only bring
\* it back to the path it came from (the exclusive renames of restore.py).
THEOREM SlotsAreForGood == Spec => SavedForGood
<1> DEFINE Kept == \A i \in Items :
      LET p == place[i] IN
      There(p.saved) /\ place'[i].saved # p.saved =>
          ~There(place'[i].saved) /\ place'[i].orig = p.saved
<1>1. RestoreInv /\ [Next]_vars => [Kept]_vars
  <2> SUFFICES ASSUME RestoreInv, Next, NEW i \in Items, There(place[i].saved),
                      place'[i].saved # place[i].saved
               PROVE  ~There(place'[i].saved) /\ place'[i].orig = place[i].saved
    OBVIOUS
  <2>1. PowerLoss
    <3>1. ~Open /\ ~SavePlan /\ ~PlanSynced /\ ~Recheck /\ ~SaveReady /\ ~ReadySynced
          /\ ~Resync /\ ~Validate /\ ~VerifyOld /\ ~MoveSynced /\ ~Check /\ ~SaveDone
          /\ ~DoneSynced /\ ~Unlink /\ ~UnlinkSynced /\ ~(\E r \in Records : SetRecordAside(r))
      BY DEF Open, SavePlan, PlanSynced, Recheck, SaveReady, ReadySynced, Resync, Validate,
         VerifyOld, MoveSynced, Check, SaveDone, DoneSynced, Unlink, UnlinkSynced,
         SetRecordAside, disk
    <3>2. \A j \in Items, t \in Tree : place' # [place EXCEPT ![j].prep = t]
      <4> SUFFICES ASSUME NEW j \in Items, NEW t \in Tree, place' = [place EXCEPT ![j].prep = t]
                   PROVE  place'[i].saved = place[i].saved
        OBVIOUS
      <4> QED BY DEF RestoreInv
    <3>3. ~SetCandidateAside /\ ~Clone
      BY <3>2, TreeFacts DEF SetCandidateAside, Clone, RestoreInv, TypeOK
    <3>4. ~Overlay /\ ~MoveOld /\ ~MoveNew
      BY TreeFacts DEF Overlay, MoveOld, MoveNew, RestoreInv, TypeOK, Place
    <3>5. \A j \in Items, t \in Tree : ~PutOrig(j, t)
      <4> SUFFICES ASSUME NEW j \in Items, NEW t \in Tree, PutOrig(j, t)
                   PROVE  place'[i].saved = place[i].saved
        OBVIOUS
      <4>1. OrigChanged(j, t)
        BY PutOrigFacts DEF RestoreInv
      <4> QED BY <4>1 DEF OrigChanged
    <3>6. ~OrphanEnds /\ ~Stop /\ ~OtherInstall
      BY DEF OrphanEnds, Stop, OtherInstall, PutOrig, RestoreInv, TypeOK, Place
    <3>7. \A j \in Items : ~Edit(j) /\ ~Rot(j)
      <4>1. \A j \in Items : Edit(j) => \E t \in Tree : PutOrig(j, t)
        BY EditPuts DEF RestoreInv
      <4> QED BY <3>5, <4>1 DEF Rot, disk
    <3> QED BY <3>1, <3>3, <3>4, <3>6, <3>7 DEF Next, Attempt
  <2>2. place'[i] \in PlaceSurvivor(i)
    BY <2>1 DEF PowerLoss
  <2>3. place'[i] = dPlace[i]
    <3>1. \A p \in PlaceSurvivor(i) : p \in {place[i], dPlace[i]} \/ p.saved = place[i].saved
      BY SurvivorForms DEF RestoreInv
    <3>2. place'[i] \in {place[i], dPlace[i]}
      BY <2>2, <3>1
    <3> QED BY <3>2
  <2>4. dFiles["ready"] = "whole" /\ Behind(dPlace[i], place[i], current[i])
    BY DEF RestoreInv, PlaceInv
  <2>5. ~There(dPlace[i].saved) /\ dPlace[i].orig = place[i].saved
    BY <2>3, <2>4 DEF Behind, There
  <2> QED BY <2>3, <2>5
<1> QED BY <1>1, RestoreInvariance, PTL DEF Spec, SavedForGood

\* The pending record goes only when every entry is restored and every
\* displaced one is in its slot, on the device, with a completion record.
THEOREM RecordGoesLast == Spec => ClearedMeansRestored
<1> DEFINE Cleared == journal = "this" /\ journal' # "this" /\ dJournal = "this" =>
      /\ dFiles["done"] = "whole"
      /\ \A i \in Items : /\ place[i].saved = current[i] /\ dPlace[i] = place[i]
                          /\ ~meddled => Restored(i)
<1>1. RestoreInv /\ [Next]_vars => [Cleared]_vars
  <2> SUFFICES ASSUME RestoreInv, Next, journal = "this", journal' # "this", dJournal = "this"
               PROVE  /\ dFiles["done"] = "whole"
                      /\ \A i \in Items : /\ place[i].saved = current[i] /\ dPlace[i] = place[i]
                                          /\ ~meddled => Restored(i)
    OBVIOUS
  <2>1. pc = "unlink"
    <3>1. Attempt => Unlink
      BY DEF Attempt, Open, SavePlan, PlanSynced, SetCandidateAside, Clone, Overlay,
         Recheck, SaveReady, ReadySynced, Resync, Validate, VerifyOld, MoveOld, MoveNew,
         MoveSynced, Check, SaveDone, DoneSynced, UnlinkSynced, SetRecordAside, disk
    <3>2. ~OrphanEnds /\ ~Stop /\ ~OtherInstall /\ ~PowerLoss
      BY DEF OrphanEnds, Stop, OtherInstall, PowerLoss
    <3>3. \A i \in Items : ~Edit(i) /\ ~Rot(i)
      BY DEF Edit, Rot, disk
    <3> QED BY <3>1, <3>2, <3>3 DEF Next, Unlink
  <2>2. /\ dFiles["done"] = "whole" /\ files["ready"] = "whole" /\ dPlace = place
        /\ \A i \in Items : place[i].saved = current[i] /\ (meddled \/ place[i].orig = desired[i])
    BY <2>1 DEF RestoreInv, RecordInv, DoneInv
  <2> QED BY <2>2, DesiredIsRestored
<1> QED BY <1>1, RestoreInvariance, PTL DEF Spec, ClearedMeansRestored
=============================================================================
