---------------------- MODULE DestinationInstallProofs ----------------------
(***************************************************************************)
(* The safety of the protected installation for any number of entries,     *)
(* attempts, user versions, power losses and damaged copies.               *)
(*                                                                         *)
(* IInv of DestinationInstall is inductive.  Its core is that a shell is   *)
(* past Arm only with a record and copies on the device (RecordInv), that  *)
(* originals may be torn only then (OriginalInv), and that each version    *)
(* the user wrote is covered at that moment (SafeInv).                     *)
(***************************************************************************)
EXTENDS DestinationInstall, TLAPS


\* A signed-in destination without a record satisfies the invariant.
LEMMA InitIInv == Init => IInv
<1> SUFFICES ASSUME Init PROVE IInv
  OBVIOUS
<1>0. 1 \in Items /\ 0 \in 0..MaxFaults
  BY ScopeAssumption, BoundAssumption DEF Items
<1>1. TypeOK
  BY <1>0 DEF Init, TypeOK, Trees, Content, Journals, Phases
<1>2. LockInv /\ FreshInv /\ RecordInv /\ ProgressInv
  BY ActorAssumption DEF Init, LockInv, FreshInv, RecordInv, ProgressInv, Protected, Active, Running, Preparing, Recorded, Trapped, Rollback, Clearing, Orphan
<1>3. OriginalInv
  BY ContentAssumption DEF Init, OriginalInv
<1>4. IdentityInv
  BY <1>0, ContentAssumption DEF Init, IdentityInv, Active, Running, Preparing, Recorded, Trapped, Rollback, Clearing, Orphan
<1>5. SafeInv
  BY DEF Init, SafeInv, Protected, Active, Running, Preparing, Recorded, Trapped, Rollback, Clearing, Orphan
<1> QED BY <1>1, <1>2, <1>3, <1>4, <1>5 DEF IInv


\* What a copy (cp and verify_backup) of one entry can change: the attempt's
\* own backup and its place in the loop, nothing else.
LEMMA CopyStep ==
    ASSUME TypeOK, NEW s \in Shells, CopyItem(s)
    PROVE  /\ bak' \in [Shells -> Trees]
           /\ \A t \in Shells \ {s} : bak'[t] = bak[t]
           /\ \A i \in Items : i # idx[s] => bak'[s][i] = bak[s][i]
           /\ bak'[s][idx[s]] \in {orig[idx[s]], Torn}
           /\ pc' \in [Shells -> Active \cup {"off", "done", "dead"}]
           /\ idx' \in [Shells -> Items]
           /\ holder' \in {holder, NoOne}
           /\ \A t \in Shells \ {s} : pc'[t] = pc[t]
           /\ pc'[s] \in {"copy", "prepare", "dead"}
<1> DEFINE i == idx[s]
<1>1. i \in Items /\ orig[i] \in Content /\ Torn \in Content
  BY DEF TypeOK, Trees, Content
<1>2. PICK c \in {orig[i], Torn} : bak' = [bak EXCEPT ![s][i] = c]
  BY DEF CopyItem
<1>3. /\ bak' \in [Shells -> Trees]
      /\ \A t \in Shells \ {s} : bak'[t] = bak[t]
      /\ \A j \in Items : j # i => bak'[s][j] = bak[s][j]
      /\ bak'[s][i] = c
  BY <1>1, <1>2 DEF TypeOK, Trees
<1>4. /\ pc' \in [Shells -> Active \cup {"off", "done", "dead"}]
      /\ \A t \in Shells \ {s} : pc'[t] = pc[t]
      /\ pc'[s] \in {"copy", "prepare", "dead"}
  BY DEF CopyItem, Advance, Goto, Exit, TypeOK, Active, Running, Preparing
<1>5. idx' \in [Shells -> Items]
  BY ScopeAssumption DEF CopyItem, Advance, TypeOK, Items
<1>6. holder' \in {holder, NoOne}
  BY DEF CopyItem, Exit
<1> QED BY <1>2, <1>3, <1>4, <1>5, <1>6

\* A copy stays within the types.
LEMMA CopyType ==
    ASSUME TypeOK, NEW s \in Shells, CopyItem(s) PROVE TypeOK'
<1>1. UNCHANGED <<staged, orig, dOrig, dBak, frozen, journal, dJournal,
                   receipt, dReceipt, leftover, latest, losses, damage>>
  BY DEF CopyItem, faults
<1> QED BY <1>1, CopyStep DEF TypeOK, Journals

\* A copy of ~/.codex has the identity files that the original has.
LEMMA CopyIdentity ==
    ASSUME TypeOK, IdentityInv, NEW s \in Shells, CopyItem(s) PROVE IdentityInv'
<1>1. UNCHANGED <<staged, orig, dOrig, dBak>>
  BY DEF CopyItem
<1>2. 1 \in Items
  BY ScopeAssumption DEF Items
<1>3. \A t \in Shells : bak'[t][1] # Bare
  BY <1>1, <1>2, CopyStep, ContentAssumption DEF IdentityInv
<1>4. \A t \in Shells : pc'[t] \in Active \ {"check", "copy", "prepare"} =>
                        pc[t] \in Active \ {"check", "copy", "prepare"}
  BY CopyStep DEF Active, Running, Preparing, Recorded, Trapped, Rollback, Clearing, Orphan
<1> QED BY <1>1, <1>3, <1>4 DEF IdentityInv

\* A copy into a backup that no record names yet leaves the evidence for the
\* user's versions as it was.
LEMMA CopySafe ==
    ASSUME TypeOK, SafeInv, FreshInv, LockInv, NEW s \in Shells, CopyItem(s) PROVE SafeInv'
<1>1. UNCHANGED <<orig, dOrig, dBak, frozen, journal, dJournal, receipt, dReceipt, latest, damage>>
  BY DEF CopyItem, faults
<1>2. pc[s] \in Fresh
  BY DEF CopyItem, Fresh, Preparing
<1>3. journal # s /\ receipt[s] # "installed"
  BY <1>2 DEF FreshInv
<1>4. \A t \in Shells \ {s} : bak'[t] = bak[t]
  BY CopyStep
<1>5. \A i \in Items : Kept(i) => Kept(i)'
  BY <1>1, <1>3, <1>4 DEF Kept
<1>6. \A t \in Shells : pc'[t] \in Protected => pc[t] \in Protected
  BY CopyStep DEF Protected, Active, Running, Preparing, Recorded, Trapped, Rollback, Clearing, Orphan
<1> QED BY <1>1, <1>3, <1>4, <1>5, <1>6 DEF SafeInv

\* The evidence for the user's versions survives a step that touches no
\* backup and no receipt.
LEMMA KeptStays ==
    ASSUME UNCHANGED <<bak, dBak, receipt, dReceipt, latest>>
    PROVE  \A i \in Items : Kept(i) => Kept(i)'
BY DEF Kept

\* SafeInv survives a step that changes no entry, no copy and no version.
LEMMA QuietSafe ==
    ASSUME IInv,
           UNCHANGED <<orig, dOrig, bak, dBak, frozen, journal, dJournal,
                       receipt, dReceipt, latest, damage>>,
           \A t \in Shells : pc'[t] \in Protected => pc[t] \in Protected
    PROVE  SafeInv'
<1>1. \A i \in Items : Kept(i) => Kept(i)'
  BY KeptStays
<1> QED BY <1>1 DEF IInv, SafeInv

\* What a killed shell changes: where it is, and the lock when no child is
\* left to hold it.
LEMMA KillStep ==
    ASSUME IInv, NEW s \in Shells, Kill(s)
    PROVE  /\ UNCHANGED <<staged, orig, dOrig, bak, dBak, frozen, journal,
                          dJournal, receipt, dReceipt, latest, damage>>
           /\ \A t \in Shells \ {s} : pc'[t] = pc[t]
           /\ pc'[s] \in {"dead", "orphanRm", "orphanCp"}
           /\ pc'[s] # "dead" => pc[s] \in {"place", "rbRemove", "rbCopy"}
<1>1. /\ UNCHANGED <<staged, orig, dOrig, bak, dBak, frozen, journal,
                       dJournal, receipt, dReceipt, latest, damage>>
  BY DEF Kill, disk, faults
<1>2. pc'[s] # "dead" => pc[s] \in {"place", "rbRemove", "rbCopy"}
  BY DEF Kill, Goto, Exit, IInv, TypeOK
<1>3. PICK l \in {"dead", "orphanRm", "orphanCp"} : pc' = [pc EXCEPT ![s] = l]
  BY DEF Kill, Goto, Exit
<1>4. \A t \in Shells : pc'[t] = IF t = s THEN l ELSE pc[t]
  BY <1>3 DEF IInv, TypeOK
<1> QED BY <1>1, <1>2, <1>4

\* A step that may change entries, taken by a protected shell, loses nothing:
\* each version is under that shell's durable record.
LEMMA ReplaceSafe ==
    ASSUME IInv, NEW s \in Shells, pc[s] \in Protected \ {"arm", "clearSync"},
           pc'[s] \in Protected \cup {"dead"},
           \A t \in Shells \ {s} : pc'[t] = pc[t],
           UNCHANGED <<bak, dBak, frozen, journal, dJournal, receipt, dReceipt,
                       dOrig, latest, damage>>,
           \A i \in Items \ {idx[s]} : orig'[i] = orig[i]
    PROVE  SafeInv'
<1> SUFFICES ASSUME damage = 0
             PROVE  \A i \in Items :
            /\ \/ orig'[i] = latest[i] /\ dOrig[i] = latest[i]
               \/ Kept(i)
               \/ \E t \in Shells : /\ journal = t /\ dJournal = t
                                    /\ bak[t][i] = latest[i] /\ dBak[t][i] = latest[i]
            /\ \A t \in Shells : pc'[t] \in Protected =>
                    frozen[t][i] = latest[i] \/ Kept(i)
  BY DEF SafeInv, Kept
<1>1. /\ journal = s /\ dJournal = s
      /\ bak[s] = frozen[s] /\ dBak[s] = frozen[s]
  BY DEF IInv, LockInv, RecordInv, Recoverable
<1>2. \A i \in Items : frozen[s][i] = latest[i] \/ Kept(i)
  BY DEF IInv, SafeInv
<1>3. TAKE i \in Items
<1>4. \/ orig'[i] = latest[i] /\ dOrig[i] = latest[i]
      \/ Kept(i)
      \/ \E t \in Shells : /\ journal = t /\ dJournal = t
                           /\ bak[t][i] = latest[i] /\ dBak[t][i] = latest[i]
  BY <1>1, <1>2
<1>5. \A t \in Shells : pc'[t] \in Protected => frozen[t][i] = latest[i] \/ Kept(i)
  BY <1>2 DEF IInv, SafeInv
<1> QED BY <1>4, <1>5

\* The five steps that change entries are of that kind.
LEMMA ReplaceSteps == ASSUME IInv, NEW s \in Shells, RemoveItem(s) \/ PlaceItem(s) \/ RollbackRemove(s) \/ RollbackCopy(s) \/ OrphanEnds(s) PROVE SafeInv'
<1>1. pc[s] \in Protected \ {"arm", "clearSync"}
  BY DEF RemoveItem, PlaceItem, RollbackRemove, RollbackCopy, OrphanEnds, Protected, Active, Running, Preparing, Recorded, Trapped, Rollback, Clearing, Orphan
<1>2. pc'[s] \in Protected \cup {"dead"}
  BY DEF IInv, TypeOK, RemoveItem, PlaceItem, RollbackRemove, RollbackCopy, OrphanEnds, Goto, Exit, Advance, Protected, Active, Running, Preparing, Recorded, Trapped, Rollback, Clearing, Orphan
<1>3. \A t \in Shells \ {s} : pc'[t] = pc[t]
  BY DEF IInv, TypeOK, RemoveItem, PlaceItem, RollbackRemove, RollbackCopy, OrphanEnds, Goto, Exit, Advance
<1>4. UNCHANGED <<bak, dBak, frozen, journal, dJournal, receipt, dReceipt, dOrig, latest, damage>>
  BY DEF RemoveItem, PlaceItem, RollbackRemove, RollbackCopy, OrphanEnds, faults
<1>5. \A i \in Items \ {idx[s]} : orig'[i] = orig[i]
  BY DEF IInv, TypeOK, Trees, RemoveItem, PlaceItem, RollbackRemove, RollbackCopy, OrphanEnds
<1> QED BY <1>1, <1>2, <1>3, <1>4, <1>5, ReplaceSafe

\* mv puts no ~/.codex without identity files in place.
LEMMA PlaceIdentity == ASSUME IInv, NEW s \in Shells, PlaceItem(s) PROVE IdentityInv'
<1>1. 1 \in Items
  BY ScopeAssumption DEF Items
<1>2. UNCHANGED <<dOrig, bak, dBak>>
  BY DEF PlaceItem
<1>3. staged[1] # Bare
  BY DEF PlaceItem, IInv, IdentityInv, Active, Running, Trapped
<1>4. staged'[1] # Bare /\ orig'[1] # Bare
  BY <1>1, <1>3, ContentAssumption DEF PlaceItem, IInv, TypeOK, Trees, IdentityInv
<1> QED BY <1>2, <1>4 DEF IInv, IdentityInv

-----------------------------------------------------------------------------

\* Up to the record: nothing the user has is touched yet.
LEMMA PrepareKeeps ==
    ASSUME IInv, NEW s \in Shells,
           Start(s) \/ Check(s) \/ CopyItem(s) \/ PrepareIdentity(s) \/ Begin(s)
    PROVE  IInv'
<1> USE DEF Goto, Exit, Advance, Fresh, Preparing, Recorded, Trapped,
           Rollback, Clearing, Orphan, Running, Active, Protected
<1>1. CASE Start(s)
  <2>1. TypeOK'
    BY <1>1
    DEF Start, TypeOK, IInv, CanLock, disk, faults, Items, Trees, Journals,
        Phases, Content, Recoverable, Kept
  <2>2. LockInv' /\ FreshInv' /\ ProgressInv'
    BY <1>1, ContentAssumption, ActorAssumption
    DEF Start, LockInv, FreshInv, RecordInv, ProgressInv, TypeOK, IInv,
        CanLock, disk, faults, Items, Recoverable, Trees, Journals, Phases,
        Content, Kept
  <2>3. RecordInv' /\ OriginalInv' /\ IdentityInv'
    BY <1>1
    DEF Start, RecordInv, OriginalInv, IdentityInv, TypeOK, IInv, CanLock,
        disk, faults, Items, Recoverable, Trees, Journals, Phases, Content,
        Kept
  <2>4. SafeInv'
    BY <1>1
    DEF Start, SafeInv, TypeOK, IInv, CanLock, disk, faults, Items, Kept,
        Trees, Journals, Phases, Content, Recoverable
  <2> QED BY <2>1, <2>2, <2>3, <2>4 DEF IInv
<1>2. CASE Check(s)
  <2>1. TypeOK'
    BY <1>2
    DEF Check, TypeOK, IInv, Items, disk, faults, Trees, Journals, Phases,
        Content, Recoverable, Kept
  <2>2. LockInv' /\ FreshInv' /\ ProgressInv'
    BY <1>2
    DEF Check, LockInv, FreshInv, ProgressInv, TypeOK, IInv, Items, disk,
        faults, Trees, Journals, Phases, Content, Recoverable, Kept
  <2>3. RecordInv' /\ OriginalInv' /\ IdentityInv'
    BY <1>2
    DEF Check, RecordInv, OriginalInv, IdentityInv, TypeOK, IInv, Items,
        disk, faults, Recoverable, Trees, Journals, Phases, Content, Kept
  <2>4. SafeInv'
    BY <1>2
    DEF Check, SafeInv, TypeOK, IInv, Items, disk, faults, Kept, Trees,
        Journals, Phases, Content, Recoverable
  <2> QED BY <2>1, <2>2, <2>3, <2>4 DEF IInv
<1>3. CASE CopyItem(s)
  <2>1. TypeOK'
    BY <1>3, CopyType DEF IInv
  <2>2. LockInv' /\ FreshInv' /\ ProgressInv'
    BY <1>3
    DEF CopyItem, LockInv, FreshInv, ProgressInv, TypeOK, IInv, faults,
        Items, Trees, Journals, Phases, Content, Recoverable, Kept
  <2>3. RecordInv'
    <3>1. pc[s] \notin Protected /\ pc'[s] \notin Protected
      BY <1>3, CopyStep DEF CopyItem, IInv
    <3>2. UNCHANGED <<frozen, dBak, damage>>
      BY <1>3 DEF CopyItem, faults
    <3> QED BY <1>3, <3>1, <3>2, CopyStep DEF IInv, RecordInv, Recoverable
  <2>4. OriginalInv'
    BY <1>3
    DEF CopyItem, LockInv, FreshInv, OriginalInv, TypeOK, IInv, faults,
        Items, Recoverable, Trees, Journals, Phases, Content, Kept
  <2>5. IdentityInv'
    BY <1>3, CopyIdentity DEF IInv
  <2>6. SafeInv'
    BY <1>3, CopySafe DEF IInv
  <2> QED BY <2>1, <2>2, <2>3, <2>4, <2>5, <2>6 DEF IInv
<1>4. CASE PrepareIdentity(s)
  <2>1. TypeOK'
    BY <1>4
    DEF PrepareIdentity, TypeOK, IInv, disk, faults, Items, Trees, Journals,
        Phases, Content, Recoverable, Kept
  <2>2. LockInv' /\ FreshInv' /\ ProgressInv'
    BY <1>4
    DEF PrepareIdentity, LockInv, FreshInv, ProgressInv, TypeOK, IInv, disk,
        faults, Items, Trees, Journals, Phases, Content, Recoverable, Kept
  <2>3. RecordInv' /\ OriginalInv' /\ IdentityInv'
    BY <1>4, ScopeAssumption, ContentAssumption, ActorAssumption
    DEF PrepareIdentity, LockInv, FreshInv, RecordInv, OriginalInv,
        ProgressInv, IdentityInv, SafeInv, TypeOK, IInv, disk, faults,
        Items, Recoverable, Kept, Trees, Journals, Phases, Content
  <2>4. SafeInv'
    BY <1>4
    DEF PrepareIdentity, SafeInv, TypeOK, IInv, disk, faults, Items, Kept,
        Trees, Journals, Phases, Content, Recoverable
  <2> QED BY <2>1, <2>2, <2>3, <2>4 DEF IInv
<1>5. CASE Begin(s)
  <2>1. TypeOK'
    BY <1>5
    DEF Begin, TypeOK, IInv, Items, faults, Trees, Journals, Phases,
        Content, Recoverable, Kept
  <2>2. LockInv' /\ FreshInv' /\ ProgressInv'
    BY <1>5, ScopeAssumption, ContentAssumption, ActorAssumption
    DEF Begin, LockInv, FreshInv, RecordInv, OriginalInv, ProgressInv,
        IdentityInv, SafeInv, TypeOK, IInv, Items, faults, Recoverable,
        Kept, Trees, Journals, Phases, Content
  <2>3. RecordInv' /\ OriginalInv' /\ IdentityInv'
    BY <1>5, ContentAssumption, ActorAssumption
    DEF Begin, LockInv, RecordInv, OriginalInv, ProgressInv, IdentityInv,
        TypeOK, IInv, Items, faults, Recoverable, Trees, Journals, Phases,
        Content, Kept
  <2>4. SafeInv'
    BY <1>5, ContentAssumption, ActorAssumption
    DEF Begin, LockInv, RecordInv, ProgressInv, SafeInv, TypeOK, IInv,
        Items, faults, Recoverable, Kept, Trees, Journals, Phases, Content
  <2> QED BY <2>1, <2>2, <2>3, <2>4 DEF IInv
<1> QED BY <1>1, <1>2, <1>3, <1>4, <1>5

\* The replacement itself, under a durable record.
LEMMA ReplaceKeeps ==
    ASSUME IInv, NEW s \in Shells,
           Arm(s) \/ Guard(s) \/ RemoveItem(s) \/ PlaceItem(s) \/ Verify(s)
    PROVE  IInv'
<1> USE DEF Goto, Exit, Advance, Fresh, Preparing, Recorded, Trapped,
           Rollback, Clearing, Orphan, Running, Active, Protected
<1>1. CASE Arm(s)
  <2>1. TypeOK'
    BY <1>1
    DEF Arm, TypeOK, IInv, faults, Items, Trees, Journals, Phases, Content,
        Recoverable, Kept
  <2>2. LockInv' /\ FreshInv' /\ ProgressInv'
    BY <1>1
    DEF Arm, LockInv, FreshInv, ProgressInv, TypeOK, IInv, faults, Items,
        Trees, Journals, Phases, Content, Recoverable, Kept
  <2>3. RecordInv' /\ OriginalInv' /\ IdentityInv'
    BY <1>1
    DEF Arm, RecordInv, OriginalInv, IdentityInv, TypeOK, IInv, faults,
        Items, Recoverable, Trees, Journals, Phases, Content, Kept
  <2>4. SafeInv'
    BY <1>1
    DEF Arm, SafeInv, TypeOK, IInv, faults, Items, Kept, Trees, Journals,
        Phases, Content, Recoverable
  <2> QED BY <2>1, <2>2, <2>3, <2>4 DEF IInv
<1>2. CASE Guard(s)
  <2>1. TypeOK'
    BY <1>2, ScopeAssumption
    DEF Guard, TypeOK, IInv, disk, faults, Items, Trees, Journals, Phases,
        Content, Recoverable, Kept
  <2>2. LockInv' /\ FreshInv' /\ ProgressInv'
    BY <1>2
    DEF Guard, LockInv, FreshInv, ProgressInv, TypeOK, IInv, disk, faults,
        Items, Trees, Journals, Phases, Content, Recoverable, Kept
  <2>3. RecordInv' /\ OriginalInv' /\ IdentityInv'
    BY <1>2
    DEF Guard, RecordInv, OriginalInv, IdentityInv, TypeOK, IInv, disk,
        faults, Items, Recoverable, Trees, Journals, Phases, Content, Kept
  <2>4. SafeInv'
    BY <1>2
    DEF Guard, SafeInv, TypeOK, IInv, disk, faults, Items, Kept, Trees,
        Journals, Phases, Content, Recoverable
  <2> QED BY <2>1, <2>2, <2>3, <2>4 DEF IInv
<1>3. CASE RemoveItem(s)
  <2>1. TypeOK'
    BY <1>3
    DEF RemoveItem, TypeOK, IInv, faults, Items, Trees, Journals, Phases,
        Content, Recoverable, Kept
  <2>2. LockInv' /\ FreshInv' /\ ProgressInv'
    BY <1>3
    DEF RemoveItem, LockInv, FreshInv, ProgressInv, TypeOK, IInv, faults,
        Items, Trees, Journals, Phases, Content, Recoverable, Kept
  <2>3. RecordInv'
    BY <1>3 DEF RemoveItem, RecordInv, TypeOK, IInv, faults, Recoverable
  <2>4. OriginalInv'
    <3>1. journal = s /\ dJournal = s /\ Recoverable(s)
      BY <1>3 DEF RemoveItem, IInv, LockInv, RecordInv
    <3>2. UNCHANGED <<journal, dJournal, bak, dBak, frozen, damage>>
      BY <1>3 DEF RemoveItem, faults
    <3> QED BY <3>1, <3>2 DEF OriginalInv, Recoverable
  <2>5. IdentityInv'
    <3>1. orig'[1] # Bare
      BY <1>3, ScopeAssumption, ContentAssumption
      DEF RemoveItem, IInv, IdentityInv, TypeOK, Trees, Items
    <3> QED BY <1>3, <3>1 DEF RemoveItem, IInv, IdentityInv, TypeOK
  <2>6. SafeInv'
    BY <1>3, ReplaceSteps DEF IInv
  <2> QED BY <2>1, <2>2, <2>3, <2>4, <2>5, <2>6 DEF IInv
<1>4. CASE PlaceItem(s)
  <2>1. TypeOK'
    BY <1>4, ScopeAssumption
    DEF PlaceItem, TypeOK, IInv, faults, Items, Trees, Journals, Phases,
        Content, Recoverable, Kept
  <2>2. LockInv' /\ FreshInv' /\ ProgressInv'
    BY <1>4
    DEF PlaceItem, LockInv, FreshInv, ProgressInv, TypeOK, IInv, faults,
        Items, Trees, Journals, Phases, Content, Recoverable, Kept
  <2>3. RecordInv' /\ OriginalInv'
    BY <1>4, ContentAssumption, ActorAssumption
    DEF PlaceItem, LockInv, RecordInv, OriginalInv, ProgressInv, TypeOK,
        IInv, faults, Items, Recoverable, Trees, Journals, Phases, Content,
        Kept
  <2>4. IdentityInv'
    BY <1>4, PlaceIdentity DEF IInv
  <2>5. SafeInv'
    BY <1>4, ReplaceSteps DEF IInv
  <2> QED BY <2>1, <2>2, <2>3, <2>4, <2>5 DEF IInv
<1>5. CASE Verify(s)
  <2>1. TypeOK'
    BY <1>5
    DEF Verify, TypeOK, IInv, Items, disk, faults, Trees, Journals, Phases,
        Content, Recoverable, Kept
  <2>2. LockInv' /\ FreshInv' /\ ProgressInv'
    BY <1>5
    DEF Verify, LockInv, FreshInv, ProgressInv, TypeOK, IInv, Items, disk,
        faults, Trees, Journals, Phases, Content, Recoverable, Kept
  <2>3. RecordInv' /\ OriginalInv' /\ IdentityInv'
    BY <1>5
    DEF Verify, RecordInv, OriginalInv, IdentityInv, TypeOK, IInv, Items,
        disk, faults, Recoverable, Trees, Journals, Phases, Content, Kept
  <2>4. SafeInv'
    BY <1>5
    DEF Verify, SafeInv, TypeOK, IInv, Items, disk, faults, Kept, Trees,
        Journals, Phases, Content, Recoverable
  <2> QED BY <2>1, <2>2, <2>3, <2>4 DEF IInv
<1> QED BY <1>1, <1>2, <1>3, <1>4, <1>5

\* Receipt, barrier and removal of the record.
LEMMA SettleKeeps ==
    ASSUME IInv, NEW s \in Shells,
           SaveInstalled(s) \/ Seal(s) \/ Clear(s) \/ ClearSync(s)
    PROVE  IInv'
<1> USE DEF Goto, Exit, Advance, Fresh, Preparing, Recorded, Trapped,
           Rollback, Clearing, Orphan, Running, Active, Protected
<1>1. CASE SaveInstalled(s)
  <2>1. TypeOK'
    BY <1>1
    DEF SaveInstalled, TypeOK, IInv, BackupMatches, Items, faults, Trees,
        Journals, Phases, Content, Recoverable, Kept
  <2>2. LockInv' /\ FreshInv' /\ ProgressInv'
    BY <1>1
    DEF SaveInstalled, LockInv, FreshInv, ProgressInv, TypeOK, IInv,
        BackupMatches, Items, faults, Trees, Journals, Phases, Content,
        Recoverable, Kept
  <2>3. RecordInv' /\ OriginalInv' /\ IdentityInv'
    BY <1>1
    DEF SaveInstalled, RecordInv, OriginalInv, IdentityInv, TypeOK, IInv,
        BackupMatches, Items, faults, Recoverable, Trees, Journals, Phases,
        Content, Kept
  <2>4. SafeInv'
    BY <1>1
    DEF SaveInstalled, SafeInv, TypeOK, IInv, BackupMatches, Items, faults,
        Kept, Trees, Journals, Phases, Content, Recoverable
  <2> QED BY <2>1, <2>2, <2>3, <2>4 DEF IInv
<1>2. CASE Seal(s)
  <2>1. TypeOK'
    BY <1>2
    DEF Seal, TypeOK, IInv, faults, Items, Trees, Journals, Phases, Content,
        Recoverable, Kept
  <2>2. LockInv' /\ FreshInv' /\ ProgressInv'
    BY <1>2
    DEF Seal, LockInv, FreshInv, ProgressInv, TypeOK, IInv, faults, Items,
        Trees, Journals, Phases, Content, Recoverable, Kept
  <2>3. RecordInv' /\ OriginalInv' /\ IdentityInv'
    BY <1>2
    DEF Seal, RecordInv, OriginalInv, IdentityInv, TypeOK, IInv, faults,
        Items, Recoverable, Trees, Journals, Phases, Content, Kept
  <2>4. SafeInv'
    BY <1>2
    DEF Seal, SafeInv, TypeOK, IInv, faults, Items, Kept, Trees, Journals,
        Phases, Content, Recoverable
  <2> QED BY <2>1, <2>2, <2>3, <2>4 DEF IInv
<1>3. CASE Clear(s)
  <2>1. TypeOK'
    BY <1>3
    DEF Clear, TypeOK, IInv, faults, Items, Trees, Journals, Phases,
        Content, Recoverable, Kept
  <2>2. LockInv' /\ FreshInv' /\ ProgressInv'
    BY <1>3, ContentAssumption, ActorAssumption
    DEF Clear, LockInv, FreshInv, RecordInv, ProgressInv, TypeOK, IInv,
        faults, Items, Recoverable, Trees, Journals, Phases, Content, Kept
  <2>3. RecordInv' /\ OriginalInv' /\ IdentityInv'
    BY <1>3, ScopeAssumption, ContentAssumption, ActorAssumption
    DEF Clear, LockInv, FreshInv, RecordInv, OriginalInv, ProgressInv,
        IdentityInv, SafeInv, TypeOK, IInv, faults, Items, Recoverable,
        Kept, Trees, Journals, Phases, Content
  <2>4. SafeInv'
    BY <1>3, ScopeAssumption, ContentAssumption, ActorAssumption
    DEF Clear, LockInv, FreshInv, RecordInv, OriginalInv, ProgressInv,
        IdentityInv, SafeInv, TypeOK, IInv, faults, Items, Recoverable,
        Kept, Trees, Journals, Phases, Content
  <2> QED BY <2>1, <2>2, <2>3, <2>4 DEF IInv
<1>4. CASE ClearSync(s)
  <2>1. TypeOK'
    BY <1>4
    DEF ClearSync, TypeOK, IInv, faults, Items, Trees, Journals, Phases,
        Content, Recoverable, Kept
  <2>2. LockInv' /\ FreshInv' /\ ProgressInv'
    BY <1>4
    DEF ClearSync, LockInv, FreshInv, ProgressInv, TypeOK, IInv, faults,
        Items, Trees, Journals, Phases, Content, Recoverable, Kept
  <2>3. RecordInv' /\ OriginalInv' /\ IdentityInv'
    BY <1>4
    DEF ClearSync, LockInv, RecordInv, OriginalInv, IdentityInv, TypeOK,
        IInv, faults, Items, Recoverable, Trees, Journals, Phases, Content,
        Kept
  <2>4. SafeInv'
    BY <1>4
    DEF ClearSync, LockInv, SafeInv, TypeOK, IInv, faults, Items, Kept,
        Trees, Journals, Phases, Content, Recoverable
  <2> QED BY <2>1, <2>2, <2>3, <2>4 DEF IInv
<1> QED BY <1>1, <1>2, <1>3, <1>4

\* The rollback puts back what was frozen or keeps the record.
LEMMA RollbackKeeps ==
    ASSUME IInv, NEW s \in Shells,
           RollbackCheck(s) \/ RollbackRemove(s) \/ RollbackCopy(s) \/ RollbackVerify(s) \/ SaveRestored(s)
    PROVE  IInv'
<1> USE DEF Goto, Exit, Advance, Fresh, Preparing, Recorded, Trapped,
           Rollback, Clearing, Orphan, Running, Active, Protected
<1>1. CASE RollbackCheck(s)
  <2>1. TypeOK'
    BY <1>1, ScopeAssumption
    DEF RollbackCheck, TypeOK, IInv, BackupMatches, disk, faults, Items,
        Trees, Journals, Phases, Content, Recoverable, Kept
  <2>2. LockInv' /\ FreshInv' /\ ProgressInv'
    BY <1>1
    DEF RollbackCheck, LockInv, FreshInv, ProgressInv, TypeOK, IInv,
        BackupMatches, disk, faults, Items, Trees, Journals, Phases,
        Content, Recoverable, Kept
  <2>3. RecordInv' /\ OriginalInv' /\ IdentityInv'
    BY <1>1
    DEF RollbackCheck, RecordInv, OriginalInv, IdentityInv, TypeOK, IInv,
        BackupMatches, disk, faults, Items, Recoverable, Trees, Journals,
        Phases, Content, Kept
  <2>4. SafeInv'
    <3>1. \A t \in Shells : pc'[t] \in Protected => pc[t] \in Protected
      BY <1>1 DEF RollbackCheck, IInv, TypeOK
    <3>2. UNCHANGED <<orig, dOrig, bak, dBak, frozen, journal, dJournal,
                      receipt, dReceipt, latest, damage>>
      BY <1>1 DEF RollbackCheck, disk, faults
    <3> QED BY <3>1, <3>2, QuietSafe
  <2> QED BY <2>1, <2>2, <2>3, <2>4 DEF IInv
<1>2. CASE RollbackRemove(s)
  <2>1. TypeOK'
    BY <1>2
    DEF RollbackRemove, TypeOK, IInv, faults, Items, Trees, Journals,
        Phases, Content, Recoverable, Kept
  <2>2. LockInv' /\ FreshInv' /\ ProgressInv'
    BY <1>2
    DEF RollbackRemove, LockInv, FreshInv, ProgressInv, TypeOK, IInv,
        faults, Items, Trees, Journals, Phases, Content, Recoverable, Kept
  <2>3. RecordInv' /\ OriginalInv' /\ IdentityInv'
    BY <1>2, ContentAssumption, ActorAssumption
    DEF RollbackRemove, LockInv, RecordInv, OriginalInv, ProgressInv,
        IdentityInv, TypeOK, IInv, faults, Items, Recoverable, Trees,
        Journals, Phases, Content, Kept
  <2>4. SafeInv'
    BY <1>2, ReplaceSteps DEF IInv
  <2> QED BY <2>1, <2>2, <2>3, <2>4 DEF IInv
<1>3. CASE RollbackCopy(s)
  <2>1. TypeOK'
    BY <1>3, ScopeAssumption
    DEF RollbackCopy, TypeOK, IInv, faults, Items, Trees, Journals, Phases,
        Content, Recoverable, Kept
  <2>2. LockInv' /\ FreshInv' /\ ProgressInv'
    BY <1>3
    DEF RollbackCopy, LockInv, FreshInv, ProgressInv, TypeOK, IInv, faults,
        Items, Trees, Journals, Phases, Content, Recoverable, Kept
  <2>3. RecordInv'
    BY <1>3
    DEF RollbackCopy, RecordInv, TypeOK, IInv, faults, Items, Recoverable,
        Trees, Journals, Phases, Content, Kept
  <2>4. OriginalInv'
    BY <1>3, ContentAssumption, ActorAssumption
    DEF RollbackCopy, LockInv, RecordInv, OriginalInv, ProgressInv, TypeOK,
        IInv, faults, Items, Recoverable, Trees, Journals, Phases, Content,
        Kept
  <2>5. IdentityInv'
    BY <1>3, ContentAssumption, ActorAssumption
    DEF RollbackCopy, LockInv, RecordInv, ProgressInv, IdentityInv, TypeOK,
        IInv, faults, Items, Recoverable, Trees, Journals, Phases, Content,
        Kept
  <2>6. SafeInv'
    BY <1>3, ReplaceSteps DEF IInv
  <2> QED BY <2>1, <2>2, <2>3, <2>4, <2>5, <2>6 DEF IInv
<1>4. CASE RollbackVerify(s)
  <2>1. TypeOK'
    BY <1>4
    DEF RollbackVerify, TypeOK, IInv, Items, disk, faults, Trees, Journals,
        Phases, Content, Recoverable, Kept
  <2>2. LockInv' /\ FreshInv' /\ ProgressInv'
    BY <1>4
    DEF RollbackVerify, LockInv, FreshInv, ProgressInv, TypeOK, IInv, Items,
        disk, faults, Trees, Journals, Phases, Content, Recoverable, Kept
  <2>3. RecordInv' /\ OriginalInv' /\ IdentityInv'
    BY <1>4
    DEF RollbackVerify, RecordInv, OriginalInv, IdentityInv, TypeOK, IInv,
        Items, disk, faults, Recoverable, Trees, Journals, Phases, Content,
        Kept
  <2>4. SafeInv'
    BY <1>4
    DEF RollbackVerify, SafeInv, TypeOK, IInv, Items, disk, faults, Kept,
        Trees, Journals, Phases, Content, Recoverable
  <2> QED BY <2>1, <2>2, <2>3, <2>4 DEF IInv
<1>5. CASE SaveRestored(s)
  <2>1. TypeOK'
    BY <1>5
    DEF SaveRestored, TypeOK, IInv, BackupMatches, faults, Items, Trees,
        Journals, Phases, Content, Recoverable, Kept
  <2>2. LockInv' /\ FreshInv' /\ ProgressInv'
    BY <1>5
    DEF SaveRestored, LockInv, FreshInv, ProgressInv, TypeOK, IInv,
        BackupMatches, faults, Items, Trees, Journals, Phases, Content,
        Recoverable, Kept
  <2>3. RecordInv' /\ OriginalInv' /\ IdentityInv'
    BY <1>5
    DEF SaveRestored, RecordInv, OriginalInv, IdentityInv, TypeOK, IInv,
        BackupMatches, faults, Items, Recoverable, Trees, Journals, Phases,
        Content, Kept
  <2>4. SafeInv'
    BY <1>5
    DEF SaveRestored, SafeInv, TypeOK, IInv, BackupMatches, faults, Items,
        Kept, Trees, Journals, Phases, Content, Recoverable
  <2> QED BY <2>1, <2>2, <2>3, <2>4 DEF IInv
<1> QED BY <1>1, <1>2, <1>3, <1>4, <1>5

\* Failures and killed shells.
LEMMA FailKeeps ==
    ASSUME IInv, NEW s \in Shells,
           FailOutsideTrap(s) \/ FailUnderTrap(s) \/ RollbackUnconfirmed(s) \/ Kill(s) \/ OrphanEnds(s)
    PROVE  IInv'
<1> USE DEF Goto, Exit, Advance, Fresh, Preparing, Recorded, Trapped,
           Rollback, Clearing, Orphan, Running, Active, Protected
<1>1. CASE FailOutsideTrap(s)
  <2>1. TypeOK'
    BY <1>1
    DEF FailOutsideTrap, TypeOK, IInv, disk, faults, Items, Trees, Journals,
        Phases, Content, Recoverable, Kept
  <2>2. LockInv' /\ FreshInv' /\ ProgressInv'
    BY <1>1
    DEF FailOutsideTrap, LockInv, FreshInv, ProgressInv, TypeOK, IInv, disk,
        faults, Items, Trees, Journals, Phases, Content, Recoverable, Kept
  <2>3. RecordInv' /\ OriginalInv' /\ IdentityInv'
    BY <1>1
    DEF FailOutsideTrap, RecordInv, OriginalInv, IdentityInv, TypeOK, IInv,
        disk, faults, Items, Recoverable, Trees, Journals, Phases, Content,
        Kept
  <2>4. SafeInv'
    BY <1>1
    DEF FailOutsideTrap, SafeInv, TypeOK, IInv, disk, faults, Items, Kept,
        Trees, Journals, Phases, Content, Recoverable
  <2> QED BY <2>1, <2>2, <2>3, <2>4 DEF IInv
<1>2. CASE FailUnderTrap(s)
  <2>1. TypeOK'
    BY <1>2
    DEF FailUnderTrap, TypeOK, IInv, faults, Items, Trees, Journals, Phases,
        Content, Recoverable, Kept
  <2>2. LockInv' /\ FreshInv' /\ ProgressInv'
    BY <1>2
    DEF FailUnderTrap, LockInv, FreshInv, ProgressInv, TypeOK, IInv, faults,
        Items, Trees, Journals, Phases, Content, Recoverable, Kept
  <2>3. RecordInv' /\ OriginalInv' /\ IdentityInv'
    BY <1>2
    DEF FailUnderTrap, RecordInv, OriginalInv, IdentityInv, TypeOK, IInv,
        faults, Items, Recoverable, Trees, Journals, Phases, Content, Kept
  <2>4. SafeInv'
    BY <1>2
    DEF FailUnderTrap, SafeInv, TypeOK, IInv, faults, Items, Kept, Trees,
        Journals, Phases, Content, Recoverable
  <2> QED BY <2>1, <2>2, <2>3, <2>4 DEF IInv
<1>3. CASE RollbackUnconfirmed(s)
  <2>1. TypeOK'
    BY <1>3
    DEF RollbackUnconfirmed, TypeOK, IInv, disk, faults, Items, Trees,
        Journals, Phases, Content, Recoverable, Kept
  <2>2. LockInv' /\ FreshInv' /\ ProgressInv'
    BY <1>3
    DEF RollbackUnconfirmed, LockInv, FreshInv, ProgressInv, TypeOK, IInv,
        disk, faults, Items, Trees, Journals, Phases, Content, Recoverable,
        Kept
  <2>3. RecordInv' /\ OriginalInv' /\ IdentityInv'
    BY <1>3
    DEF RollbackUnconfirmed, RecordInv, OriginalInv, IdentityInv, TypeOK,
        IInv, disk, faults, Items, Recoverable, Trees, Journals, Phases,
        Content, Kept
  <2>4. SafeInv'
    BY <1>3
    DEF RollbackUnconfirmed, SafeInv, TypeOK, IInv, disk, faults, Items,
        Kept, Trees, Journals, Phases, Content, Recoverable
  <2> QED BY <2>1, <2>2, <2>3, <2>4 DEF IInv
<1>4. CASE Kill(s)
  <2>1. TypeOK'
    BY <1>4
    DEF Kill, TypeOK, IInv, disk, faults, Items, Trees, Journals, Phases,
        Content, Recoverable, Kept
  <2>2. LockInv'
    BY <1>4
    DEF Kill, LockInv, TypeOK, IInv, disk, faults, Items, Trees, Journals,
        Phases, Content, Recoverable, Kept
  <2>3. FreshInv'
    BY <1>4
    DEF Kill, FreshInv, TypeOK, IInv, disk, faults, Items, Trees, Journals,
        Phases, Content, Recoverable, Kept
  <2>4. ProgressInv'
    BY <1>4
    DEF Kill, ProgressInv, TypeOK, IInv, disk, faults, Items, Trees,
        Journals, Phases, Content, Recoverable, Kept
  <2>5. OriginalInv'
    BY <1>4
    DEF Kill, OriginalInv, TypeOK, IInv, disk, faults, Items, Recoverable,
        Trees, Journals, Phases, Content, Kept
  <2>6. RecordInv'
    BY <1>4, KillStep DEF IInv, RecordInv, Recoverable
  <2>7. IdentityInv'
    BY <1>4, KillStep DEF IInv, IdentityInv
  <2>8. SafeInv'
    <3>1. \A t \in Shells : pc'[t] \in Protected => pc[t] \in Protected
      BY <1>4, KillStep
    <3> QED BY <1>4, KillStep, QuietSafe, <3>1
  <2> QED BY <2>1, <2>2, <2>3, <2>4, <2>5, <2>6, <2>7, <2>8 DEF IInv
<1>5. CASE OrphanEnds(s)
  <2>1. TypeOK'
    BY <1>5, ScopeAssumption
    DEF OrphanEnds, TypeOK, IInv, faults, Items, Trees, Journals, Phases,
        Content, Recoverable, Kept
  <2>2. LockInv' /\ FreshInv' /\ ProgressInv'
    BY <1>5
    DEF OrphanEnds, LockInv, FreshInv, ProgressInv, TypeOK, IInv, faults,
        Items, Trees, Journals, Phases, Content, Recoverable, Kept
  <2>3. RecordInv' /\ OriginalInv' /\ IdentityInv'
    BY <1>5, ContentAssumption, ActorAssumption
    DEF OrphanEnds, LockInv, RecordInv, OriginalInv, ProgressInv,
        IdentityInv, TypeOK, IInv, faults, Items, Recoverable, Trees,
        Journals, Phases, Content, Kept
  <2>4. SafeInv'
    BY <1>5, ReplaceSteps DEF IInv
  <2> QED BY <2>1, <2>2, <2>3, <2>4 DEF IInv
<1> QED BY <1>1, <1>2, <1>3, <1>4, <1>5

-----------------------------------------------------------------------------
(* The user, transfers, damage and power losses.                           *)

\* An app can write an entry only while no shell is protected, and what it
\* writes is on the device.
LEMMA EditKeeps == ASSUME IInv, NEW i \in Items, Edit(i) PROVE IInv'
<1>1. PICK d \in UserData \cup {Absent} :
         /\ orig' = [orig EXCEPT ![i] = d]
         /\ dOrig' = [dOrig EXCEPT ![i] = d]
         /\ latest' = [latest EXCEPT ![i] = d]
  BY DEF Edit
<1>2. UNCHANGED <<pc, idx, holder, staged, bak, dBak, frozen, journal,
                   dJournal, receipt, dReceipt, leftover, losses, damage>>
  BY DEF Edit, faults
<1>3. \A s \in Shells : pc[s] \notin Protected
  BY DEF Edit
<1>4. d # Torn /\ d # Bare /\ d \in Content
  BY ContentAssumption DEF Content
<1>5. TypeOK'
  BY <1>1, <1>2, <1>4 DEF IInv, TypeOK, Trees
<1>6. LockInv' /\ FreshInv' /\ RecordInv' /\ ProgressInv'
  BY <1>2, <1>3 DEF IInv, LockInv, FreshInv, RecordInv, ProgressInv, Protected, Active, Running, Preparing, Recorded, Trapped, Rollback, Clearing, Orphan
<1>7. OriginalInv'
  BY <1>1, <1>2, <1>4 DEF IInv, TypeOK, Trees, OriginalInv, Recoverable
<1>8. IdentityInv'
  BY <1>1, <1>2, <1>4, ScopeAssumption DEF IInv, TypeOK, Trees, Items, IdentityInv
<1>9. SafeInv'
  <2>1. orig'[i] = latest'[i] /\ dOrig'[i] = latest'[i]
    BY <1>1 DEF IInv, TypeOK, Trees
  <2>2. \A j \in Items \ {i} : orig'[j] = orig[j] /\ dOrig'[j] = dOrig[j] /\ latest'[j] = latest[j]
    BY <1>1 DEF IInv, TypeOK, Trees
  <2>3. \A j \in Items \ {i} : Kept(j) => Kept(j)'
    BY <1>2, <2>2 DEF Kept
  <2> QED BY <1>2, <1>3, <2>1, <2>2, <2>3 DEF IInv, SafeInv
<1> QED BY <1>5, <1>6, <1>7, <1>8, <1>9 DEF IInv

\* A receiver writes staging only while no shell has the lock.
LEMMA StageKeeps == ASSUME IInv, StageBegin \/ StageEnd PROVE IInv'
<1>1. UNCHANGED <<pc, idx, orig, dOrig, bak, dBak, frozen, journal, dJournal,
                  receipt, dReceipt, leftover, latest, losses, damage>>
  BY DEF StageBegin, StageEnd, disk, faults
<1>2. \A s \in Shells : pc[s] \notin Active
  BY ActorAssumption DEF StageBegin, StageEnd, CanLock, IInv, LockInv
<1>3. staged' \in Trees /\ holder' \in {NoOne, Receiver}
  BY DEF StageBegin, StageEnd, IInv, TypeOK, Trees, Content
<1>4. TypeOK'
  BY <1>1, <1>3 DEF IInv, TypeOK
<1>5. LockInv' /\ FreshInv' /\ RecordInv' /\ ProgressInv'
  BY <1>1, <1>2 DEF IInv, LockInv, FreshInv, RecordInv, Recoverable, ProgressInv, Protected, Active, Running, Clearing
<1>6. OriginalInv' /\ IdentityInv' /\ SafeInv'
  BY <1>1, <1>2 DEF IInv, OriginalInv, Recoverable, IdentityInv, SafeInv, Kept
<1> QED BY <1>4, <1>5, <1>6 DEF IInv

\* A copy that goes bad ends the claims about copies, not those about records.
LEMMA DamageKeeps == ASSUME IInv, NEW s \in Shells, NEW i \in Items, DamageBackup(s, i) PROVE IInv'
<1>1. UNCHANGED <<pc, idx, holder, staged, orig, dOrig, frozen, journal,
                   dJournal, receipt, dReceipt, leftover, latest, losses>>
  BY DEF DamageBackup
<1>2. damage' \in 0..MaxFaults /\ damage' # 0
  BY BoundAssumption DEF DamageBackup, IInv, TypeOK
<1>3. /\ bak' \in [Shells -> Trees] /\ dBak' \in [Shells -> Trees]
      /\ \A t \in Shells, j \in Items : /\ bak'[t][j] \in {bak[t][j], Torn}
                                        /\ dBak'[t][j] \in {dBak[t][j], Torn}
  BY DEF DamageBackup, IInv, TypeOK, Trees, Content
<1>4. TypeOK'
  BY <1>1, <1>2, <1>3 DEF IInv, TypeOK
<1>5. LockInv' /\ FreshInv' /\ ProgressInv'
  BY <1>1 DEF IInv, LockInv, FreshInv, ProgressInv
<1>6. RecordInv' /\ OriginalInv' /\ SafeInv'
  BY <1>1, <1>2 DEF IInv, RecordInv, OriginalInv, Recoverable, SafeInv
<1>7. IdentityInv'
  BY <1>1, <1>3, ScopeAssumption, ContentAssumption DEF IInv, IdentityInv, Items
<1> QED BY <1>4, <1>5, <1>6, <1>7 DEF IInv

\* What is found after a power loss is between what was visible and what was
\* durable, and each pair of these satisfies the invariant.
LEMMA PowerLossKeeps == ASSUME IInv, PowerLoss PROVE IInv'
<1>1. \A s \in Shells : pc'[s] \notin Active /\ (pc'[s] \in Fresh => pc[s] = "off" /\ pc'[s] = "off")
  BY DEF PowerLoss, Fresh, Active, Running, Preparing, Recorded, Trapped, Rollback, Clearing, Orphan
<1>2. /\ \A i \in Items : orig'[i] \in Survivor(orig[i], dOrig[i], Torn)
      /\ \A s \in Shells, i \in Items : bak'[s][i] \in Survivor(bak[s][i], dBak[s][i], Torn)
      /\ journal' \in JournalSurvivor
      /\ \A s \in Shells : receipt'[s] \in Survivor(receipt[s], dReceipt[s], "torn")
      /\ dOrig' = orig' /\ dBak' = bak' /\ dJournal' = journal' /\ dReceipt' = receipt'
      /\ UNCHANGED <<idx, frozen, leftover, latest, damage>>
  BY DEF PowerLoss, TreeSurvivors
<1>3. TypeOK'
  <2>1. orig' \in Trees /\ bak' \in [Shells -> Trees] /\ receipt' \in [Shells -> Phases]
    <3>1. ASSUME NEW t \in Trees, NEW d \in Trees PROVE TreeSurvivors(t, d) \subseteq Trees
      BY DEF TreeSurvivors, Survivor, Trees, Content
    <3>2. orig' \in TreeSurvivors(orig, dOrig) /\ receipt' \in [Shells -> Phases]
      BY DEF PowerLoss
    <3>3. /\ bak' \in [Shells -> UNION {TreeSurvivors(bak[s], dBak[s]) : s \in Shells}]
          /\ \A s \in Shells : bak'[s] \in TreeSurvivors(bak[s], dBak[s])
      BY DEF PowerLoss
    <3>4. orig \in Trees /\ dOrig \in Trees /\ bak \in [Shells -> Trees] /\ dBak \in [Shells -> Trees]
      BY DEF IInv, TypeOK
    <3>5. \A s \in Shells : bak'[s] \in Trees
      BY <3>1, <3>3, <3>4
    <3> QED BY <3>1, <3>2, <3>3, <3>4, <3>5
  <2>2. journal' \in Journals
    BY <1>2 DEF JournalSurvivor, Journals, IInv, TypeOK
  <2>3. pc' \in [Shells -> Active \cup {"off", "done", "dead"}]
    BY DEF PowerLoss, IInv, TypeOK
  <2>4. losses' \in 0..MaxFaults /\ holder' = NoOne /\ staged' \in Trees
    BY BoundAssumption DEF PowerLoss, IInv, TypeOK, Trees, Content
  <2> QED BY <1>2, <2>1, <2>2, <2>3, <2>4 DEF IInv, TypeOK
<1>4. LockInv' /\ RecordInv' /\ ProgressInv'
  BY <1>1 DEF LockInv, RecordInv, ProgressInv, Protected, Active, Running, Clearing, Recorded, Trapped, Rollback
<1>5. FreshInv'
  BY <1>1, <1>2, ActorAssumption DEF IInv, FreshInv, Fresh, Survivor, JournalSurvivor
<1>6. OriginalInv'
  <2> SUFFICES ASSUME NEW i \in Items, orig'[i] = Torn
               PROVE  \E s \in Shells : journal' = s /\ dJournal' = s /\ Recoverable(s)'
    BY <1>2 DEF OriginalInv
  <2>1. orig[i] # dOrig[i] \/ orig[i] = Torn
    BY <1>2 DEF Survivor
  <2>2. PICK s \in Shells : journal = s /\ dJournal = s /\ Recoverable(s)
    BY <2>1 DEF IInv, OriginalInv
  <2>3. journal' = s /\ dJournal' = s
    BY <1>2, <2>2 DEF JournalSurvivor
  <2>4. ASSUME damage' = 0 PROVE bak'[s] = frozen'[s] /\ dBak'[s] = frozen'[s]
    <3>1. bak[s] = frozen[s] /\ dBak[s] = frozen[s]
      BY <1>2, <2>2, <2>4 DEF Recoverable
    <3>2. \A j \in Items : bak'[s][j] = frozen[s][j]
      BY <1>2, <3>1 DEF Survivor
    <3>3. bak'[s] \in Trees /\ frozen[s] \in Trees
      BY <1>3, <1>2 DEF IInv, TypeOK
    <3> QED BY <1>2, <3>2, <3>3 DEF Trees
  <2> QED BY <2>3, <2>4 DEF Recoverable
<1>7. IdentityInv'
  <2>1. 1 \in Items /\ Torn # Bare
    BY ScopeAssumption, ContentAssumption DEF Items
  <2>2. orig'[1] # Bare /\ dOrig'[1] # Bare
    BY <1>2, <2>1 DEF IInv, IdentityInv, Survivor
  <2>3. \A s \in Shells : bak'[s][1] # Bare /\ dBak'[s][1] # Bare
    BY <1>2, <2>1 DEF IInv, IdentityInv, Survivor
  <2> QED BY <1>1, <2>2, <2>3 DEF IdentityInv
<1>8. SafeInv'
  <2>1. ASSUME NEW i \in Items, Kept(i) PROVE Kept(i)'
    <3>1. PICK t \in Shells : /\ receipt[t] = "installed" /\ dReceipt[t] = "installed"
                             /\ bak[t][i] = latest[i] /\ dBak[t][i] = latest[i]
      BY <2>1 DEF Kept
    <3>2. bak'[t][i] = latest[i] /\ receipt'[t] = "installed"
      BY <1>2, <3>1 DEF Survivor
    <3> QED BY <1>2, <3>1, <3>2 DEF Kept
  <2>2. \A i \in Items : orig[i] = latest[i] /\ dOrig[i] = latest[i] => orig'[i] = latest'[i] /\ dOrig'[i] = latest'[i]
    BY <1>2 DEF Survivor
  <2>3. ASSUME NEW i \in Items, NEW s \in Shells, journal = s, dJournal = s, bak[s][i] = latest[i], dBak[s][i] = latest[i]
        PROVE  journal' = s /\ dJournal' = s /\ bak'[s][i] = latest'[i] /\ dBak'[s][i] = latest'[i]
    BY <1>2, <2>3 DEF Survivor, JournalSurvivor
  <2>4. \A s \in Shells : pc'[s] \notin Protected
    BY <1>1 DEF Protected
  <2> QED BY <1>2, <2>1, <2>2, <2>3, <2>4 DEF IInv, SafeInv
<1> QED BY <1>3, <1>4, <1>5, <1>6, <1>7, <1>8 DEF IInv

-----------------------------------------------------------------------------

\* Every step keeps the invariant.
LEMMA NextKeeps == IInv /\ [Next]_vars => IInv'
<1> SUFFICES ASSUME IInv, [Next]_vars PROVE IInv'
  OBVIOUS
<1>1. CASE UNCHANGED vars
  BY <1>1 DEF vars, disk, faults, IInv, TypeOK, LockInv, FreshInv, RecordInv,
     OriginalInv, ProgressInv, IdentityInv, SafeInv, Kept, Recoverable
<1>2. ASSUME NEW i \in Items, Edit(i) PROVE IInv'
  BY <1>2, EditKeeps
<1>3. CASE StageBegin \/ StageEnd
  BY <1>3, StageKeeps
<1>4. ASSUME NEW s \in Shells, Step(s) PROVE IInv'
  BY <1>4, PrepareKeeps, ReplaceKeeps, SettleKeeps, RollbackKeeps DEF Step
<1>5. ASSUME NEW s \in Shells, Fault(s) PROVE IInv'
  BY <1>5, FailKeeps, DamageKeeps DEF Fault
<1>6. CASE PowerLoss
  BY <1>6, PowerLossKeeps
<1> QED BY <1>1, <1>2, <1>3, <1>4, <1>5, <1>6 DEF Next

\* The inductive invariant holds in every reachable state of the installer.
THEOREM Invariance == Spec => []IInv
<1> QED BY InitIInv, NextKeeps, PTL DEF Spec

\* The variables of the installer stay within their types.
THEOREM TypeCorrect == Spec => []TypeOK
<1>1. IInv => TypeOK
  BY DEF IInv
<1> QED BY <1>1, Invariance, PTL

\* The user's last version of every entry stays recoverable: in place, or in
\* a copy that the pending record or an installation receipt names.
THEOREM UserWorkSurvives == Spec => []NoUserWorkLost
<1>1. IInv => NoUserWorkLost
  BY DEF IInv, SafeInv, Kept, NoUserWorkLost, Named
<1> QED BY <1>1, Invariance, PTL

\* rm -rf runs on an original only under durable recovery evidence.
THEOREM RecordPrecedesRemoval == Spec => []TornOnlyUnderDurableRecord
<1>1. IInv => TornOnlyUnderDurableRecord
  BY DEF IInv, OriginalInv, TornOnlyUnderDurableRecord
<1> QED BY <1>1, Invariance, PTL

\* The replacement .codex is never visible without the destination identity.
THEOREM IdentityPrecedesMove == Spec => []NoIdentityGap
<1>1. IInv => NoIdentityGap
  BY DEF IInv, IdentityInv, NoIdentityGap
<1> QED BY <1>1, Invariance, PTL

\* The flock and the record admit one replacing shell at a time.
THEOREM ReplacersExclude == Spec => []OneReplacer
<1>1. IInv => OneReplacer
  BY DEF IInv, LockInv, OneReplacer, Protected
<1> QED BY <1>1, Invariance, PTL

\* A record is cleared only after a durable, verified outcome, or lost with
\* the power before it reached the device and before anything was removed.
THEOREM ClearingIsSettled == Spec => ClearedMeansSettled
<1> DEFINE Settles == \A s \in Shells : journal = s /\ journal' # s =>
          \/ /\ receipt[s] = "installed" /\ dReceipt[s] = "installed"
             /\ \A i \in Items : orig[i] = New /\ dOrig[i] = New
          \/ /\ receipt[s] = "restored" /\ dReceipt[s] = "restored"
             /\ orig = frozen[s] /\ dOrig = frozen[s]
          \/ dJournal # s
<1>1. IInv /\ [Next]_vars => [Settles]_vars
  <2> SUFFICES ASSUME IInv, [Next]_vars, NEW s \in Shells, journal = s, journal' # s
               PROVE  \/ /\ receipt[s] = "installed" /\ dReceipt[s] = "installed"
                         /\ \A i \in Items : orig[i] = New /\ dOrig[i] = New
                      \/ /\ receipt[s] = "restored" /\ dReceipt[s] = "restored"
                         /\ orig = frozen[s] /\ dOrig = frozen[s]
                      \/ dJournal # s
    OBVIOUS
  <2>1. CASE PowerLoss
    BY <2>1 DEF PowerLoss, JournalSurvivor
  <2>2. ASSUME NEW t \in Shells, Clear(t) PROVE receipt[t] = dReceipt[t] /\ t = s
                 /\ pc[t] \in Clearing
    BY <2>2 DEF Clear, IInv, ProgressInv, Clearing
  <2>3. (\E t \in Shells : Clear(t)) \/ PowerLoss
    BY ActorAssumption DEF Next, vars, disk, Edit, StageBegin, StageEnd, Step, Fault, Start,
       Check, CopyItem, PrepareIdentity, Begin, Arm, Guard, RemoveItem, PlaceItem,
       Verify, SaveInstalled, Seal, ClearSync, RollbackCheck, RollbackRemove,
       RollbackCopy, RollbackVerify, SaveRestored, FailOutsideTrap, FailUnderTrap,
       RollbackUnconfirmed, Kill, OrphanEnds, DamageBackup
  <2> QED BY <2>1, <2>2, <2>3 DEF IInv, ProgressInv
<1> QED BY <1>1, Invariance, PTL DEF Spec, ClearedMeansSettled

\* A shell that reports success has left nothing for a power loss to undo.
THEOREM SuccessEndures == Spec => SuccessIsDurable
<1> DEFINE Endures == \A s \in Shells : pc[s] # "done" /\ pc'[s] = "done" =>
          /\ \A i \in Items : dOrig'[i] = New /\ orig'[i] = New
          /\ dReceipt'[s] = "installed" /\ journal' = NoOne /\ dJournal' = NoOne
<1>1. IInv /\ [Next]_vars => [Endures]_vars
  <2> SUFFICES ASSUME IInv, [Next]_vars, NEW s \in Shells, pc[s] # "done", pc'[s] = "done"
               PROVE  /\ \A i \in Items : dOrig'[i] = New /\ orig'[i] = New
                      /\ dReceipt'[s] = "installed"
                      /\ journal' = NoOne /\ dJournal' = NoOne
    OBVIOUS
  <2>1. ClearSync(s)
    <3>1. ASSUME NEW t \in Shells, Step(t) PROVE t = s /\ ClearSync(t)
      BY <3>1 DEF Step, Start, Check, CopyItem, PrepareIdentity, Begin, Arm, Guard,
         RemoveItem, PlaceItem, Verify, SaveInstalled, Seal, Clear, ClearSync,
         RollbackCheck, RollbackRemove, RollbackCopy, RollbackVerify, SaveRestored,
         Goto, Exit, Advance, IInv, TypeOK
    <3>2. \A t \in Shells : ~Fault(t)
      BY DEF Fault, FailOutsideTrap, FailUnderTrap, RollbackUnconfirmed, Kill,
         OrphanEnds, DamageBackup, Goto, Exit, IInv, TypeOK
    <3>3. ~PowerLoss
      BY DEF PowerLoss
    <3>4. pc' # pc
      OBVIOUS
    <3> QED BY <3>1, <3>2, <3>3, <3>4 DEF Next, Edit, StageBegin, StageEnd, vars
  <2>2. receipt[s] = "installed"
    BY <2>1 DEF ClearSync, Exit, Goto, IInv, TypeOK
  <2>3. pc[s] \in Clearing /\ journal = NoOne
    BY <2>1 DEF ClearSync, Clearing, IInv, LockInv
  <2> QED BY <2>1, <2>2, <2>3 DEF ClearSync, IInv, ProgressInv
<1> QED BY <1>1, Invariance, PTL DEF Spec, SuccessIsDurable
=============================================================================
