------------------------- MODULE VaultInstallProofs -------------------------
(***************************************************************************)
(* No conversation of the user is lost by the Vault installer, for any     *)
(* number of history folders, processes, installations, additions, kills   *)
(* and failing calls.                                                      *)
(*                                                                         *)
(* IInv of VaultInstall is inductive.  Its core: the history lock has one  *)
(* holder, so the folder the exchange has come to is its holder's alone;   *)
(* the saved slot of that folder is still free (SavedRoom), so its rename  *)
(* displaces nothing; and the installer unlinks only what the user did     *)
(* not write (UsersOwn).                                                   *)
(*                                                                         *)
(* WInv is inductive beside it.  Where a command is decides whether its    *)
(* crash journal is on the disk (JournalInv); only while it is may the     *)
(* folders be of two histories (WholeInv); and what a command has compared *)
(* is still live when it answers (CheckedInv); so is what a rollback has   *)
(* put back or an addition has made, but for what Codex adds (BackInv).    *)
(* Two properties follow: a history without a journal is whole, and        *)
(* answers are true.                                                       *)
(***************************************************************************)
EXTENDS VaultInstall, TLAPS

\* What the operators on trees yield.
LEMMA TreeFacts ==
    /\ Missing \in Trees /\ {} \in Trees /\ Held(Missing) = {}
    /\ \A t \in Trees : /\ Held(t) \in SUBSET Conversation
                        /\ Held(t) \in Trees /\ Held(t) \subseteq t
                        /\ Held(t) # Missing
                        /\ t # Missing => Held(t) = t
    /\ \A t \in Trees, c \in Conversation :
         /\ t # Missing => t \cup {c} \in Trees \ {Missing}
         /\ Held(t) \cup {c} \in Trees \ {Missing}
    /\ \A t \in Trees, S \in SUBSET Conversation :
         /\ t \ S \in Trees
         /\ t # Missing => t \ S # Missing
<1>1. "missing" \notin Conversation /\ Missing = {"missing"}
  BY DEF Conversation, Missing
<1>2. Missing \in Trees /\ {} \in Trees /\ Held(Missing) = {}
  BY <1>1 DEF Trees, Held
<1>3. \A t \in Trees : t # Missing => t \in SUBSET Conversation
  BY DEF Trees
<1>4. \A t \in SUBSET Conversation : t \in Trees /\ Held(t) = t /\ t # Missing
  BY <1>1 DEF Trees, Held
<1>5. \A t \in Trees : /\ Held(t) \in SUBSET Conversation
                       /\ Held(t) \in Trees /\ Held(t) \subseteq t
                       /\ Held(t) # Missing
                       /\ t # Missing => Held(t) = t
  BY <1>2, <1>3, <1>4
<1>6. \A t \in Trees, c \in Conversation :
         /\ t # Missing => t \cup {c} \in Trees \ {Missing}
         /\ Held(t) \cup {c} \in Trees \ {Missing}
  <2> SUFFICES ASSUME NEW t \in Trees, NEW c \in Conversation
               PROVE  /\ t # Missing => t \cup {c} \in Trees \ {Missing}
                      /\ Held(t) \cup {c} \in Trees \ {Missing}
    OBVIOUS
  <2>1. Held(t) \cup {c} \in SUBSET Conversation
    BY <1>5
  <2> QED BY <2>1, <1>3, <1>4
<1>7. \A t \in Trees, S \in SUBSET Conversation :
         /\ t \ S \in Trees
         /\ t # Missing => t \ S # Missing
  <2> SUFFICES ASSUME NEW t \in Trees, NEW S \in SUBSET Conversation
               PROVE  t \ S \in Trees /\ (t # Missing => t \ S # Missing)
    OBVIOUS
  <2>1. CASE t = Missing
    <3>1. t \ S = Missing
      BY <2>1, <1>1
    <3> QED BY <3>1, <2>1, <1>2
  <2>2. CASE t # Missing
    <3>1. t \ S \in SUBSET Conversation
      BY <2>2, <1>3
    <3> QED BY <3>1, <1>4
  <2> QED BY <2>1, <2>2
<1> QED BY <1>2, <1>5, <1>6, <1>7

\* What every typed state gives the steps to work with.
LEMMA StateFacts ==
    ASSUME TypeOK
    PROVE  /\ 1 \in Folder /\ N \in Folder
           /\ at > 1 => at - 1 \in Folder
           /\ at < N => at + 1 \in Folder
           /\ Nowhere \in [Folder -> Trees]
           /\ Snapshot \in [Folder -> Trees]
           /\ Summary(live) \in [Folder -> SUBSET Conversation]
<1>1. /\ 1 \in Folder /\ N \in Folder
      /\ at > 1 => at - 1 \in Folder
      /\ at < N => at + 1 \in Folder
  BY NAssumption DEF TypeOK, Folder
<1>2. Nowhere \in [Folder -> Trees]
  BY TreeFacts DEF Nowhere
<1>3. Snapshot \in [Folder -> Trees]
  BY DEF Snapshot, Trees, Conversation
<1>4. Summary(live) \in [Folder -> SUBSET Conversation]
  BY TreeFacts DEF Summary, TypeOK
<1> QED BY <1>1, <1>2, <1>3, <1>4

\* The initial states satisfy the invariant.
LEMMA InitIInv == Init => IInv
<1> SUFFICES ASSUME Init PROVE IInv
  OBVIOUS
<1>1. TypeOK
  <2>1. live \in [Folder -> Trees]
    BY TreeFacts DEF Init, Trees, Conversation
  <2>2. Summary(live) \in [Folder -> SUBSET Conversation]
    BY <2>1, TreeFacts DEF Summary
  <2>3. used \in Bounds
    BY BoundsAssumption DEF Init, Bounds
  <2>4. /\ incoming \in [Folder -> Trees] /\ saved \in [Folder -> Trees]
        /\ failed \in [Folder -> Trees]
    BY TreeFacts DEF Init, Nowhere
  <2>5. base \in [Folder -> SUBSET Conversation]
        /\ archive \in [Folder -> SUBSET Conversation]
    BY DEF Init, Empty
  <2>6. pc \in [Process -> Labels] /\ at \in Folder /\ journal \in Journals
    BY NAssumption DEF Init, Labels, Done, Journals, Folder
  <2> QED BY <2>1, <2>2, <2>3, <2>4, <2>5, <2>6 DEF Init, TypeOK
<1>2. OneHolder /\ SavedRoom /\ AddRoom
  BY DEF Init, OneHolder, SavedRoom, AddRoom, Free, Done, At, Nowhere
<1>3. UsersOwn /\ NothingLost
  BY TreeFacts DEF Init, UsersOwn, NothingLost, Summary, Held, Missing
<1> QED BY <1>1, <1>2, <1>3 DEF IInv

\* What an exception handler leaves.
LEMMA RaiseTypes ==
    ASSUME TypeOK, NEW p \in Process, Raise(p)
    PROVE  /\ pc' \in [Process -> Labels] /\ live' \in [Folder -> Trees]
           /\ incoming' \in [Folder -> Trees] /\ backup' \in BOOLEAN
           /\ UNCHANGED <<base, saved, failed, archive>>
<1>1. pc' \in [Process -> Labels]
  BY DEF Raise, Goto, TypeOK, Labels, Done, Exchanging, RollingBack, Adding
<1>2. incoming' \in [Folder -> Trees] /\ backup' \in BOOLEAN
      /\ UNCHANGED <<base, saved, failed, archive>>
  BY StateFacts DEF Raise, kept, TypeOK
<1>3. live[1] \in Trees /\ 1 \in Folder
  BY StateFacts DEF TypeOK
<1>4. \A gone \in SUBSET {"tmp", "pick"} : live[1] \ gone \in Trees
  BY <1>3, TreeFacts DEF Conversation
<1>5. live' \in [Folder -> Trees]
  <2>1. CASE live' = live
    BY <2>1 DEF TypeOK
  <2>2. ASSUME NEW gone \in SUBSET {"tmp", "pick"}, live' = [live EXCEPT ![1] = @ \ gone]
        PROVE  live' \in [Folder -> Trees]
    BY <2>2, <1>3, <1>4 DEF TypeOK
  <2>3. live' = live \/ \E gone \in SUBSET {"tmp", "pick"} :
                            live' = [live EXCEPT ![1] = @ \ gone]
    BY DEF Raise, kept
  <2> QED BY <2>1, <2>2, <2>3
<1> QED BY <1>1, <1>2, <1>5

\* Every step keeps the types.
LEMMA TypeStep == IInv /\ [Next]_vars => TypeOK'
<1> SUFFICES ASSUME IInv, [Next]_vars PROVE TypeOK'
  OBVIOUS
<1>1. TypeOK /\ AddRoom
  BY DEF IInv
<1>2. ASSUME NEW p \in Process, Begin(p) PROVE TypeOK'
  BY <1>1, StateFacts, TreeFacts, BoundsAssumption, <1>2
     DEF Begin, Locks, Free, HistoryLockFree, Goto, At, kept, rest, TypeOK,
         Labels, Exchanging, Bounds
<1>3. ASSUME NEW p \in Process, Stage(p) PROVE TypeOK'
  BY <1>1, StateFacts, TreeFacts, BoundsAssumption, <1>3
     DEF Stage, Goto, At, kept, rest, TypeOK, Labels, Exchanging
<1>4. ASSUME NEW p \in Process, Survey(p) PROVE TypeOK'
  BY <1>1, StateFacts, TreeFacts, BoundsAssumption, <1>4
     DEF Survey, Goto, At, kept, rest, TypeOK, Labels, Exchanging
<1>5. ASSUME NEW p \in Process, Record(p) PROVE TypeOK'
  BY <1>1, StateFacts, TreeFacts, BoundsAssumption, <1>5
     DEF Record, Goto, At, kept, rest, TypeOK, Journals, Labels, Exchanging
<1>6. ASSUME NEW p \in Process, RecordSynced(p) PROVE TypeOK'
  BY <1>1, StateFacts, TreeFacts, BoundsAssumption, <1>6
     DEF RecordSynced, Goto, At, kept, rest, TypeOK, Labels, Exchanging
<1>7. ASSUME NEW p \in Process, Mark(p) PROVE TypeOK'
  BY <1>1, StateFacts, TreeFacts, BoundsAssumption, <1>7
     DEF Mark, Goto, At, kept, rest, TypeOK, Labels, Exchanging
<1>8. ASSUME NEW p \in Process, Move(p) PROVE TypeOK'
  BY <1>1, StateFacts, TreeFacts, BoundsAssumption, <1>8
     DEF Move, Goto, At, kept, rest, TypeOK, Labels, Exchanging
<1>9. ASSUME NEW p \in Process, Place(p) PROVE TypeOK'
  BY <1>1, StateFacts, TreeFacts, BoundsAssumption, <1>9
     DEF Place, Replaceable, Goto, At, kept, rest, TypeOK, Labels, Exchanging
<1>10. ASSUME NEW p \in Process, Verify(p) PROVE TypeOK'
  BY <1>1, StateFacts, TreeFacts, BoundsAssumption, <1>10
     DEF Verify, Goto, At, kept, rest, TypeOK, Labels, Exchanging
<1>11. ASSUME NEW p \in Process, Unstage(p) PROVE TypeOK'
  BY <1>1, StateFacts, TreeFacts, BoundsAssumption, <1>11
     DEF Unstage, Goto, At, kept, rest, TypeOK, Labels, Exchanging
<1>12. ASSUME NEW p \in Process, Receipt(p) PROVE TypeOK'
  BY <1>1, StateFacts, TreeFacts, BoundsAssumption, <1>12
     DEF Receipt, Goto, At, kept, rest, TypeOK, Labels, Exchanging
<1>13. ASSUME NEW p \in Process, Unlink(p) PROVE TypeOK'
  BY <1>1, StateFacts, TreeFacts, BoundsAssumption, <1>13
     DEF Unlink, Goto, At, kept, rest, TypeOK, Journals, Labels, Exchanging
<1>14. ASSUME NEW p \in Process, Installed(p) PROVE TypeOK'
  BY <1>1, StateFacts, TreeFacts, BoundsAssumption, <1>14
     DEF Installed, Goto, At, kept, rest, TypeOK, Labels, Exchanging, Done
<1>15. ASSUME NEW p \in Process, Recover(p) PROVE TypeOK'
  BY <1>1, StateFacts, TreeFacts, BoundsAssumption, <1>15
     DEF Recover, Locks, Free, HistoryLockFree, Goto, At, kept, rest, TypeOK,
         Journals, Labels, RollingBack
<1>16. ASSUME NEW p \in Process, RollbackReceipt(p) PROVE TypeOK'
  BY <1>1, StateFacts, TreeFacts, BoundsAssumption, <1>16
     DEF RollbackReceipt, Goto, At, kept, rest, TypeOK, Labels, RollingBack
<1>17. ASSUME NEW p \in Process, Quarantine(p) PROVE TypeOK'
  BY <1>1, StateFacts, TreeFacts, BoundsAssumption, <1>17
     DEF Quarantine, NextFolder, Goto, At, kept, rest, TypeOK, Labels,
         RollingBack
<1>18. ASSUME NEW p \in Process, RollbackPass(p) PROVE TypeOK'
  BY <1>1, StateFacts, TreeFacts, BoundsAssumption, <1>18
     DEF RollbackPass, NextFolder, Goto, At, kept, rest, TypeOK, Labels,
         RollingBack
<1>19. ASSUME NEW p \in Process, PutBack(p) PROVE TypeOK'
  BY <1>1, StateFacts, TreeFacts, BoundsAssumption, <1>19
     DEF PutBack, Replaceable, NextFolder, Goto, At, kept, rest, TypeOK,
         Labels, RollingBack
<1>20. ASSUME NEW p \in Process, RollbackVerify(p) PROVE TypeOK'
  BY <1>1, StateFacts, TreeFacts, BoundsAssumption, <1>20
     DEF RollbackVerify, Goto, At, kept, rest, TypeOK, Labels, RollingBack
<1>21. ASSUME NEW p \in Process, RollbackNote(p) PROVE TypeOK'
  BY <1>1, StateFacts, TreeFacts, BoundsAssumption, <1>21
     DEF RollbackNote, Goto, At, kept, rest, TypeOK, Labels, RollingBack
<1>22. ASSUME NEW p \in Process, RollbackUnlink(p) PROVE TypeOK'
  BY <1>1, StateFacts, TreeFacts, BoundsAssumption, <1>22
     DEF RollbackUnlink, Goto, At, kept, rest, TypeOK, Journals, Labels,
         RollingBack
<1>23. ASSUME NEW p \in Process, RollbackUnlinked(p) PROVE TypeOK'
  BY <1>1, StateFacts, TreeFacts, BoundsAssumption, <1>23
     DEF RollbackUnlinked, Goto, At, kept, rest, TypeOK, Labels, RollingBack
<1>24. ASSUME NEW p \in Process, RolledBack(p) PROVE TypeOK'
  BY <1>1, StateFacts, TreeFacts, BoundsAssumption, <1>24
     DEF RolledBack, Goto, At, kept, rest, TypeOK, Labels, RollingBack, Done
<1>25. ASSUME NEW p \in Process, AddBegin(p) PROVE TypeOK'
  BY <1>1, StateFacts, TreeFacts, BoundsAssumption, <1>25
     DEF AddBegin, Locks, Free, HistoryLockFree, Goto, At, kept, rest, TypeOK,
         Labels, Adding, Bounds
<1>26. ASSUME NEW p \in Process, Select(p) PROVE TypeOK'
  <2>1. live[1] \in Trees /\ 1 \in Folder
    BY <1>1, StateFacts DEF TypeOK
  <2>2. live' \in [Folder -> Trees]
    BY <1>1, <1>26, <2>1, TreeFacts DEF Select, TypeOK
  <2>3. base' \in [Folder -> SUBSET Conversation]
    BY <1>1, <1>26, StateFacts DEF Select
  <2>4. pc' \in [Process -> Labels]
    BY <1>1, <1>26
       DEF Select, Goto, TypeOK, Labels, Done, Exchanging, RollingBack, Adding
  <2> QED BY <1>1, <1>26, <2>2, <2>3, <2>4 DEF Select, kept, rest, TypeOK
<1>27. ASSUME NEW p \in Process, Copy(p) PROVE TypeOK'
  <2>1. live[1] \in Trees /\ 1 \in Folder
    BY <1>1, StateFacts DEF TypeOK
  <2>2. live[1] \cup {"tmp"} \in Trees
    BY <1>1, <1>27, <2>1, TreeFacts DEF Copy, At, Conversation, AddRoom
  <2>3. live' \in [Folder -> Trees]
    BY <1>1, <1>27, <2>1, <2>2 DEF Copy, TypeOK
  <2> QED BY <1>1, <1>27, <2>3
     DEF Copy, Goto, kept, rest, TypeOK, Labels, Done, Exchanging,
         RollingBack, Adding
<1>28. ASSUME NEW p \in Process, Link(p) PROVE TypeOK'
  <2>1. live[1] \in Trees /\ 1 \in Folder
    BY <1>1, StateFacts DEF TypeOK
  <2>2. live[1] \cup {"pick"} \in Trees
    BY <1>1, <1>28, <2>1, TreeFacts DEF Link, At, Conversation, AddRoom
  <2>3. live' \in [Folder -> Trees]
    BY <1>1, <1>28, <2>1, <2>2 DEF Link, TypeOK
  <2> QED BY <1>1, <1>28, <2>3
     DEF Link, Goto, kept, rest, TypeOK, Labels, Done, Exchanging,
         RollingBack, Adding
<1>29. ASSUME NEW p \in Process, Linked(p) PROVE TypeOK'
  <2>1. live[1] \in Trees /\ 1 \in Folder
    BY <1>1, StateFacts DEF TypeOK
  <2>2. live[1] \ {"tmp"} \in Trees
    BY <1>1, <1>29, <2>1, TreeFacts DEF Linked, At, Conversation, AddRoom
  <2>3. live' \in [Folder -> Trees]
    BY <1>1, <1>29, <2>1, <2>2 DEF Linked, TypeOK
  <2> QED BY <1>1, <1>29, <2>3
     DEF Linked, Goto, kept, rest, TypeOK, Labels, Done, Exchanging,
         RollingBack, Adding
<1>30. ASSUME NEW p \in Process, Compare(p) PROVE TypeOK'
  BY <1>1, StateFacts, TreeFacts, BoundsAssumption, <1>30
     DEF Compare, Goto, At, kept, rest, TypeOK, Labels, Adding
<1>31. ASSUME NEW p \in Process, AddReceipt(p) PROVE TypeOK'
  BY <1>1, StateFacts, TreeFacts, BoundsAssumption, <1>31
     DEF AddReceipt, Goto, At, kept, rest, TypeOK, Labels, Adding, Done
<1>32. ASSUME NEW p \in Process, Remove(p) PROVE TypeOK'
  <2>1. live[1] \in Trees /\ 1 \in Folder
    BY <1>1, StateFacts DEF TypeOK
  <2>2. live[1] \ {"pick"} \in Trees
    BY <1>1, <1>32, <2>1, TreeFacts DEF Remove, At, Conversation, AddRoom
  <2>3. live' \in [Folder -> Trees]
    BY <1>1, <1>32, <2>1, <2>2 DEF Remove, TypeOK
  <2> QED BY <1>1, <1>32, <2>3
     DEF Remove, Goto, kept, rest, TypeOK, Labels, Done, Exchanging,
         RollingBack, Adding
<1>33. ASSUME NEW p \in Process, Refuse(p) PROVE TypeOK'
  <2>1. Raise(p)
    BY <1>33 DEF Refuse
  <2>2. /\ pc' \in [Process -> Labels] /\ live' \in [Folder -> Trees]
        /\ incoming' \in [Folder -> Trees] /\ backup' \in BOOLEAN
        /\ UNCHANGED <<base, saved, failed, archive>>
    BY <1>1, <2>1, RaiseTypes
  <2> QED BY <1>1, <1>33, <2>2 DEF Refuse, rest, TypeOK
<1>34. ASSUME NEW p \in Process, Fail(p) PROVE TypeOK'
  <2>1. Raise(p)
    BY <1>34 DEF Fail
  <2>2. /\ pc' \in [Process -> Labels] /\ live' \in [Folder -> Trees]
        /\ incoming' \in [Folder -> Trees] /\ backup' \in BOOLEAN
        /\ UNCHANGED <<base, saved, failed, archive>>
    BY <1>1, <2>1, RaiseTypes
  <2>3. used' \in Bounds
    BY <1>1, <1>34, BoundsAssumption DEF Fail, Bounds, TypeOK
  <2> QED BY <1>1, <1>34, <2>2, <2>3 DEF Fail, rest, TypeOK
<1>35. ASSUME NEW p \in Process, Kill(p) PROVE TypeOK'
  BY <1>1, StateFacts, TreeFacts, BoundsAssumption, <1>35
     DEF Kill, Free, Goto, At, kept, rest, TypeOK, Labels, Done, Bounds
<1>36. ASSUME NEW p \in Process, BackupBegin(p) PROVE TypeOK'
  BY <1>1, StateFacts, TreeFacts, BoundsAssumption, <1>36
     DEF BackupBegin, Free, HistoryLockFree, Goto, At, kept, rest, TypeOK,
         Labels
<1>37. ASSUME NEW p \in Process, BackupEnd(p) PROVE TypeOK'
  BY <1>1, StateFacts, TreeFacts, BoundsAssumption, <1>37
     DEF BackupEnd, Goto, At, kept, rest, TypeOK, Labels, Done
<1>38. ASSUME Toggle PROVE TypeOK'
  BY <1>1, StateFacts, TreeFacts, BoundsAssumption, <1>38
     DEF Toggle, kept, rest, TypeOK
<1>39. ASSUME NEW f \in Folder, Write(f) PROVE TypeOK'
  <2>1. PICK c \in {"note", "fork"} :
          live' = [live EXCEPT ![f] = Held(@) \cup {c}]
          /\ written' = [written EXCEPT ![f] = @ \cup {c}]
    BY <1>39 DEF Write
  <2>2. c \in Conversation
    BY DEF Conversation
  <2>3. live' \in [Folder -> Trees]
    BY <1>1, <2>1, <2>2, TreeFacts DEF TypeOK
  <2>4. written' \in [Folder -> SUBSET Conversation]
    BY <1>1, <2>1, <2>2 DEF TypeOK
  <2>5. used' \in Bounds
    BY <1>1, <1>39, BoundsAssumption DEF Write, Bounds, TypeOK
  <2> QED BY <1>1, <1>39, <2>3, <2>4, <2>5 DEF Write, kept, TypeOK
<1>40. ASSUME UNCHANGED vars PROVE TypeOK'
  BY <1>1, StateFacts, TreeFacts, BoundsAssumption, <1>40 DEF vars, TypeOK
<1> QED BY <1>2, <1>3, <1>4, <1>5, <1>6, <1>7, <1>8, <1>9, <1>10, <1>11, <1>12,
   <1>13, <1>14, <1>15, <1>16, <1>17, <1>18, <1>19, <1>20, <1>21, <1>22,
   <1>23, <1>24, <1>25, <1>26, <1>27, <1>28, <1>29, <1>30, <1>31, <1>32,
   <1>33, <1>34, <1>35, <1>36, <1>37, <1>38, <1>39, <1>40 DEF Next

\* A command starts only while no other holds the history lock.
LEMMA HolderStep == IInv /\ [Next]_vars => OneHolder'
<1> SUFFICES ASSUME IInv, [Next]_vars PROVE OneHolder'
  OBVIOUS
<1>1. TypeOK /\ OneHolder
  BY DEF IInv
<1>2. ASSUME NEW p \in Process, Begin(p) PROVE OneHolder'
  BY <1>1, <1>2
     DEF Begin, Locks, Free, HistoryLockFree, Goto, At, kept, rest, TypeOK,
         OneHolder, Done
<1>3. ASSUME NEW p \in Process, Stage(p) PROVE OneHolder'
  BY <1>1, <1>3 DEF Stage, Goto, At, kept, rest, TypeOK, OneHolder, Free, Done
<1>4. ASSUME NEW p \in Process, Survey(p) PROVE OneHolder'
  BY <1>1, <1>4
     DEF Survey, Goto, At, kept, rest, TypeOK, OneHolder, Free, Done
<1>5. ASSUME NEW p \in Process, Record(p) PROVE OneHolder'
  BY <1>1, <1>5
     DEF Record, Goto, At, kept, rest, TypeOK, OneHolder, Free, Done
<1>6. ASSUME NEW p \in Process, RecordSynced(p) PROVE OneHolder'
  BY <1>1, <1>6
     DEF RecordSynced, Goto, At, kept, rest, TypeOK, OneHolder, Free, Done
<1>7. ASSUME NEW p \in Process, Mark(p) PROVE OneHolder'
  BY <1>1, <1>7 DEF Mark, Goto, At, kept, rest, TypeOK, OneHolder, Free, Done
<1>8. ASSUME NEW p \in Process, Move(p) PROVE OneHolder'
  BY <1>1, <1>8 DEF Move, Goto, At, kept, rest, TypeOK, OneHolder, Free, Done
<1>9. ASSUME NEW p \in Process, Place(p) PROVE OneHolder'
  BY <1>1, <1>9
     DEF Place, Replaceable, Goto, At, kept, rest, TypeOK, OneHolder, Free,
         Done
<1>10. ASSUME NEW p \in Process, Verify(p) PROVE OneHolder'
  BY <1>1, <1>10
     DEF Verify, Goto, At, kept, rest, TypeOK, OneHolder, Free, Done
<1>11. ASSUME NEW p \in Process, Unstage(p) PROVE OneHolder'
  BY <1>1, <1>11
     DEF Unstage, Goto, At, kept, rest, TypeOK, OneHolder, Free, Done
<1>12. ASSUME NEW p \in Process, Receipt(p) PROVE OneHolder'
  BY <1>1, <1>12
     DEF Receipt, Goto, At, kept, rest, TypeOK, OneHolder, Free, Done
<1>13. ASSUME NEW p \in Process, Unlink(p) PROVE OneHolder'
  BY <1>1, <1>13
     DEF Unlink, Goto, At, kept, rest, TypeOK, OneHolder, Free, Done
<1>14. ASSUME NEW p \in Process, Installed(p) PROVE OneHolder'
  BY <1>1, <1>14
     DEF Installed, Goto, At, kept, rest, TypeOK, OneHolder, Free, Done
<1>15. ASSUME NEW p \in Process, Recover(p) PROVE OneHolder'
  BY <1>1, <1>15
     DEF Recover, Locks, Free, HistoryLockFree, Goto, At, kept, rest, TypeOK,
         OneHolder, Done
<1>16. ASSUME NEW p \in Process, RollbackReceipt(p) PROVE OneHolder'
  BY <1>1, <1>16
     DEF RollbackReceipt, Goto, At, kept, rest, TypeOK, OneHolder, Free, Done
<1>17. ASSUME NEW p \in Process, Quarantine(p) PROVE OneHolder'
  BY <1>1, <1>17
     DEF Quarantine, NextFolder, Goto, At, kept, rest, TypeOK, OneHolder,
         Free, Done
<1>18. ASSUME NEW p \in Process, RollbackPass(p) PROVE OneHolder'
  BY <1>1, <1>18
     DEF RollbackPass, NextFolder, Goto, At, kept, rest, TypeOK, OneHolder,
         Free, Done
<1>19. ASSUME NEW p \in Process, PutBack(p) PROVE OneHolder'
  BY <1>1, <1>19
     DEF PutBack, Replaceable, NextFolder, Goto, At, kept, rest, TypeOK,
         OneHolder, Free, Done
<1>20. ASSUME NEW p \in Process, RollbackVerify(p) PROVE OneHolder'
  BY <1>1, <1>20
     DEF RollbackVerify, Goto, At, kept, rest, TypeOK, OneHolder, Free, Done
<1>21. ASSUME NEW p \in Process, RollbackNote(p) PROVE OneHolder'
  BY <1>1, <1>21
     DEF RollbackNote, Goto, At, kept, rest, TypeOK, OneHolder, Free, Done
<1>22. ASSUME NEW p \in Process, RollbackUnlink(p) PROVE OneHolder'
  BY <1>1, <1>22
     DEF RollbackUnlink, Goto, At, kept, rest, TypeOK, OneHolder, Free, Done
<1>23. ASSUME NEW p \in Process, RollbackUnlinked(p) PROVE OneHolder'
  BY <1>1, <1>23
     DEF RollbackUnlinked, Goto, At, kept, rest, TypeOK, OneHolder, Free, Done
<1>24. ASSUME NEW p \in Process, RolledBack(p) PROVE OneHolder'
  BY <1>1, <1>24
     DEF RolledBack, Goto, At, kept, rest, TypeOK, OneHolder, Free, Done
<1>25. ASSUME NEW p \in Process, AddBegin(p) PROVE OneHolder'
  BY <1>1, <1>25
     DEF AddBegin, Locks, Free, HistoryLockFree, Goto, At, kept, rest, TypeOK,
         OneHolder, Done
<1>26. ASSUME NEW p \in Process, Select(p) PROVE OneHolder'
  BY <1>1, <1>26
     DEF Select, Goto, At, kept, rest, TypeOK, OneHolder, Free, Done
<1>27. ASSUME NEW p \in Process, Copy(p) PROVE OneHolder'
  BY <1>1, <1>27 DEF Copy, Goto, At, kept, rest, TypeOK, OneHolder, Free, Done
<1>28. ASSUME NEW p \in Process, Link(p) PROVE OneHolder'
  BY <1>1, <1>28 DEF Link, Goto, At, kept, rest, TypeOK, OneHolder, Free, Done
<1>29. ASSUME NEW p \in Process, Linked(p) PROVE OneHolder'
  BY <1>1, <1>29
     DEF Linked, Goto, At, kept, rest, TypeOK, OneHolder, Free, Done
<1>30. ASSUME NEW p \in Process, Compare(p) PROVE OneHolder'
  BY <1>1, <1>30
     DEF Compare, Goto, At, kept, rest, TypeOK, OneHolder, Free, Done
<1>31. ASSUME NEW p \in Process, AddReceipt(p) PROVE OneHolder'
  BY <1>1, <1>31
     DEF AddReceipt, Goto, At, kept, rest, TypeOK, OneHolder, Free, Done
<1>32. ASSUME NEW p \in Process, Remove(p) PROVE OneHolder'
  BY <1>1, <1>32
     DEF Remove, Goto, At, kept, rest, TypeOK, OneHolder, Free, Done
<1>33. ASSUME NEW p \in Process, Refuse(p) PROVE OneHolder'
  BY <1>1, <1>33
     DEF Refuse, Raise, Goto, At, kept, rest, TypeOK, OneHolder, Free, Done,
         Exchanging, RollingBack, Adding
<1>34. ASSUME NEW p \in Process, Fail(p) PROVE OneHolder'
  BY <1>1, <1>34
     DEF Fail, Raise, Goto, At, kept, rest, TypeOK, OneHolder, Free, Done,
         Exchanging, RollingBack, Adding
<1>35. ASSUME NEW p \in Process, Kill(p) PROVE OneHolder'
  BY <1>1, <1>35 DEF Kill, Free, Goto, At, kept, rest, TypeOK, OneHolder, Done
<1>36. ASSUME NEW p \in Process, BackupBegin(p) PROVE OneHolder'
  BY <1>1, <1>36
     DEF BackupBegin, Free, HistoryLockFree, Goto, At, kept, rest, TypeOK,
         OneHolder, Done
<1>37. ASSUME NEW p \in Process, BackupEnd(p) PROVE OneHolder'
  BY <1>1, <1>37
     DEF BackupEnd, Goto, At, kept, rest, TypeOK, OneHolder, Free, Done
<1>38. ASSUME Toggle PROVE OneHolder'
  BY <1>1, <1>38 DEF Toggle, kept, rest, TypeOK, OneHolder, Free, Done
<1>39. ASSUME NEW f \in Folder, Write(f) PROVE OneHolder'
  BY <1>1, <1>39 DEF Write, kept, rest, TypeOK, OneHolder, Free, Done
<1>40. ASSUME UNCHANGED vars PROVE OneHolder'
  BY <1>1, <1>40 DEF vars, TypeOK, OneHolder, Free, Done
<1> QED BY <1>2, <1>3, <1>4, <1>5, <1>6, <1>7, <1>8, <1>9, <1>10, <1>11, <1>12,
   <1>13, <1>14, <1>15, <1>16, <1>17, <1>18, <1>19, <1>20, <1>21, <1>22,
   <1>23, <1>24, <1>25, <1>26, <1>27, <1>28, <1>29, <1>30, <1>31, <1>32,
   <1>33, <1>34, <1>35, <1>36, <1>37, <1>38, <1>39, <1>40 DEF Next

\* The saved slots and the folder of an addition.
LEMMA RoomStep == IInv /\ [Next]_vars => SavedRoom' /\ AddRoom'
<1> SUFFICES ASSUME IInv, [Next]_vars PROVE SavedRoom' /\ AddRoom'
  OBVIOUS
<1>1. TypeOK /\ OneHolder /\ SavedRoom /\ AddRoom
  BY DEF IInv
<1>2. ASSUME NEW p \in Process, Begin(p) PROVE SavedRoom' /\ AddRoom'
  BY <1>1, <1>2
     DEF Begin, Locks, Free, HistoryLockFree, Goto, At, kept, rest, TypeOK,
         OneHolder, SavedRoom, AddRoom, Done, Exchanging, RollingBack, Adding,
         Nowhere, Folder, Held, Missing
<1>3. ASSUME NEW p \in Process, Stage(p) PROVE SavedRoom' /\ AddRoom'
  BY <1>1, <1>3
     DEF Stage, Goto, At, kept, rest, TypeOK, OneHolder, SavedRoom, AddRoom,
         Free, Done, Exchanging, RollingBack, Adding, Nowhere, Folder, Held,
         Missing
<1>4. ASSUME NEW p \in Process, Survey(p) PROVE SavedRoom' /\ AddRoom'
  BY <1>1, <1>4
     DEF Survey, Goto, At, kept, rest, TypeOK, OneHolder, SavedRoom, AddRoom,
         Free, Done, Exchanging, RollingBack, Adding, Nowhere, Folder, Held,
         Missing
<1>5. ASSUME NEW p \in Process, Record(p) PROVE SavedRoom' /\ AddRoom'
  BY <1>1, <1>5
     DEF Record, Goto, At, kept, rest, TypeOK, OneHolder, SavedRoom, AddRoom,
         Free, Done, Exchanging, RollingBack, Adding, Nowhere, Folder, Held,
         Missing
<1>6. ASSUME NEW p \in Process, RecordSynced(p) PROVE SavedRoom' /\ AddRoom'
  BY <1>1, <1>6
     DEF RecordSynced, Goto, At, kept, rest, TypeOK, OneHolder, SavedRoom,
         AddRoom, Free, Done, Exchanging, RollingBack, Adding, Nowhere,
         Folder, Held, Missing
<1>7. ASSUME NEW p \in Process, Mark(p) PROVE SavedRoom' /\ AddRoom'
  BY <1>1, <1>7
     DEF Mark, Goto, At, kept, rest, TypeOK, OneHolder, SavedRoom, AddRoom,
         Free, Done, Exchanging, RollingBack, Adding, Nowhere, Folder, Held,
         Missing
<1>8. ASSUME NEW p \in Process, Move(p) PROVE SavedRoom' /\ AddRoom'
  BY <1>1, <1>8
     DEF Move, Goto, At, kept, rest, TypeOK, OneHolder, SavedRoom, AddRoom,
         Free, Done, Exchanging, RollingBack, Adding, Nowhere, Folder, Held,
         Missing
<1>9. ASSUME NEW p \in Process, Place(p) PROVE SavedRoom' /\ AddRoom'
  BY <1>1, <1>9
     DEF Place, Replaceable, Goto, At, kept, rest, TypeOK, OneHolder,
         SavedRoom, AddRoom, Free, Done, Exchanging, RollingBack, Adding,
         Nowhere, Folder, Held, Missing
<1>10. ASSUME NEW p \in Process, Verify(p) PROVE SavedRoom' /\ AddRoom'
  BY <1>1, <1>10
     DEF Verify, Goto, At, kept, rest, TypeOK, OneHolder, SavedRoom, AddRoom,
         Free, Done, Exchanging, RollingBack, Adding, Nowhere, Folder, Held,
         Missing
<1>11. ASSUME NEW p \in Process, Unstage(p) PROVE SavedRoom' /\ AddRoom'
  BY <1>1, <1>11
     DEF Unstage, Goto, At, kept, rest, TypeOK, OneHolder, SavedRoom, AddRoom,
         Free, Done, Exchanging, RollingBack, Adding, Nowhere, Folder, Held,
         Missing
<1>12. ASSUME NEW p \in Process, Receipt(p) PROVE SavedRoom' /\ AddRoom'
  BY <1>1, <1>12
     DEF Receipt, Goto, At, kept, rest, TypeOK, OneHolder, SavedRoom, AddRoom,
         Free, Done, Exchanging, RollingBack, Adding, Nowhere, Folder, Held,
         Missing
<1>13. ASSUME NEW p \in Process, Unlink(p) PROVE SavedRoom' /\ AddRoom'
  BY <1>1, <1>13
     DEF Unlink, Goto, At, kept, rest, TypeOK, OneHolder, SavedRoom, AddRoom,
         Free, Done, Exchanging, RollingBack, Adding, Nowhere, Folder, Held,
         Missing
<1>14. ASSUME NEW p \in Process, Installed(p) PROVE SavedRoom' /\ AddRoom'
  BY <1>1, <1>14
     DEF Installed, Goto, At, kept, rest, TypeOK, OneHolder, SavedRoom,
         AddRoom, Free, Done, Exchanging, RollingBack, Adding, Nowhere,
         Folder, Held, Missing
<1>15. ASSUME NEW p \in Process, Recover(p) PROVE SavedRoom' /\ AddRoom'
  BY <1>1, <1>15
     DEF Recover, Locks, Free, HistoryLockFree, Goto, At, kept, rest, TypeOK,
         OneHolder, SavedRoom, AddRoom, Done, Exchanging, RollingBack, Adding,
         Nowhere, Folder, Held, Missing
<1>16. ASSUME NEW p \in Process, RollbackReceipt(p)
      PROVE SavedRoom' /\ AddRoom'
  BY <1>1, <1>16
     DEF RollbackReceipt, Goto, At, kept, rest, TypeOK, OneHolder, SavedRoom,
         AddRoom, Free, Done, Exchanging, RollingBack, Adding, Nowhere,
         Folder, Held, Missing
<1>17. ASSUME NEW p \in Process, Quarantine(p) PROVE SavedRoom' /\ AddRoom'
  BY <1>1, <1>17
     DEF Quarantine, NextFolder, Goto, At, kept, rest, TypeOK, OneHolder,
         SavedRoom, AddRoom, Free, Done, Exchanging, RollingBack, Adding,
         Nowhere, Folder, Held, Missing
<1>18. ASSUME NEW p \in Process, RollbackPass(p) PROVE SavedRoom' /\ AddRoom'
  BY <1>1, <1>18
     DEF RollbackPass, NextFolder, Goto, At, kept, rest, TypeOK, OneHolder,
         SavedRoom, AddRoom, Free, Done, Exchanging, RollingBack, Adding,
         Nowhere, Folder, Held, Missing
<1>19. ASSUME NEW p \in Process, PutBack(p) PROVE SavedRoom' /\ AddRoom'
  BY <1>1, <1>19
     DEF PutBack, Replaceable, NextFolder, Goto, At, kept, rest, TypeOK,
         OneHolder, SavedRoom, AddRoom, Free, Done, Exchanging, RollingBack,
         Adding, Nowhere, Folder, Held, Missing
<1>20. ASSUME NEW p \in Process, RollbackVerify(p)
      PROVE SavedRoom' /\ AddRoom'
  BY <1>1, <1>20
     DEF RollbackVerify, Goto, At, kept, rest, TypeOK, OneHolder, SavedRoom,
         AddRoom, Free, Done, Exchanging, RollingBack, Adding, Nowhere,
         Folder, Held, Missing
<1>21. ASSUME NEW p \in Process, RollbackNote(p) PROVE SavedRoom' /\ AddRoom'
  BY <1>1, <1>21
     DEF RollbackNote, Goto, At, kept, rest, TypeOK, OneHolder, SavedRoom,
         AddRoom, Free, Done, Exchanging, RollingBack, Adding, Nowhere,
         Folder, Held, Missing
<1>22. ASSUME NEW p \in Process, RollbackUnlink(p)
      PROVE SavedRoom' /\ AddRoom'
  BY <1>1, <1>22
     DEF RollbackUnlink, Goto, At, kept, rest, TypeOK, OneHolder, SavedRoom,
         AddRoom, Free, Done, Exchanging, RollingBack, Adding, Nowhere,
         Folder, Held, Missing
<1>23. ASSUME NEW p \in Process, RollbackUnlinked(p)
      PROVE SavedRoom' /\ AddRoom'
  BY <1>1, <1>23
     DEF RollbackUnlinked, Goto, At, kept, rest, TypeOK, OneHolder, SavedRoom,
         AddRoom, Free, Done, Exchanging, RollingBack, Adding, Nowhere,
         Folder, Held, Missing
<1>24. ASSUME NEW p \in Process, RolledBack(p) PROVE SavedRoom' /\ AddRoom'
  BY <1>1, <1>24
     DEF RolledBack, Goto, At, kept, rest, TypeOK, OneHolder, SavedRoom,
         AddRoom, Free, Done, Exchanging, RollingBack, Adding, Nowhere,
         Folder, Held, Missing
<1>25. ASSUME NEW p \in Process, AddBegin(p) PROVE SavedRoom' /\ AddRoom'
  BY <1>1, <1>25
     DEF AddBegin, Locks, Free, HistoryLockFree, Goto, At, kept, rest, TypeOK,
         OneHolder, SavedRoom, AddRoom, Done, Exchanging, RollingBack, Adding,
         Nowhere, Folder, Held, Missing
<1>26. ASSUME NEW p \in Process, Select(p) PROVE SavedRoom' /\ AddRoom'
  <2>1. live[1] \in Trees /\ 1 \in Folder
    BY <1>1, StateFacts DEF TypeOK
  <2>2. "pick" \notin live[1] => live'[1] # Missing
    BY <1>1, <1>26, <2>1, TreeFacts DEF Select, TypeOK
  <2>3. AddRoom'
    BY <1>1, <1>26, <2>2
       DEF Select, Goto, At, AddRoom, OneHolder, Free, TypeOK, Labels, Done,
           Exchanging, RollingBack, Adding
  <2>4. SavedRoom'
    BY <1>1, <1>26 DEF Select, Goto, At, kept, SavedRoom, TypeOK
  <2> QED BY <2>3, <2>4
<1>27. ASSUME NEW p \in Process, Copy(p) PROVE SavedRoom' /\ AddRoom'
  BY <1>1, <1>27
     DEF Copy, Goto, At, kept, rest, TypeOK, OneHolder, SavedRoom, AddRoom,
         Free, Done, Exchanging, RollingBack, Adding, Nowhere, Folder, Held,
         Missing
<1>28. ASSUME NEW p \in Process, Link(p) PROVE SavedRoom' /\ AddRoom'
  BY <1>1, <1>28
     DEF Link, Goto, At, kept, rest, TypeOK, OneHolder, SavedRoom, AddRoom,
         Free, Done, Exchanging, RollingBack, Adding, Nowhere, Folder, Held,
         Missing
<1>29. ASSUME NEW p \in Process, Linked(p) PROVE SavedRoom' /\ AddRoom'
  BY <1>1, <1>29
     DEF Linked, Goto, At, kept, rest, TypeOK, OneHolder, SavedRoom, AddRoom,
         Free, Done, Exchanging, RollingBack, Adding, Nowhere, Folder, Held,
         Missing
<1>30. ASSUME NEW p \in Process, Compare(p) PROVE SavedRoom' /\ AddRoom'
  BY <1>1, <1>30
     DEF Compare, Goto, At, kept, rest, TypeOK, OneHolder, SavedRoom, AddRoom,
         Free, Done, Exchanging, RollingBack, Adding, Nowhere, Folder, Held,
         Missing
<1>31. ASSUME NEW p \in Process, AddReceipt(p) PROVE SavedRoom' /\ AddRoom'
  BY <1>1, <1>31
     DEF AddReceipt, Goto, At, kept, rest, TypeOK, OneHolder, SavedRoom,
         AddRoom, Free, Done, Exchanging, RollingBack, Adding, Nowhere,
         Folder, Held, Missing
<1>32. ASSUME NEW p \in Process, Remove(p) PROVE SavedRoom' /\ AddRoom'
  BY <1>1, <1>32
     DEF Remove, Goto, At, kept, rest, TypeOK, OneHolder, SavedRoom, AddRoom,
         Free, Done, Exchanging, RollingBack, Adding, Nowhere, Folder, Held,
         Missing
<1>33. ASSUME NEW p \in Process, Refuse(p) PROVE SavedRoom' /\ AddRoom'
  BY <1>1, <1>33
     DEF Refuse, Raise, Goto, At, kept, rest, TypeOK, OneHolder, SavedRoom,
         AddRoom, Free, Done, Exchanging, RollingBack, Adding, Nowhere,
         Folder, Held, Missing
<1>34. ASSUME NEW p \in Process, Fail(p) PROVE SavedRoom' /\ AddRoom'
  BY <1>1, <1>34
     DEF Fail, Raise, Goto, At, kept, rest, TypeOK, OneHolder, SavedRoom,
         AddRoom, Free, Done, Exchanging, RollingBack, Adding, Nowhere,
         Folder, Held, Missing
<1>35. ASSUME NEW p \in Process, Kill(p) PROVE SavedRoom' /\ AddRoom'
  BY <1>1, <1>35
     DEF Kill, Free, Goto, At, kept, rest, TypeOK, OneHolder, SavedRoom,
         AddRoom, Done, Exchanging, RollingBack, Adding, Nowhere, Folder,
         Held, Missing
<1>36. ASSUME NEW p \in Process, BackupBegin(p) PROVE SavedRoom' /\ AddRoom'
  BY <1>1, <1>36
     DEF BackupBegin, Free, HistoryLockFree, Goto, At, kept, rest, TypeOK,
         OneHolder, SavedRoom, AddRoom, Done, Exchanging, RollingBack, Adding,
         Nowhere, Folder, Held, Missing
<1>37. ASSUME NEW p \in Process, BackupEnd(p) PROVE SavedRoom' /\ AddRoom'
  BY <1>1, <1>37
     DEF BackupEnd, Goto, At, kept, rest, TypeOK, OneHolder, SavedRoom,
         AddRoom, Free, Done, Exchanging, RollingBack, Adding, Nowhere,
         Folder, Held, Missing
<1>38. ASSUME Toggle PROVE SavedRoom' /\ AddRoom'
  BY <1>1, <1>38
     DEF Toggle, kept, rest, TypeOK, OneHolder, SavedRoom, AddRoom, At, Free,
         Done, Exchanging, RollingBack, Adding, Nowhere, Folder, Held, Missing
<1>39. ASSUME NEW f \in Folder, Write(f) PROVE SavedRoom' /\ AddRoom'
  BY <1>1, <1>39
     DEF Write, kept, rest, TypeOK, OneHolder, SavedRoom, AddRoom, At, Free,
         Done, Exchanging, RollingBack, Adding, Nowhere, Folder, Held, Missing
<1>40. ASSUME UNCHANGED vars PROVE SavedRoom' /\ AddRoom'
  BY <1>1, <1>40
     DEF vars, TypeOK, OneHolder, SavedRoom, AddRoom, At, Free, Done,
         Exchanging, RollingBack, Adding, Nowhere, Folder, Held, Missing
<1> QED BY <1>2, <1>3, <1>4, <1>5, <1>6, <1>7, <1>8, <1>9, <1>10, <1>11, <1>12,
   <1>13, <1>14, <1>15, <1>16, <1>17, <1>18, <1>19, <1>20, <1>21, <1>22,
   <1>23, <1>24, <1>25, <1>26, <1>27, <1>28, <1>29, <1>30, <1>31, <1>32,
   <1>33, <1>34, <1>35, <1>36, <1>37, <1>38, <1>39, <1>40 DEF Next

\* No step drops a conversation of the user.
LEMMA KeptStep == IInv /\ [Next]_vars => UsersOwn' /\ NothingLost'
<1> SUFFICES ASSUME IInv, [Next]_vars PROVE UsersOwn' /\ NothingLost'
  OBVIOUS
<1>1. TypeOK /\ SavedRoom /\ UsersOwn /\ NothingLost
  BY DEF IInv
<1>2. ASSUME NEW p \in Process, Begin(p) PROVE UsersOwn' /\ NothingLost'
  BY <1>1, <1>2
     DEF Begin, Locks, Free, HistoryLockFree, Goto, At, kept, rest, TypeOK,
         UsersOwn, NothingLost, Nowhere, Held, Missing
<1>3. ASSUME NEW p \in Process, Stage(p) PROVE UsersOwn' /\ NothingLost'
  BY <1>1, <1>3 DEF Stage, Goto, At, kept, rest, TypeOK, UsersOwn, NothingLost
<1>4. ASSUME NEW p \in Process, Survey(p) PROVE UsersOwn' /\ NothingLost'
  BY <1>1, <1>4
     DEF Survey, Goto, At, kept, rest, TypeOK, UsersOwn, NothingLost
<1>5. ASSUME NEW p \in Process, Record(p) PROVE UsersOwn' /\ NothingLost'
  BY <1>1, <1>5
     DEF Record, Goto, At, kept, rest, TypeOK, UsersOwn, NothingLost
<1>6. ASSUME NEW p \in Process, RecordSynced(p)
      PROVE UsersOwn' /\ NothingLost'
  BY <1>1, <1>6
     DEF RecordSynced, Goto, At, kept, rest, TypeOK, UsersOwn, NothingLost
<1>7. ASSUME NEW p \in Process, Mark(p) PROVE UsersOwn' /\ NothingLost'
  BY <1>1, <1>7 DEF Mark, Goto, At, kept, rest, TypeOK, UsersOwn, NothingLost
<1>8. ASSUME NEW p \in Process, Move(p) PROVE UsersOwn' /\ NothingLost'
  BY <1>1, <1>8
     DEF Move, Goto, At, kept, rest, TypeOK, UsersOwn, NothingLost, SavedRoom,
         Folder
<1>9. ASSUME NEW p \in Process, Place(p) PROVE UsersOwn' /\ NothingLost'
  BY <1>1, <1>9
     DEF Place, Replaceable, Goto, At, kept, rest, TypeOK, UsersOwn,
         NothingLost, Held, Missing
<1>10. ASSUME NEW p \in Process, Verify(p) PROVE UsersOwn' /\ NothingLost'
  BY <1>1, <1>10
     DEF Verify, Goto, At, kept, rest, TypeOK, UsersOwn, NothingLost
<1>11. ASSUME NEW p \in Process, Unstage(p) PROVE UsersOwn' /\ NothingLost'
  BY <1>1, <1>11
     DEF Unstage, Goto, At, kept, rest, TypeOK, UsersOwn, NothingLost
<1>12. ASSUME NEW p \in Process, Receipt(p) PROVE UsersOwn' /\ NothingLost'
  BY <1>1, <1>12
     DEF Receipt, Goto, At, kept, rest, TypeOK, UsersOwn, NothingLost
<1>13. ASSUME NEW p \in Process, Unlink(p) PROVE UsersOwn' /\ NothingLost'
  BY <1>1, <1>13
     DEF Unlink, Goto, At, kept, rest, TypeOK, UsersOwn, NothingLost
<1>14. ASSUME NEW p \in Process, Installed(p) PROVE UsersOwn' /\ NothingLost'
  BY <1>1, <1>14
     DEF Installed, Goto, At, kept, rest, TypeOK, UsersOwn, NothingLost
<1>15. ASSUME NEW p \in Process, Recover(p) PROVE UsersOwn' /\ NothingLost'
  BY <1>1, <1>15
     DEF Recover, Locks, Free, HistoryLockFree, Goto, At, kept, rest, TypeOK,
         UsersOwn, NothingLost
<1>16. ASSUME NEW p \in Process, RollbackReceipt(p)
      PROVE UsersOwn' /\ NothingLost'
  BY <1>1, <1>16
     DEF RollbackReceipt, Goto, At, kept, rest, TypeOK, UsersOwn, NothingLost
<1>17. ASSUME NEW p \in Process, Quarantine(p) PROVE UsersOwn' /\ NothingLost'
  BY <1>1, <1>17
     DEF Quarantine, NextFolder, Goto, At, kept, rest, TypeOK, UsersOwn,
         NothingLost
<1>18. ASSUME NEW p \in Process, RollbackPass(p)
      PROVE UsersOwn' /\ NothingLost'
  BY <1>1, <1>18
     DEF RollbackPass, NextFolder, Goto, At, kept, rest, TypeOK, UsersOwn,
         NothingLost
<1>19. ASSUME NEW p \in Process, PutBack(p) PROVE UsersOwn' /\ NothingLost'
  BY <1>1, <1>19
     DEF PutBack, Replaceable, NextFolder, Goto, At, kept, rest, TypeOK,
         UsersOwn, NothingLost, Held, Missing
<1>20. ASSUME NEW p \in Process, RollbackVerify(p)
      PROVE UsersOwn' /\ NothingLost'
  BY <1>1, <1>20
     DEF RollbackVerify, Goto, At, kept, rest, TypeOK, UsersOwn, NothingLost
<1>21. ASSUME NEW p \in Process, RollbackNote(p)
      PROVE UsersOwn' /\ NothingLost'
  BY <1>1, <1>21
     DEF RollbackNote, Goto, At, kept, rest, TypeOK, UsersOwn, NothingLost
<1>22. ASSUME NEW p \in Process, RollbackUnlink(p)
      PROVE UsersOwn' /\ NothingLost'
  BY <1>1, <1>22
     DEF RollbackUnlink, Goto, At, kept, rest, TypeOK, UsersOwn, NothingLost
<1>23. ASSUME NEW p \in Process, RollbackUnlinked(p)
      PROVE UsersOwn' /\ NothingLost'
  BY <1>1, <1>23
     DEF RollbackUnlinked, Goto, At, kept, rest, TypeOK, UsersOwn, NothingLost
<1>24. ASSUME NEW p \in Process, RolledBack(p) PROVE UsersOwn' /\ NothingLost'
  BY <1>1, <1>24
     DEF RolledBack, Goto, At, kept, rest, TypeOK, UsersOwn, NothingLost
<1>25. ASSUME NEW p \in Process, AddBegin(p) PROVE UsersOwn' /\ NothingLost'
  BY <1>1, <1>25
     DEF AddBegin, Locks, Free, HistoryLockFree, Goto, At, kept, rest, TypeOK,
         UsersOwn, NothingLost
<1>26. ASSUME NEW p \in Process, Select(p) PROVE UsersOwn' /\ NothingLost'
  <2>1. \A f \in Folder : live[f] \cap {"own", "note", "fork"} \subseteq live'[f]
    BY <1>1, <1>26 DEF Select, TypeOK, Held, Missing
  <2>2. UNCHANGED <<saved, failed, archive, written>>
    BY <1>26 DEF Select, kept, rest
  <2> QED BY <1>1, <2>1, <2>2 DEF UsersOwn, NothingLost
<1>27. ASSUME NEW p \in Process, Copy(p) PROVE UsersOwn' /\ NothingLost'
  BY <1>1, <1>27 DEF Copy, Goto, At, kept, rest, TypeOK, UsersOwn, NothingLost
<1>28. ASSUME NEW p \in Process, Link(p) PROVE UsersOwn' /\ NothingLost'
  BY <1>1, <1>28 DEF Link, Goto, At, kept, rest, TypeOK, UsersOwn, NothingLost
<1>29. ASSUME NEW p \in Process, Linked(p) PROVE UsersOwn' /\ NothingLost'
  BY <1>1, <1>29
     DEF Linked, Goto, At, kept, rest, TypeOK, UsersOwn, NothingLost
<1>30. ASSUME NEW p \in Process, Compare(p) PROVE UsersOwn' /\ NothingLost'
  BY <1>1, <1>30
     DEF Compare, Goto, At, kept, rest, TypeOK, UsersOwn, NothingLost
<1>31. ASSUME NEW p \in Process, AddReceipt(p) PROVE UsersOwn' /\ NothingLost'
  BY <1>1, <1>31
     DEF AddReceipt, Goto, At, kept, rest, TypeOK, UsersOwn, NothingLost
<1>32. ASSUME NEW p \in Process, Remove(p) PROVE UsersOwn' /\ NothingLost'
  BY <1>1, <1>32
     DEF Remove, Goto, At, kept, rest, TypeOK, UsersOwn, NothingLost
<1>33. ASSUME NEW p \in Process, Refuse(p) PROVE UsersOwn' /\ NothingLost'
  <2>1. \A f \in Folder : live[f] \cap {"own", "note", "fork"} \subseteq live'[f]
    BY <1>1, <1>33 DEF Refuse, Raise, TypeOK, Held, Missing
  <2>2. UNCHANGED <<saved, failed, archive, written>>
    BY <1>33 DEF Refuse, Raise, kept, rest
  <2> QED BY <1>1, <2>1, <2>2 DEF UsersOwn, NothingLost
<1>34. ASSUME NEW p \in Process, Fail(p) PROVE UsersOwn' /\ NothingLost'
  <2>1. \A f \in Folder : live[f] \cap {"own", "note", "fork"} \subseteq live'[f]
    BY <1>1, <1>34 DEF Fail, Raise, TypeOK, Held, Missing
  <2>2. UNCHANGED <<saved, failed, archive, written>>
    BY <1>34 DEF Fail, Raise, kept, rest
  <2> QED BY <1>1, <2>1, <2>2 DEF UsersOwn, NothingLost
<1>35. ASSUME NEW p \in Process, Kill(p) PROVE UsersOwn' /\ NothingLost'
  BY <1>1, <1>35
     DEF Kill, Free, Goto, At, kept, rest, TypeOK, UsersOwn, NothingLost
<1>36. ASSUME NEW p \in Process, BackupBegin(p)
      PROVE UsersOwn' /\ NothingLost'
  BY <1>1, <1>36
     DEF BackupBegin, Free, HistoryLockFree, Goto, At, kept, rest, TypeOK,
         UsersOwn, NothingLost
<1>37. ASSUME NEW p \in Process, BackupEnd(p) PROVE UsersOwn' /\ NothingLost'
  BY <1>1, <1>37
     DEF BackupEnd, Goto, At, kept, rest, TypeOK, UsersOwn, NothingLost
<1>38. ASSUME Toggle PROVE UsersOwn' /\ NothingLost'
  BY <1>1, <1>38 DEF Toggle, kept, rest, TypeOK, UsersOwn, NothingLost
<1>39. ASSUME NEW f \in Folder, Write(f) PROVE UsersOwn' /\ NothingLost'
  BY <1>1, <1>39
     DEF Write, kept, rest, TypeOK, UsersOwn, NothingLost, Held, Missing
<1>40. ASSUME UNCHANGED vars PROVE UsersOwn' /\ NothingLost'
  BY <1>1, <1>40 DEF vars, TypeOK, UsersOwn, NothingLost
<1> QED BY <1>2, <1>3, <1>4, <1>5, <1>6, <1>7, <1>8, <1>9, <1>10, <1>11, <1>12,
   <1>13, <1>14, <1>15, <1>16, <1>17, <1>18, <1>19, <1>20, <1>21, <1>22,
   <1>23, <1>24, <1>25, <1>26, <1>27, <1>28, <1>29, <1>30, <1>31, <1>32,
   <1>33, <1>34, <1>35, <1>36, <1>37, <1>38, <1>39, <1>40 DEF Next
\* While a backup reads, no other command is inside the history lock.
LEMMA StillStep == IInv /\ [Next]_vars => ReadsStill
<1> SUFFICES ASSUME IInv, [Next]_vars PROVE ReadsStill
  OBVIOUS
<1>1. TypeOK /\ OneHolder
  BY DEF IInv
<1>2. ASSUME NEW p \in Process, Begin(p) PROVE ReadsStill
  BY <1>1, TreeFacts, <1>2
     DEF Begin, Locks, Free, HistoryLockFree, Goto, At, kept, rest, TypeOK,
         OneHolder, ReadsStill, Done
<1>3. ASSUME NEW p \in Process, Stage(p) PROVE ReadsStill
  BY <1>1, TreeFacts, <1>3
     DEF Stage, Goto, At, kept, rest, TypeOK, OneHolder, ReadsStill, Free,
         Done
<1>4. ASSUME NEW p \in Process, Survey(p) PROVE ReadsStill
  BY <1>1, TreeFacts, <1>4
     DEF Survey, Goto, At, kept, rest, TypeOK, OneHolder, ReadsStill, Free,
         Done
<1>5. ASSUME NEW p \in Process, Record(p) PROVE ReadsStill
  BY <1>1, TreeFacts, <1>5
     DEF Record, Goto, At, kept, rest, TypeOK, OneHolder, ReadsStill, Free,
         Done
<1>6. ASSUME NEW p \in Process, RecordSynced(p) PROVE ReadsStill
  BY <1>1, TreeFacts, <1>6
     DEF RecordSynced, Goto, At, kept, rest, TypeOK, OneHolder, ReadsStill,
         Free, Done
<1>7. ASSUME NEW p \in Process, Mark(p) PROVE ReadsStill
  BY <1>1, TreeFacts, <1>7
     DEF Mark, Goto, At, kept, rest, TypeOK, OneHolder, ReadsStill, Free, Done
<1>8. ASSUME NEW p \in Process, Move(p) PROVE ReadsStill
  BY <1>1, TreeFacts, <1>8
     DEF Move, Goto, At, kept, rest, TypeOK, OneHolder, ReadsStill, Free, Done
<1>9. ASSUME NEW p \in Process, Place(p) PROVE ReadsStill
  BY <1>1, TreeFacts, <1>9
     DEF Place, Replaceable, Goto, At, kept, rest, TypeOK, OneHolder,
         ReadsStill, Free, Done
<1>10. ASSUME NEW p \in Process, Verify(p) PROVE ReadsStill
  BY <1>1, TreeFacts, <1>10
     DEF Verify, Goto, At, kept, rest, TypeOK, OneHolder, ReadsStill, Free,
         Done
<1>11. ASSUME NEW p \in Process, Unstage(p) PROVE ReadsStill
  BY <1>1, TreeFacts, <1>11
     DEF Unstage, Goto, At, kept, rest, TypeOK, OneHolder, ReadsStill, Free,
         Done
<1>12. ASSUME NEW p \in Process, Receipt(p) PROVE ReadsStill
  BY <1>1, TreeFacts, <1>12
     DEF Receipt, Goto, At, kept, rest, TypeOK, OneHolder, ReadsStill, Free,
         Done
<1>13. ASSUME NEW p \in Process, Unlink(p) PROVE ReadsStill
  BY <1>1, TreeFacts, <1>13
     DEF Unlink, Goto, At, kept, rest, TypeOK, OneHolder, ReadsStill, Free,
         Done
<1>14. ASSUME NEW p \in Process, Installed(p) PROVE ReadsStill
  BY <1>1, TreeFacts, <1>14
     DEF Installed, Goto, At, kept, rest, TypeOK, OneHolder, ReadsStill, Free,
         Done
<1>15. ASSUME NEW p \in Process, Recover(p) PROVE ReadsStill
  BY <1>1, TreeFacts, <1>15
     DEF Recover, Locks, Free, HistoryLockFree, Goto, At, kept, rest, TypeOK,
         OneHolder, ReadsStill, Done
<1>16. ASSUME NEW p \in Process, RollbackReceipt(p) PROVE ReadsStill
  BY <1>1, TreeFacts, <1>16
     DEF RollbackReceipt, Goto, At, kept, rest, TypeOK, OneHolder, ReadsStill,
         Free, Done
<1>17. ASSUME NEW p \in Process, Quarantine(p) PROVE ReadsStill
  BY <1>1, TreeFacts, <1>17
     DEF Quarantine, NextFolder, Goto, At, kept, rest, TypeOK, OneHolder,
         ReadsStill, Free, Done
<1>18. ASSUME NEW p \in Process, RollbackPass(p) PROVE ReadsStill
  BY <1>1, TreeFacts, <1>18
     DEF RollbackPass, NextFolder, Goto, At, kept, rest, TypeOK, OneHolder,
         ReadsStill, Free, Done
<1>19. ASSUME NEW p \in Process, PutBack(p) PROVE ReadsStill
  BY <1>1, TreeFacts, <1>19
     DEF PutBack, Replaceable, NextFolder, Goto, At, kept, rest, TypeOK,
         OneHolder, ReadsStill, Free, Done
<1>20. ASSUME NEW p \in Process, RollbackVerify(p) PROVE ReadsStill
  BY <1>1, TreeFacts, <1>20
     DEF RollbackVerify, Goto, At, kept, rest, TypeOK, OneHolder, ReadsStill,
         Free, Done
<1>21. ASSUME NEW p \in Process, RollbackNote(p) PROVE ReadsStill
  BY <1>1, TreeFacts, <1>21
     DEF RollbackNote, Goto, At, kept, rest, TypeOK, OneHolder, ReadsStill,
         Free, Done
<1>22. ASSUME NEW p \in Process, RollbackUnlink(p) PROVE ReadsStill
  BY <1>1, TreeFacts, <1>22
     DEF RollbackUnlink, Goto, At, kept, rest, TypeOK, OneHolder, ReadsStill,
         Free, Done
<1>23. ASSUME NEW p \in Process, RollbackUnlinked(p) PROVE ReadsStill
  BY <1>1, TreeFacts, <1>23
     DEF RollbackUnlinked, Goto, At, kept, rest, TypeOK, OneHolder,
         ReadsStill, Free, Done
<1>24. ASSUME NEW p \in Process, RolledBack(p) PROVE ReadsStill
  BY <1>1, TreeFacts, <1>24
     DEF RolledBack, Goto, At, kept, rest, TypeOK, OneHolder, ReadsStill,
         Free, Done
<1>25. ASSUME NEW p \in Process, AddBegin(p) PROVE ReadsStill
  BY <1>1, TreeFacts, <1>25
     DEF AddBegin, Locks, Free, HistoryLockFree, Goto, At, kept, rest, TypeOK,
         OneHolder, ReadsStill, Done
<1>26. ASSUME NEW p \in Process, Select(p) PROVE ReadsStill
  BY <1>1, TreeFacts, <1>26
     DEF Select, Goto, At, kept, rest, TypeOK, OneHolder, ReadsStill, Free,
         Done
<1>27. ASSUME NEW p \in Process, Copy(p) PROVE ReadsStill
  BY <1>1, TreeFacts, <1>27
     DEF Copy, Goto, At, kept, rest, TypeOK, OneHolder, ReadsStill, Free, Done
<1>28. ASSUME NEW p \in Process, Link(p) PROVE ReadsStill
  BY <1>1, TreeFacts, <1>28
     DEF Link, Goto, At, kept, rest, TypeOK, OneHolder, ReadsStill, Free, Done
<1>29. ASSUME NEW p \in Process, Linked(p) PROVE ReadsStill
  BY <1>1, TreeFacts, <1>29
     DEF Linked, Goto, At, kept, rest, TypeOK, OneHolder, ReadsStill, Free,
         Done
<1>30. ASSUME NEW p \in Process, Compare(p) PROVE ReadsStill
  BY <1>1, TreeFacts, <1>30
     DEF Compare, Goto, At, kept, rest, TypeOK, OneHolder, ReadsStill, Free,
         Done
<1>31. ASSUME NEW p \in Process, AddReceipt(p) PROVE ReadsStill
  BY <1>1, TreeFacts, <1>31
     DEF AddReceipt, Goto, At, kept, rest, TypeOK, OneHolder, ReadsStill,
         Free, Done
<1>32. ASSUME NEW p \in Process, Remove(p) PROVE ReadsStill
  BY <1>1, TreeFacts, <1>32
     DEF Remove, Goto, At, kept, rest, TypeOK, OneHolder, ReadsStill, Free,
         Done
<1>33. ASSUME NEW p \in Process, Refuse(p) PROVE ReadsStill
  BY <1>1, TreeFacts, <1>33
     DEF Refuse, Raise, Goto, At, kept, rest, TypeOK, OneHolder, ReadsStill,
         Free, Done, Exchanging, RollingBack, Adding
<1>34. ASSUME NEW p \in Process, Fail(p) PROVE ReadsStill
  BY <1>1, TreeFacts, <1>34
     DEF Fail, Raise, Goto, At, kept, rest, TypeOK, OneHolder, ReadsStill,
         Free, Done, Exchanging, RollingBack, Adding
<1>35. ASSUME NEW p \in Process, Kill(p) PROVE ReadsStill
  BY <1>1, TreeFacts, <1>35
     DEF Kill, Free, Goto, At, kept, rest, TypeOK, OneHolder, ReadsStill, Done
<1>36. ASSUME NEW p \in Process, BackupBegin(p) PROVE ReadsStill
  BY <1>1, TreeFacts, <1>36
     DEF BackupBegin, Free, HistoryLockFree, Goto, At, kept, rest, TypeOK,
         OneHolder, ReadsStill, Done
<1>37. ASSUME NEW p \in Process, BackupEnd(p) PROVE ReadsStill
  BY <1>1, TreeFacts, <1>37
     DEF BackupEnd, Goto, At, kept, rest, TypeOK, OneHolder, ReadsStill, Free,
         Done
<1>38. ASSUME Toggle PROVE ReadsStill
  BY <1>1, TreeFacts, <1>38
     DEF Toggle, kept, rest, TypeOK, OneHolder, ReadsStill, Free, Done, At
<1>39. ASSUME NEW f \in Folder, Write(f) PROVE ReadsStill
  BY <1>1, TreeFacts, <1>39
     DEF Write, kept, rest, TypeOK, OneHolder, ReadsStill, Free, Done, At
<1>40. ASSUME UNCHANGED vars PROVE ReadsStill
  BY <1>1, TreeFacts, <1>40
     DEF vars, TypeOK, OneHolder, ReadsStill, Free, Done
<1> QED BY <1>2, <1>3, <1>4, <1>5, <1>6, <1>7, <1>8, <1>9, <1>10, <1>11, <1>12,
   <1>13, <1>14, <1>15, <1>16, <1>17, <1>18, <1>19, <1>20, <1>21, <1>22,
   <1>23, <1>24, <1>25, <1>26, <1>27, <1>28, <1>29, <1>30, <1>31, <1>32,
   <1>33, <1>34, <1>35, <1>36, <1>37, <1>38, <1>39, <1>40 DEF Next

\* IInv is inductive: each step keeps every part of it.
LEMMA Inductive == IInv /\ [Next]_vars => IInv'
  BY TypeStep, HolderStep, RoomStep, KeptStep DEF IInv

\* IInv holds throughout every behaviour.
THEOREM InvariantHolds == Spec => []IInv
  BY InitIInv, Inductive, PTL DEF Spec

\* Every variable keeps its type, whatever is killed, fails or is refused.
THEOREM TypeCorrect == Spec => []TypeOK
<1>1. IInv => TypeOK
  BY DEF IInv
<1> QED BY <1>1, InvariantHolds, PTL

\* Installing, rolling back, adding and their failures lose no conversation
\* the user wrote: each stays in the live history, in the attempt's backup
\* folder or in an earlier one.
THEOREM NothingIsLost == Spec => []NothingLost
<1>1. IInv => NothingLost
  BY DEF IInv
<1> QED BY <1>1, InvariantHolds, PTL

\* No command moves or removes a folder or a conversation while a backup
\* reads the history.
THEOREM BackupsReadStill == Spec => BackupReadsStill
  BY InvariantHolds, StillStep, PTL DEF Spec, BackupReadsStill

-----------------------------------------------------------------------------
(* UnjournalledIsWhole and AnswersAreTrue. *)

Step(p) ==
    \/ Begin(p) \/ Stage(p) \/ Survey(p) \/ Record(p) \/ RecordSynced(p)
    \/ Mark(p) \/ Move(p) \/ Place(p) \/ Verify(p) \/ Unstage(p)
    \/ Receipt(p) \/ Unlink(p) \/ Installed(p)
    \/ Recover(p) \/ RollbackReceipt(p) \/ Quarantine(p)
    \/ RollbackPass(p) \/ PutBack(p) \/ RollbackVerify(p)
    \/ RollbackNote(p) \/ RollbackUnlink(p) \/ RollbackUnlinked(p)
    \/ RolledBack(p)
    \/ AddBegin(p) \/ Select(p) \/ Copy(p) \/ Link(p) \/ Linked(p)
    \/ Compare(p) \/ AddReceipt(p) \/ Remove(p)
    \/ Refuse(p) \/ Fail(p) \/ Kill(p)
    \/ BackupBegin(p) \/ BackupEnd(p)

\* A digest is no absent journal, and a folder without the snapshot's
\* conversation is one with or without a tree.
LEMMA DigestFacts ==
    /\ \A d \in [Folder -> SUBSET Conversation] : d # None
    /\ \A t \in Trees : "snap" \in Held(t) <=> "snap" \in t
    /\ \A t \in Trees : "snap" \in t => Held(t) = t
    /\ \A f \in Folder : "snap" \in Snapshot[f]
    /\ "snap" \notin Missing
<1>1. \A d \in [Folder -> SUBSET Conversation] : d # None
  <2> SUFFICES ASSUME NEW d \in [Folder -> SUBSET Conversation], d = None PROVE FALSE
    OBVIOUS
  <2>1. DOMAIN d = 1..N /\ DOMAIN d = 1..0
    BY DEF None, Folder
  <2> QED BY <2>1, NAssumption
<1>2. "snap" \notin Missing /\ Missing = {"missing"}
  BY DEF Missing
<1>3. \A t \in Trees : "snap" \in Held(t) <=> "snap" \in t
  BY <1>2 DEF Held
<1>4. \A t \in Trees : "snap" \in t => Held(t) = t
  BY <1>2, TreeFacts
<1>5. \A f \in Folder : "snap" \in Snapshot[f]
  BY DEF Snapshot
<1> QED BY <1>1, <1>2, <1>3, <1>4, <1>5

\* Beside a command that moves there is only Codex.
LEMMA Alone ==
    ASSUME IInv, NEW p \in Process, Step(p), NEW q \in Process, q # p
    PROVE  pc'[q] = pc[q] /\ Free(q)
<1>1. Free(q)
  <2>1. CASE HistoryLockFree
    BY <2>1 DEF HistoryLockFree
  <2>2. CASE ~Free(p)
    BY <2>2 DEF IInv, OneHolder
  <2> QED BY <2>1, <2>2 DEF Step, Free, Done, At, Locks, Begin, Stage, Survey, Record,
       RecordSynced, Mark, Move, Place, Verify, Unstage, Receipt, Unlink, Installed,
       Recover, RollbackReceipt, Quarantine, RollbackPass, PutBack, RollbackVerify,
       RollbackNote, RollbackUnlink, RollbackUnlinked, RolledBack, AddBegin, Select, Copy,
       Link, Linked, Compare, AddReceipt, Remove, Kill, BackupBegin, BackupEnd, Refuse,
       Fail, Raise, Exchanging, RollingBack
<1>2. pc'[q] = pc[q]
  BY DEF IInv, TypeOK, Step, Goto, NextFolder, Begin, Stage, Survey, Record, RecordSynced,
     Mark, Move, Place, Verify, Unstage, Receipt, Unlink, Installed, Recover,
     RollbackReceipt, Quarantine, RollbackPass, PutBack, RollbackVerify, RollbackNote,
     RollbackUnlink, RollbackUnlinked, RolledBack, AddBegin, Select, Copy, Link, Linked,
     Compare, AddReceipt, Remove, Kill, BackupBegin, BackupEnd, Refuse, Fail, Raise
<1> QED BY <1>1, <1>2

\* A step keeps JournalInv when it does for the command that moves.
LEMMA JournalFrame ==
    ASSUME IInv, NEW p \in Process, Step(p),
           pc'[p] \in Recorded => journal' # None,
           pc'[p] \in Unrecorded => journal' = None
    PROVE  JournalInv'
<1>1. \A q \in Process : q # p => pc'[q] \in Done
  BY Alone DEF Free
<1> QED BY <1>1 DEF JournalInv, Recorded, Unrecorded, Digested, Checked, Returned, Exchanging,
     RollingBack, Adding, Done

\* The same of WholeInv, for a step that leaves the journal and moves the
\* snapshot's conversations under a journal only.
LEMMA WholeFrame ==
    ASSUME IInv, WInv, NEW p \in Process, Step(p), journal' = journal,
           pc'[p] \in Digested => pc[p] \in Digested /\ base' = base,
           pc'[p] \in Returned => pc[p] \in Returned /\ live' = live,
           journal = None =>
             \A f \in Folder : "snap" \in live'[f] <=> "snap" \in live[f]
    PROVE  WholeInv'
<1>1. \A q \in Process : q # p => pc'[q] \in Done
  BY Alone DEF Free
<1>2. \A q \in Process : q # p => pc'[q] \notin Digested \cup Returned
  BY <1>1 DEF Recorded, Unrecorded, Digested, Checked, Returned, Exchanging, RollingBack,
     Adding, Done
<1>3. IF journal' = None THEN Whole(live') ELSE Whole(journal')
  BY DEF WInv, WholeInv, Whole
<1>4. pc'[p] \in Digested => Whole(base')
  BY DEF WInv, WholeInv
<1>5. pc'[p] \in Returned => Whole(live')
  BY DEF WInv, WholeInv
<1> QED BY <1>2, <1>3, <1>4, <1>5 DEF WholeInv

\* The same of CheckedInv, for a step that checks nothing itself.
LEMMA CheckedFrame ==
    ASSUME IInv, WInv, NEW p \in Process, Step(p),
           pc'[p] \in Checked => /\ pc[p] \in Checked
                                /\ UNCHANGED <<live, saved, base>>,
           pc'[p] \in {"unlink", "unlinkSync"} => "install" \in receipts'
    PROVE  CheckedInv'
<1>1. \A q \in Process : q # p => pc'[q] \in Done
  BY Alone DEF Free
<1>2. \A q \in Process : q # p => pc'[q] \notin Checked \cup {"unlink", "unlinkSync"}
  BY <1>1 DEF Recorded, Unrecorded, Digested, Checked, Returned, Exchanging, RollingBack,
     Adding, Done
<1>3. pc'[p] \in Checked => /\ \A f \in Folder : Snapshot[f] \subseteq live'[f]
                           /\ Summary(saved)' = base'
  BY DEF WInv, CheckedInv, Summary
<1> QED BY <1>2, <1>3 DEF CheckedInv

\* A command that raises.
LEMMA RaiseWhole ==
    ASSUME IInv, WInv, NEW p \in Process, Step(p), Raise(p),
           receipts' = receipts, journal' = journal
    PROVE  WInv'
<1>1. TypeOK /\ JournalInv /\ WholeInv /\ CheckedInv
  BY DEF IInv, WInv
<1>2. base' = base /\ pc'[p] \in {"failed", "restored", "rbReceipt", "remove"}
  BY <1>1 DEF Raise, Goto, TypeOK
<1>3. pc'[p] = "rbReceipt" => pc[p] \in Digested /\ journal # None
  BY <1>1 DEF Raise, Goto, TypeOK, Digested
<1>4. pc'[p] = "remove" => journal = None
  BY <1>1 DEF Raise, Goto, TypeOK, JournalInv, Unrecorded, Adding
<1>5. \A f \in Folder : "snap" \in live'[f] <=> "snap" \in live[f]
  BY <1>1 DEF Raise, TypeOK
<1>6. JournalInv'
  BY <1>2, <1>3, <1>4, JournalFrame DEF Recorded, Unrecorded, Adding
<1>7. WholeInv'
  BY <1>2, <1>3, <1>5, WholeFrame DEF Recorded, Unrecorded, Digested, Checked, Returned,
     Exchanging, RollingBack, Adding
<1>8. CheckedInv'
  BY <1>2, CheckedFrame DEF Recorded, Unrecorded, Digested, Checked, Returned, Exchanging,
     RollingBack, Adding
<1> QED BY <1>6, <1>7, <1>8 DEF WInv

\* Every step keeps the second invariant, given the first.
LEMMA WholeStep == IInv /\ WInv /\ [Next]_vars => WInv'
<1> SUFFICES ASSUME IInv, WInv, [Next]_vars PROVE WInv'
  OBVIOUS
<1>1. TypeOK /\ JournalInv /\ WholeInv /\ CheckedInv
  BY DEF IInv, WInv
<1>2. ASSUME NEW p \in Process, Begin(p) PROVE WInv'
  <2>1. Step(p)
    BY <1>2 DEF Step
  <2>2. /\ pc'[p] = "stage"
        /\ UNCHANGED <<live, base, journal>>
        /\ journal = None
    BY <1>1, <1>2 DEF Begin, At, Goto, kept, TypeOK
  <2>3. JournalInv'
    BY <2>1, <2>2, JournalFrame DEF JournalInv, Recorded
  <2>4. WholeInv'
    BY <2>1, <2>2, WholeFrame DEF Recorded, Unrecorded, Digested, Checked, Returned,
       RollingBack
  <2>5. CheckedInv'
    BY <2>1, <2>2, CheckedFrame DEF CheckedInv, Recorded, Unrecorded, Digested, Checked,
       Returned, Exchanging
  <2> QED BY <2>3, <2>4, <2>5 DEF WInv
<1>3. ASSUME NEW p \in Process, Stage(p) PROVE WInv'
  <2>1. Step(p)
    BY <1>3 DEF Step
  <2>2. /\ pc[p] = "stage" /\ pc'[p] = "survey"
        /\ UNCHANGED <<live, base, journal, saved, receipts>>
    BY <1>1, <1>3 DEF Stage, At, Goto, TypeOK
  <2>3. JournalInv'
    BY <1>1, <2>1, <2>2, JournalFrame DEF JournalInv, Recorded, Unrecorded
  <2>4. WholeInv'
    BY <2>1, <2>2, WholeFrame DEF Recorded, Unrecorded, Digested, Checked, Returned,
       RollingBack
  <2>5. CheckedInv'
    BY <2>1, <2>2, CheckedFrame DEF CheckedInv, Recorded, Unrecorded, Digested, Checked,
       Returned, Exchanging
  <2> QED BY <2>3, <2>4, <2>5 DEF WInv
<1>4. ASSUME NEW p \in Process, Survey(p) PROVE WInv'
  <2>1. Step(p)
    BY <1>4 DEF Step
  <2>2. /\ pc[p] = "survey" /\ pc'[p] = "record"
        /\ UNCHANGED <<live, journal, saved, receipts>>
        /\ base' = Summary(live)
    BY <1>1, <1>4 DEF Survey, At, Goto, kept, TypeOK
  <2>3. JournalInv'
    BY <1>1, <2>1, <2>2, JournalFrame DEF JournalInv, Recorded, Unrecorded
  <2>4. WholeInv'
    <3>1. journal = None /\ Whole(live)
      BY <1>1, <2>2 DEF JournalInv, WholeInv, Unrecorded
    <3>2. Whole(base')
      BY <1>1, <2>2, <3>1, DigestFacts DEF Whole, Summary, TypeOK
    <3>3. \A q \in Process : q # p => pc'[q] \notin Digested \cup Returned
      BY <2>1, Alone DEF Free, Done, Recorded, Unrecorded, Digested, Checked, Returned,
         Exchanging, RollingBack, Adding
    <3> QED BY <2>2, <3>1, <3>2 DEF WholeInv
  <2>5. CheckedInv'
    BY <2>1, <2>2, CheckedFrame DEF CheckedInv, Recorded, Unrecorded, Digested, Checked,
       Returned, Exchanging
  <2> QED BY <2>3, <2>4, <2>5 DEF WInv
<1>5. ASSUME NEW p \in Process, Record(p) PROVE WInv'
  <2>1. Step(p)
    BY <1>5 DEF Step
  <2>2. /\ pc[p] = "record" /\ pc'[p] = "recordSync"
        /\ UNCHANGED <<live, base, saved, receipts>>
        /\ journal' = base
    BY <1>1, <1>5 DEF Record, At, Goto, kept, TypeOK
  <2>3. JournalInv'
    BY <1>1, <2>1, <2>2, JournalFrame, DigestFacts DEF JournalInv, TypeOK, Unrecorded,
       Adding
  <2>4. WholeInv'
    <3>1. Whole(base) /\ base # None
      BY <1>1, <2>2, DigestFacts DEF WholeInv, TypeOK, Recorded, Unrecorded, Digested,
         Checked, Exchanging
    <3>2. \A q \in Process : q # p => pc'[q] \notin Digested \cup Returned
      BY <2>1, Alone DEF Free, Done, Recorded, Unrecorded, Digested, Checked, Returned,
         Exchanging, RollingBack, Adding
    <3> QED BY <2>2, <3>1, <3>2 DEF WholeInv, Returned
  <2>5. CheckedInv'
    BY <2>1, <2>2, CheckedFrame DEF CheckedInv, Recorded, Unrecorded, Digested, Checked,
       Returned, Exchanging
  <2> QED BY <2>3, <2>4, <2>5 DEF WInv
<1>6. ASSUME NEW p \in Process, RecordSynced(p) PROVE WInv'
  <2>1. Step(p)
    BY <1>6 DEF Step
  <2>2. /\ pc[p] = "recordSync" /\ pc'[p] = "mark"
        /\ UNCHANGED <<live, base, journal, saved, receipts>>
    BY <1>1, <1>6 DEF RecordSynced, At, Goto, kept, TypeOK
  <2>3. JournalInv'
    BY <1>1, <2>1, <2>2, JournalFrame DEF JournalInv, Recorded, Unrecorded, Adding
  <2>4. WholeInv'
    BY <2>1, <2>2, WholeFrame DEF Recorded, Unrecorded, Digested, Checked, Returned,
       Exchanging
  <2>5. CheckedInv'
    BY <2>1, <2>2, CheckedFrame DEF CheckedInv, Recorded, Unrecorded, Digested, Checked,
       Returned, Exchanging
  <2> QED BY <2>3, <2>4, <2>5 DEF WInv
<1>7. ASSUME NEW p \in Process, Mark(p) PROVE WInv'
  <2>1. Step(p)
    BY <1>7 DEF Step
  <2>2. /\ pc[p] = "mark" /\ pc'[p] = "move"
        /\ UNCHANGED <<live, base, journal, saved, receipts>>
    BY <1>1, <1>7 DEF Mark, At, Goto, kept, TypeOK
  <2>3. JournalInv'
    BY <1>1, <2>1, <2>2, JournalFrame DEF JournalInv, Recorded, Unrecorded, Adding
  <2>4. WholeInv'
    BY <2>1, <2>2, WholeFrame DEF Recorded, Unrecorded, Digested, Checked, Returned,
       Exchanging
  <2>5. CheckedInv'
    BY <2>1, <2>2, CheckedFrame DEF CheckedInv, Recorded, Unrecorded, Digested, Checked,
       Returned, Exchanging
  <2> QED BY <2>3, <2>4, <2>5 DEF WInv
<1>8. ASSUME NEW p \in Process, Move(p) PROVE WInv'
  <2>1. Step(p)
    BY <1>8 DEF Step
  <2>2. /\ pc[p] = "move" /\ pc'[p] = "place"
        /\ UNCHANGED <<base, journal, receipts>>
    BY <1>1, <1>8 DEF Move, At, Goto, TypeOK
  <2>3. JournalInv'
    BY <1>1, <2>1, <2>2, JournalFrame DEF JournalInv, Recorded, Unrecorded, Adding
  <2>4. WholeInv'
    <3>1. journal # None
      BY <1>1, <2>2 DEF JournalInv, Recorded
    <3> QED
      BY <2>1, <2>2, <3>1, WholeFrame DEF Recorded, Unrecorded, Digested, Checked, Returned,
         Exchanging
  <2>5. CheckedInv'
    BY <2>1, <2>2, CheckedFrame DEF CheckedInv, Recorded, Unrecorded, Digested, Checked,
       Returned, Exchanging
  <2> QED BY <2>3, <2>4, <2>5 DEF WInv
<1>9. ASSUME NEW p \in Process, Place(p) PROVE WInv'
  <2>1. Step(p)
    BY <1>9 DEF Step
  <2>2. /\ pc[p] = "place" /\ pc'[p] \in {"move", "verify"}
        /\ UNCHANGED <<base, journal, saved, receipts>>
    BY <1>1, <1>9 DEF Place, At, Goto, TypeOK
  <2>3. JournalInv'
    BY <1>1, <2>1, <2>2, JournalFrame DEF JournalInv, Recorded, Unrecorded, Adding
  <2>4. WholeInv'
    <3>1. journal # None
      BY <1>1, <2>2 DEF JournalInv, Recorded
    <3> QED
      BY <2>1, <2>2, <3>1, WholeFrame DEF Recorded, Unrecorded, Digested, Checked, Returned,
         Exchanging
  <2>5. CheckedInv'
    BY <2>1, <2>2, CheckedFrame DEF CheckedInv, Recorded, Unrecorded, Digested, Checked,
       Returned, Exchanging
  <2> QED BY <2>3, <2>4, <2>5 DEF WInv
<1>10. ASSUME NEW p \in Process, Verify(p) PROVE WInv'
  <2>1. Step(p)
    BY <1>10 DEF Step
  <2>2. /\ pc[p] = "verify" /\ pc'[p] = "unstage"
        /\ UNCHANGED <<live, base, journal, saved, receipts>>
        /\ Summary(live) = Snapshot /\ Summary(saved) = base
    BY <1>1, <1>10 DEF Verify, At, Goto, kept, TypeOK, Verified
  <2>3. JournalInv'
    BY <1>1, <2>1, <2>2, JournalFrame DEF JournalInv, Recorded, Unrecorded, Adding
  <2>4. WholeInv'
    BY <2>1, <2>2, WholeFrame DEF Recorded, Unrecorded, Digested, Checked, Returned,
       Exchanging
  <2>5. CheckedInv'
    <3>1. \A q \in Process : q # p => pc'[q] \notin Checked
      BY <2>1, Alone DEF Free, Done, Recorded, Unrecorded, Digested, Checked, Returned,
         Exchanging, RollingBack, Adding
    <3>2. \A f \in Folder : Snapshot[f] \subseteq live[f]
      BY <1>1, <2>2, TreeFacts DEF Summary, TypeOK
    <3> QED BY <2>2, <3>1, <3>2 DEF CheckedInv, Checked
  <2> QED BY <2>3, <2>4, <2>5 DEF WInv
<1>11. ASSUME NEW p \in Process, Unstage(p) PROVE WInv'
  <2>1. Step(p)
    BY <1>11 DEF Step
  <2>2. /\ pc[p] = "unstage" /\ pc'[p] = "receipt"
        /\ UNCHANGED <<live, base, journal, saved, receipts>>
    BY <1>1, <1>11 DEF Unstage, At, Goto, TypeOK
  <2>3. JournalInv'
    BY <1>1, <2>1, <2>2, JournalFrame DEF JournalInv, Recorded, Unrecorded, Adding
  <2>4. WholeInv'
    BY <2>1, <2>2, WholeFrame DEF Recorded, Unrecorded, Digested, Checked, Returned,
       Exchanging
  <2>5. CheckedInv'
    BY <2>1, <2>2, CheckedFrame DEF CheckedInv, Recorded, Unrecorded, Digested, Checked,
       Returned, Exchanging
  <2> QED BY <2>3, <2>4, <2>5 DEF WInv
<1>12. ASSUME NEW p \in Process, Receipt(p) PROVE WInv'
  <2>1. Step(p)
    BY <1>12 DEF Step
  <2>2. /\ pc[p] = "receipt" /\ pc'[p] = "unlink"
        /\ UNCHANGED <<live, base, journal, saved>>
        /\ receipts' = receipts \cup {"install"}
    BY <1>1, <1>12 DEF Receipt, At, Goto, kept, TypeOK
  <2>3. JournalInv'
    BY <1>1, <2>1, <2>2, JournalFrame DEF JournalInv, Recorded, Unrecorded, Adding
  <2>4. WholeInv'
    BY <2>1, <2>2, WholeFrame DEF Recorded, Unrecorded, Digested, Checked, Returned,
       Exchanging
  <2>5. CheckedInv'
    BY <2>1, <2>2, CheckedFrame DEF CheckedInv, Recorded, Unrecorded, Digested, Checked,
       Returned, Exchanging
  <2> QED BY <2>3, <2>4, <2>5 DEF WInv
<1>13. ASSUME NEW p \in Process, Unlink(p) PROVE WInv'
  <2>1. Step(p)
    BY <1>13 DEF Step
  <2>2. /\ pc[p] = "unlink" /\ pc'[p] = "unlinkSync"
        /\ UNCHANGED <<live, base, saved, receipts>>
        /\ journal' = None
    BY <1>1, <1>13 DEF Unlink, At, Goto, kept, TypeOK
  <2>3. JournalInv'
    BY <2>1, <2>2, JournalFrame DEF JournalInv, Recorded
  <2>4. WholeInv'
    <3>1. Whole(live) /\ Whole(base)
      BY <1>1, <2>2, DigestFacts DEF WholeInv, CheckedInv, Whole, Recorded, Unrecorded,
         Digested, Checked, Exchanging
    <3>2. \A q \in Process : q # p => pc'[q] \notin Digested \cup Returned
      BY <2>1, Alone DEF Free, Done, Recorded, Unrecorded, Digested, Checked, Returned,
         Exchanging, RollingBack, Adding
    <3> QED BY <2>2, <3>1 DEF WholeInv
  <2>5. CheckedInv'
    BY <1>1, <2>2 DEF CheckedInv, Recorded, Unrecorded, Digested, Checked, Returned,
       Exchanging, RollingBack, Adding
  <2> QED BY <2>3, <2>4, <2>5 DEF WInv
<1>14. ASSUME NEW p \in Process, Installed(p) PROVE WInv'
  <2>1. Step(p)
    BY <1>14 DEF Step
  <2>2. /\ pc[p] = "unlinkSync" /\ pc'[p] = "installed"
        /\ UNCHANGED <<live, base, journal, saved, receipts>>
    BY <1>1, <1>14 DEF Installed, At, Goto, kept, TypeOK
  <2>3. JournalInv'
    BY <1>1, <2>1, <2>2, JournalFrame DEF JournalInv, Recorded, Unrecorded
  <2>4. WholeInv'
    BY <2>1, <2>2, WholeFrame DEF Recorded, Unrecorded, Digested, Checked, Returned,
       Exchanging
  <2>5. CheckedInv'
    BY <2>1, <2>2, CheckedFrame DEF CheckedInv, Recorded, Unrecorded, Digested, Checked,
       Returned, Exchanging
  <2> QED BY <2>3, <2>4, <2>5 DEF WInv
<1>15. ASSUME NEW p \in Process, Recover(p) PROVE WInv'
  <2>1. Step(p)
    BY <1>15 DEF Step
  <2>2. /\ pc'[p] = "rbReceipt"
        /\ UNCHANGED <<live, journal, saved, receipts>>
        /\ journal # None /\ base' = journal
    BY <1>1, <1>15 DEF Recover, At, Goto, kept, TypeOK
  <2>3. JournalInv'
    BY <2>1, <2>2, JournalFrame DEF JournalInv, Unrecorded, Adding
  <2>4. WholeInv'
    <3>1. \A q \in Process : q # p => pc'[q] \notin Digested \cup Returned
      BY <2>1, Alone DEF Free, Done, Recorded, Unrecorded, Digested, Checked, Returned,
         Exchanging, RollingBack, Adding
    <3> QED BY <1>1, <2>2, <3>1 DEF WholeInv, Returned
  <2>5. CheckedInv'
    BY <2>1, <2>2, CheckedFrame DEF CheckedInv, Recorded, Unrecorded, Digested, Checked,
       Returned, Exchanging
  <2> QED BY <2>3, <2>4, <2>5 DEF WInv
<1>16. ASSUME NEW p \in Process, RollbackReceipt(p) PROVE WInv'
  <2>1. Step(p)
    BY <1>16 DEF Step
  <2>2. /\ pc[p] = "rbReceipt" /\ pc'[p] = "rbFolder"
        /\ UNCHANGED <<live, base, journal, saved>>
    BY <1>1, <1>16 DEF RollbackReceipt, At, Goto, kept, TypeOK
  <2>3. JournalInv'
    BY <1>1, <2>1, <2>2, JournalFrame DEF JournalInv, Recorded, Unrecorded, Adding
  <2>4. WholeInv'
    BY <2>1, <2>2, WholeFrame DEF Recorded, Unrecorded, Digested, Checked, Returned,
       RollingBack
  <2>5. CheckedInv'
    BY <2>1, <2>2, CheckedFrame DEF CheckedInv, Recorded, Unrecorded, Digested, Checked,
       Returned, Exchanging
  <2> QED BY <2>3, <2>4, <2>5 DEF WInv
<1>17. ASSUME NEW p \in Process, Quarantine(p) PROVE WInv'
  <2>1. Step(p)
    BY <1>17 DEF Step
  <2>2. /\ pc[p] = "rbFolder" /\ pc'[p] \in {"rbPut", "rbFolder", "rbVerify"}
        /\ UNCHANGED <<base, journal, saved, receipts>>
    BY <1>1, <1>17 DEF Quarantine, At, Goto, kept, TypeOK, NextFolder
  <2>3. JournalInv'
    BY <1>1, <2>1, <2>2, JournalFrame DEF JournalInv, Recorded, Unrecorded, Adding
  <2>4. WholeInv'
    <3>1. journal # None
      BY <1>1, <2>2 DEF JournalInv, Recorded
    <3> QED
      BY <2>1, <2>2, <3>1, WholeFrame DEF Recorded, Unrecorded, Digested, Checked, Returned,
         RollingBack
  <2>5. CheckedInv'
    BY <2>1, <2>2, CheckedFrame DEF CheckedInv, Recorded, Unrecorded, Digested, Checked,
       Returned, Exchanging
  <2> QED BY <2>3, <2>4, <2>5 DEF WInv
<1>18. ASSUME NEW p \in Process, RollbackPass(p) PROVE WInv'
  <2>1. Step(p)
    BY <1>18 DEF Step
  <2>2. /\ pc[p] = "rbFolder" /\ pc'[p] \in {"rbPut", "rbFolder", "rbVerify"}
        /\ UNCHANGED <<live, base, journal, saved, receipts>>
    BY <1>1, <1>18 DEF RollbackPass, At, Goto, kept, TypeOK, NextFolder
  <2>3. JournalInv'
    BY <1>1, <2>1, <2>2, JournalFrame DEF JournalInv, Recorded, Unrecorded, Adding
  <2>4. WholeInv'
    BY <2>1, <2>2, WholeFrame DEF Recorded, Unrecorded, Digested, Checked, Returned,
       RollingBack
  <2>5. CheckedInv'
    BY <2>1, <2>2, CheckedFrame DEF CheckedInv, Recorded, Unrecorded, Digested, Checked,
       Returned, Exchanging
  <2> QED BY <2>3, <2>4, <2>5 DEF WInv
<1>19. ASSUME NEW p \in Process, PutBack(p) PROVE WInv'
  <2>1. Step(p)
    BY <1>19 DEF Step
  <2>2. /\ pc[p] = "rbPut" /\ pc'[p] \in {"rbFolder", "rbVerify"}
        /\ UNCHANGED <<base, journal, receipts>>
    BY <1>1, <1>19 DEF PutBack, At, Goto, kept, TypeOK, NextFolder
  <2>3. JournalInv'
    BY <1>1, <2>1, <2>2, JournalFrame DEF JournalInv, Recorded, Unrecorded, Adding
  <2>4. WholeInv'
    <3>1. journal # None
      BY <1>1, <2>2 DEF JournalInv, Recorded
    <3> QED
      BY <2>1, <2>2, <3>1, WholeFrame DEF Recorded, Unrecorded, Digested, Checked, Returned,
         RollingBack
  <2>5. CheckedInv'
    BY <2>1, <2>2, CheckedFrame DEF CheckedInv, Recorded, Unrecorded, Digested, Checked,
       Returned, Exchanging
  <2> QED BY <2>3, <2>4, <2>5 DEF WInv
<1>20. ASSUME NEW p \in Process, RollbackVerify(p) PROVE WInv'
  <2>1. Step(p)
    BY <1>20 DEF Step
  <2>2. /\ pc[p] = "rbVerify" /\ pc'[p] = "rbNote"
        /\ UNCHANGED <<live, base, journal, saved, receipts>>
        /\ Summary(live) = base
    BY <1>1, <1>20 DEF RollbackVerify, At, Goto, kept, TypeOK
  <2>3. JournalInv'
    BY <1>1, <2>1, <2>2, JournalFrame DEF JournalInv, Recorded, Unrecorded, Adding
  <2>4. WholeInv'
    <3>1. Whole(base)
      BY <1>1, <2>2 DEF WholeInv, Recorded, Unrecorded, Digested, Checked, RollingBack
    <3>2. Whole(live)
      BY <1>1, <2>2, <3>1, DigestFacts DEF Whole, Summary, TypeOK
    <3>3. \A q \in Process : q # p => pc'[q] \notin Digested \cup Returned
      BY <2>1, Alone DEF Free, Done, Recorded, Unrecorded, Digested, Checked, Returned,
         Exchanging, RollingBack, Adding
    <3> QED BY <1>1, <2>2, <3>1, <3>2 DEF WholeInv
  <2>5. CheckedInv'
    BY <2>1, <2>2, CheckedFrame DEF CheckedInv, Recorded, Unrecorded, Digested, Checked,
       Returned, Exchanging
  <2> QED BY <2>3, <2>4, <2>5 DEF WInv
<1>21. ASSUME NEW p \in Process, RollbackNote(p) PROVE WInv'
  <2>1. Step(p)
    BY <1>21 DEF Step
  <2>2. /\ pc[p] = "rbNote" /\ pc'[p] = "rbUnlink"
        /\ UNCHANGED <<live, base, journal, saved>>
    BY <1>1, <1>21 DEF RollbackNote, At, Goto, kept, TypeOK
  <2>3. JournalInv'
    BY <1>1, <2>1, <2>2, JournalFrame DEF JournalInv, Recorded, Unrecorded, Adding
  <2>4. WholeInv'
    BY <2>1, <2>2, WholeFrame DEF Recorded, Unrecorded, Digested, Checked, Returned,
       RollingBack
  <2>5. CheckedInv'
    BY <2>1, <2>2, CheckedFrame DEF CheckedInv, Recorded, Unrecorded, Digested, Checked,
       Returned, Exchanging
  <2> QED BY <2>3, <2>4, <2>5 DEF WInv
<1>22. ASSUME NEW p \in Process, RollbackUnlink(p) PROVE WInv'
  <2>1. Step(p)
    BY <1>22 DEF Step
  <2>2. /\ pc[p] = "rbUnlink" /\ pc'[p] = "rbUnlinkSync"
        /\ UNCHANGED <<live, base, saved, receipts>>
        /\ journal' = None
    BY <1>1, <1>22 DEF RollbackUnlink, At, Goto, kept, TypeOK
  <2>3. JournalInv'
    BY <2>1, <2>2, JournalFrame DEF JournalInv, Recorded
  <2>4. WholeInv'
    <3>1. Whole(live) /\ Whole(base)
      BY <1>1, <2>2 DEF WholeInv, Whole, Digested, Returned, RollingBack
    <3>2. \A q \in Process : q # p => pc'[q] \notin Digested \cup Returned
      BY <2>1, Alone DEF Free, Done, Recorded, Unrecorded, Digested, Checked, Returned,
         Exchanging, RollingBack, Adding
    <3> QED BY <2>2, <3>1 DEF WholeInv
  <2>5. CheckedInv'
    BY <2>1, <2>2, CheckedFrame DEF CheckedInv, Recorded, Unrecorded, Digested, Checked,
       Returned, Exchanging
  <2> QED BY <2>3, <2>4, <2>5 DEF WInv
<1>23. ASSUME NEW p \in Process, RollbackUnlinked(p) PROVE WInv'
  <2>1. Step(p)
    BY <1>23 DEF Step
  <2>2. /\ pc[p] = "rbUnlinkSync" /\ pc'[p] = "rbUnstage"
        /\ UNCHANGED <<live, base, journal, saved, receipts>>
    BY <1>1, <1>23 DEF RollbackUnlinked, At, Goto, kept, TypeOK
  <2>3. JournalInv'
    BY <1>1, <2>1, <2>2, JournalFrame DEF JournalInv, Recorded, Unrecorded
  <2>4. WholeInv'
    BY <2>1, <2>2, WholeFrame DEF Recorded, Unrecorded, Digested, Checked, Returned,
       RollingBack
  <2>5. CheckedInv'
    BY <2>1, <2>2, CheckedFrame DEF CheckedInv, Recorded, Unrecorded, Digested, Checked,
       Returned, Exchanging
  <2> QED BY <2>3, <2>4, <2>5 DEF WInv
<1>24. ASSUME NEW p \in Process, RolledBack(p) PROVE WInv'
  <2>1. Step(p)
    BY <1>24 DEF Step
  <2>2. /\ pc[p] = "rbUnstage" /\ pc'[p] = "restored"
        /\ UNCHANGED <<live, base, journal, saved, receipts>>
    BY <1>1, <1>24 DEF RolledBack, At, Goto, TypeOK
  <2>3. JournalInv'
    BY <1>1, <2>1, <2>2, JournalFrame DEF JournalInv, Recorded, Unrecorded
  <2>4. WholeInv'
    BY <2>1, <2>2, WholeFrame DEF Recorded, Unrecorded, Digested, Checked, Returned,
       RollingBack
  <2>5. CheckedInv'
    BY <2>1, <2>2, CheckedFrame DEF CheckedInv, Recorded, Unrecorded, Digested, Checked,
       Returned, Exchanging
  <2> QED BY <2>3, <2>4, <2>5 DEF WInv
<1>25. ASSUME NEW p \in Process, AddBegin(p) PROVE WInv'
  <2>1. Step(p)
    BY <1>25 DEF Step
  <2>2. /\ pc'[p] = "select"
        /\ UNCHANGED <<live, base, journal, saved>>
        /\ journal = None
    BY <1>1, <1>25 DEF AddBegin, At, Goto, kept, TypeOK
  <2>3. JournalInv'
    BY <2>1, <2>2, JournalFrame DEF JournalInv, Recorded
  <2>4. WholeInv'
    BY <2>1, <2>2, WholeFrame DEF Recorded, Unrecorded, Digested, Checked, Returned,
       Exchanging, RollingBack, Adding
  <2>5. CheckedInv'
    BY <2>1, <2>2, CheckedFrame DEF CheckedInv, Recorded, Unrecorded, Digested, Checked,
       Returned, Exchanging
  <2> QED BY <2>3, <2>4, <2>5 DEF WInv
<1>26. ASSUME NEW p \in Process, Select(p) PROVE WInv'
  <2>1. Step(p)
    BY <1>26 DEF Step
  <2>2. /\ pc[p] = "select" /\ pc'[p] \in {"added", "copy"}
        /\ UNCHANGED <<journal, saved, receipts>>
        /\ \A f \in Folder : "snap" \in live'[f] <=> "snap" \in live[f]
    <3>1. live[1] \in Trees /\ 1 \in Folder
      BY <1>1, StateFacts DEF TypeOK
    <3>2. live' = live \/ live' = [live EXCEPT ![1] = Held(@)]
      BY <1>26 DEF Select
    <3>3. \A f \in Folder : "snap" \in live'[f] <=> "snap" \in live[f]
      BY <1>1, <3>2, DigestFacts DEF TypeOK
    <3> QED BY <1>1, <1>26, <3>3 DEF Select, At, Goto, kept, TypeOK
  <2>3. JournalInv'
    BY <1>1, <2>1, <2>2, JournalFrame DEF JournalInv, Recorded, Unrecorded, Adding
  <2>4. WholeInv'
    BY <2>1, <2>2, WholeFrame DEF Recorded, Unrecorded, Digested, Checked, Returned,
       Exchanging, RollingBack, Adding
  <2>5. CheckedInv'
    BY <2>1, <2>2, CheckedFrame DEF CheckedInv, Recorded, Unrecorded, Digested, Checked,
       Returned, Exchanging
  <2> QED BY <2>3, <2>4, <2>5 DEF WInv
<1>27. ASSUME NEW p \in Process, Copy(p) PROVE WInv'
  <2>1. Step(p)
    BY <1>27 DEF Step
  <2>2. /\ pc[p] = "copy" /\ pc'[p] = "link"
        /\ UNCHANGED <<base, journal, saved, receipts>>
        /\ \A f \in Folder : "snap" \in live'[f] <=> "snap" \in live[f]
    BY <1>1, <1>27 DEF Copy, At, Goto, kept, TypeOK
  <2>3. JournalInv'
    BY <1>1, <2>1, <2>2, JournalFrame DEF JournalInv, Recorded, Unrecorded, Adding
  <2>4. WholeInv'
    BY <2>1, <2>2, WholeFrame DEF Recorded, Unrecorded, Digested, Checked, Returned,
       Exchanging, RollingBack, Adding
  <2>5. CheckedInv'
    BY <2>1, <2>2, CheckedFrame DEF CheckedInv, Recorded, Unrecorded, Digested, Checked,
       Returned, Exchanging
  <2> QED BY <2>3, <2>4, <2>5 DEF WInv
<1>28. ASSUME NEW p \in Process, Link(p) PROVE WInv'
  <2>1. Step(p)
    BY <1>28 DEF Step
  <2>2. /\ pc[p] = "link" /\ pc'[p] = "linked"
        /\ UNCHANGED <<base, journal, saved, receipts>>
        /\ \A f \in Folder : "snap" \in live'[f] <=> "snap" \in live[f]
    BY <1>1, <1>28 DEF Link, At, Goto, kept, TypeOK
  <2>3. JournalInv'
    BY <1>1, <2>1, <2>2, JournalFrame DEF JournalInv, Recorded, Unrecorded, Adding
  <2>4. WholeInv'
    BY <2>1, <2>2, WholeFrame DEF Recorded, Unrecorded, Digested, Checked, Returned,
       Exchanging, RollingBack, Adding
  <2>5. CheckedInv'
    BY <2>1, <2>2, CheckedFrame DEF CheckedInv, Recorded, Unrecorded, Digested, Checked,
       Returned, Exchanging
  <2> QED BY <2>3, <2>4, <2>5 DEF WInv
<1>29. ASSUME NEW p \in Process, Linked(p) PROVE WInv'
  <2>1. Step(p)
    BY <1>29 DEF Step
  <2>2. /\ pc[p] = "linked" /\ pc'[p] = "compare"
        /\ UNCHANGED <<base, journal, saved, receipts>>
        /\ \A f \in Folder : "snap" \in live'[f] <=> "snap" \in live[f]
    BY <1>1, <1>29 DEF Linked, At, Goto, kept, rest, TypeOK
  <2>3. JournalInv'
    BY <1>1, <2>1, <2>2, JournalFrame DEF JournalInv, Recorded, Unrecorded, Adding
  <2>4. WholeInv'
    BY <2>1, <2>2, WholeFrame DEF Recorded, Unrecorded, Digested, Checked, Returned,
       Exchanging, RollingBack, Adding
  <2>5. CheckedInv'
    BY <2>1, <2>2, CheckedFrame DEF CheckedInv, Recorded, Unrecorded, Digested, Checked,
       Returned, Exchanging
  <2> QED BY <2>3, <2>4, <2>5 DEF WInv
<1>30. ASSUME NEW p \in Process, Compare(p) PROVE WInv'
  <2>1. Step(p)
    BY <1>30 DEF Step
  <2>2. /\ pc[p] = "compare" /\ pc'[p] = "addReceipt"
        /\ UNCHANGED <<live, base, journal, saved, receipts>>
    BY <1>1, <1>30 DEF Compare, At, Goto, kept, TypeOK
  <2>3. JournalInv'
    BY <1>1, <2>1, <2>2, JournalFrame DEF JournalInv, Recorded, Unrecorded, Adding
  <2>4. WholeInv'
    BY <2>1, <2>2, WholeFrame DEF Recorded, Unrecorded, Digested, Checked, Returned,
       Exchanging, RollingBack, Adding
  <2>5. CheckedInv'
    BY <2>1, <2>2, CheckedFrame DEF CheckedInv, Recorded, Unrecorded, Digested, Checked,
       Returned, Exchanging
  <2> QED BY <2>3, <2>4, <2>5 DEF WInv
<1>31. ASSUME NEW p \in Process, AddReceipt(p) PROVE WInv'
  <2>1. Step(p)
    BY <1>31 DEF Step
  <2>2. /\ pc[p] = "addReceipt" /\ pc'[p] = "added"
        /\ UNCHANGED <<live, base, journal, saved>>
    BY <1>1, <1>31 DEF AddReceipt, At, Goto, kept, TypeOK
  <2>3. JournalInv'
    BY <2>1, <2>2, JournalFrame DEF JournalInv, Recorded, Unrecorded, Adding
  <2>4. WholeInv'
    BY <2>1, <2>2, WholeFrame DEF Recorded, Unrecorded, Digested, Checked, Returned,
       Exchanging, RollingBack, Adding
  <2>5. CheckedInv'
    BY <2>1, <2>2, CheckedFrame DEF CheckedInv, Recorded, Unrecorded, Digested, Checked,
       Returned, Exchanging
  <2> QED BY <2>3, <2>4, <2>5 DEF WInv
<1>32. ASSUME NEW p \in Process, Remove(p) PROVE WInv'
  <2>1. Step(p)
    BY <1>32 DEF Step
  <2>2. /\ pc[p] = "remove" /\ pc'[p] \in {"failed", "unadded"}
        /\ UNCHANGED <<base, journal, saved>>
        /\ \A f \in Folder : "snap" \in live'[f] <=> "snap" \in live[f]
    BY <1>1, <1>32 DEF Remove, At, Goto, kept, rest, TypeOK
  <2>3. JournalInv'
    BY <2>1, <2>2, JournalFrame DEF JournalInv, Recorded, Unrecorded, Adding
  <2>4. WholeInv'
    BY <2>1, <2>2, WholeFrame DEF Recorded, Unrecorded, Digested, Checked, Returned,
       Exchanging, RollingBack, Adding
  <2>5. CheckedInv'
    BY <2>1, <2>2, CheckedFrame DEF CheckedInv, Recorded, Unrecorded, Digested, Checked,
       Returned, Exchanging
  <2> QED BY <2>3, <2>4, <2>5 DEF WInv
<1>33. ASSUME NEW p \in Process, Refuse(p) PROVE WInv'
  BY <1>33, RaiseWhole DEF Refuse, Step
<1>34. ASSUME NEW p \in Process, Fail(p) PROVE WInv'
  BY <1>34, RaiseWhole DEF Fail, Step
<1>35. ASSUME NEW p \in Process, Kill(p) PROVE WInv'
  <2>1. Step(p)
    BY <1>35 DEF Step
  <2>2. /\ pc'[p] = "idle"
        /\ UNCHANGED <<live, base, journal, saved, receipts>>
    BY <1>1, <1>35 DEF Kill, At, Goto, kept, TypeOK
  <2>3. JournalInv'
    BY <2>1, <2>2, JournalFrame DEF JournalInv, Recorded, Unrecorded, Adding
  <2>4. WholeInv'
    BY <2>1, <2>2, WholeFrame DEF Recorded, Unrecorded, Digested, Checked, Returned,
       Exchanging, RollingBack, Adding
  <2>5. CheckedInv'
    BY <2>1, <2>2, CheckedFrame DEF CheckedInv, Recorded, Unrecorded, Digested, Checked,
       Returned, Exchanging
  <2> QED BY <2>3, <2>4, <2>5 DEF WInv
<1>36. ASSUME NEW p \in Process, BackupBegin(p) PROVE WInv'
  <2>1. Step(p)
    BY <1>36 DEF Step
  <2>2. /\ pc'[p] = "reading"
        /\ UNCHANGED <<live, base, journal, saved, receipts>>
    BY <1>1, <1>36 DEF BackupBegin, At, Goto, kept, TypeOK
  <2>3. JournalInv'
    BY <2>1, <2>2, JournalFrame DEF JournalInv, Recorded, Unrecorded, Adding
  <2>4. WholeInv'
    BY <2>1, <2>2, WholeFrame DEF Recorded, Unrecorded, Digested, Checked, Returned,
       Exchanging, RollingBack, Adding
  <2>5. CheckedInv'
    BY <2>1, <2>2, CheckedFrame DEF CheckedInv, Recorded, Unrecorded, Digested, Checked,
       Returned, Exchanging
  <2> QED BY <2>3, <2>4, <2>5 DEF WInv
<1>37. ASSUME NEW p \in Process, BackupEnd(p) PROVE WInv'
  <2>1. Step(p)
    BY <1>37 DEF Step
  <2>2. /\ pc'[p] = "idle"
        /\ UNCHANGED <<live, base, journal, saved, receipts>>
    BY <1>1, <1>37 DEF BackupEnd, Goto, kept, TypeOK
  <2>3. JournalInv'
    BY <2>1, <2>2, JournalFrame DEF JournalInv, Recorded, Unrecorded, Adding
  <2>4. WholeInv'
    BY <2>1, <2>2, WholeFrame DEF Recorded, Unrecorded, Digested, Checked, Returned,
       Exchanging, RollingBack, Adding
  <2>5. CheckedInv'
    BY <2>1, <2>2, CheckedFrame DEF CheckedInv, Recorded, Unrecorded, Digested, Checked,
       Returned, Exchanging
  <2> QED BY <2>3, <2>4, <2>5 DEF WInv
<1>38. CASE Toggle
  BY <1>38 DEF Toggle, kept, WInv, JournalInv, WholeInv, CheckedInv
<1>39. ASSUME NEW f \in Folder, Write(f) PROVE WInv'
  <2>1. /\ UNCHANGED <<pc, base, journal, saved, receipts>>
        /\ \A g \in Folder : /\ "snap" \in live'[g] <=> "snap" \in live[g]
                            /\ Held(live[g]) \subseteq live'[g]
    BY <1>1, <1>39, TreeFacts, DigestFacts DEF Write, TypeOK, kept
  <2>2. JournalInv'
    BY <1>1, <2>1 DEF JournalInv
  <2>3. WholeInv'
    BY <1>1, <2>1 DEF WholeInv, Whole
  <2>4. \A g \in Folder : Snapshot[g] \subseteq live[g] => Snapshot[g] \subseteq live'[g]
    BY <1>1, <2>1, DigestFacts DEF TypeOK
  <2>5. CheckedInv'
    BY <1>1, <2>1, <2>4 DEF CheckedInv
  <2> QED BY <2>2, <2>3, <2>5 DEF WInv
<1>40. CASE UNCHANGED vars
  BY <1>40 DEF vars, WInv, JournalInv, WholeInv, CheckedInv
<1> QED BY <1>2, <1>3, <1>4, <1>5, <1>6, <1>7, <1>8, <1>9, <1>10, <1>11, <1>12, <1>13, <1>14,
     <1>15, <1>16, <1>17, <1>18, <1>19, <1>20, <1>21, <1>22, <1>23, <1>24, <1>25, <1>26,
     <1>27, <1>28, <1>29, <1>30, <1>31, <1>32, <1>33, <1>34, <1>35, <1>36, <1>37, <1>38,
     <1>39, <1>40 DEF Next

\* The initial states have it.
LEMMA InitWInv == Init => WInv
<1> SUFFICES ASSUME Init PROVE WInv
  OBVIOUS
<1>1. \A p \in Process : pc[p] \notin Recorded \cup Unrecorded \cup Digested \cup Checked
                                   \cup Returned
  BY DEF Init, Recorded, Unrecorded, Digested, Checked, Returned, Exchanging, RollingBack,
     Adding
<1>2. Whole(live)
  BY DigestFacts DEF Init, Whole
<1> QED BY <1>1, <1>2 DEF Init, WInv, JournalInv, WholeInv, CheckedInv

\* What has been verified stays so, but for what Codex adds.
LEMMA BackStep == IInv /\ BackInv /\ [Next]_vars => BackInv'
<1> SUFFICES ASSUME IInv, BackInv, [Next]_vars PROVE BackInv'
  OBVIOUS
<1>1. TypeOK
  BY DEF IInv
<1>2. ASSUME NEW p \in Process, Step(p) PROVE BackInv'
  <2>1. \A q \in Process : q # p => pc'[q] \notin Restored \cup {"addReceipt"}
    BY <1>2, Alone DEF Free, Done, Restored, Returned
  <2>2. CASE RollbackVerify(p)
    <3>1. /\ pc'[p] = "rbNote" /\ Summary(live) = base
          /\ UNCHANGED <<live, base, written>>
      BY <1>1, <2>2 DEF RollbackVerify, At, Goto, kept, rest, TypeOK
    <3>2. \A f \in Folder : base[f] \subseteq live[f] /\ Held(live[f]) = base[f]
      BY <3>1 DEF Summary, Held
    <3> QED BY <2>1, <3>1, <3>2 DEF BackInv, HistoryIsBack, At, Held
  <2>3. CASE RollbackNote(p) \/ RollbackUnlink(p) \/ RollbackUnlinked(p)
    <3>1. /\ pc[p] \in Restored /\ pc'[p] # "addReceipt"
          /\ UNCHANGED <<live, base, written>>
      BY <1>1, <2>3 DEF RollbackNote, RollbackUnlink, RollbackUnlinked, At, Goto, kept,
         rest, TypeOK, Restored, Returned
    <3> QED BY <2>1, <3>1 DEF BackInv, HistoryIsBack, At, Held
  <2>4. CASE Compare(p)
    <3>1. /\ pc'[p] = "addReceipt" /\ Summary(live) = [base EXCEPT ![1] = @ \cup {"pick"}]
          /\ UNCHANGED <<live, base>>
      BY <1>1, <2>4 DEF Compare, At, Goto, kept, TypeOK
    <3>2. /\ "pick" \in live[1]
          /\ \A f \in Folder : base[f] \subseteq live[f]
      BY <1>1, <3>1, StateFacts DEF Summary, Held, TypeOK
    <3> QED BY <2>1, <3>1, <3>2 DEF BackInv, At, Restored, Returned
  <2>5. CASE ~(RollbackVerify(p) \/ RollbackNote(p) \/ RollbackUnlink(p)
                 \/ RollbackUnlinked(p) \/ Compare(p))
    <3>1. pc'[p] \notin Restored \cup {"addReceipt"}
      BY <1>1, <1>2, <2>5 DEF Step, Goto, NextFolder, TypeOK, Begin, Stage, Survey, Record,
         RecordSynced, Mark, Move, Place, Verify, Unstage, Receipt, Unlink, Installed,
         Recover, RollbackReceipt, Quarantine, RollbackPass, PutBack, RolledBack, AddBegin,
         Select, Copy, Link, Linked, AddReceipt, Remove, Refuse, Fail, Kill, BackupBegin,
         BackupEnd, Raise, Restored, Returned
    <3> QED BY <2>1, <3>1 DEF BackInv, At
  <2> QED BY <2>2, <2>3, <2>4, <2>5
<1>3. CASE Toggle
  BY <1>3 DEF Toggle, kept, BackInv, HistoryIsBack, At, Held
<1>4. ASSUME NEW f \in Folder, Write(f) PROVE BackInv'
  <2>1. UNCHANGED <<pc, base>>
    BY <1>4 DEF Write
  <2>2. PICK c \in {"note", "fork"} :
          /\ live' = [live EXCEPT ![f] = Held(@) \cup {c}]
          /\ written' = [written EXCEPT ![f] = @ \cup {c}]
    BY <1>4 DEF Write
  <2>3. \A g \in Folder : /\ Held(live[g]) \subseteq live'[g]
                          /\ Held(live'[g]) \subseteq Held(live[g]) \cup written'[g]
                          /\ written[g] \subseteq written'[g]
    BY <1>1, <2>2, TreeFacts DEF TypeOK, Held
  <2>4. \A g \in Folder : base[g] \subseteq live[g] => base[g] \subseteq live'[g]
    <3>1. \A g \in Folder : base[g] \subseteq live[g] => base[g] \subseteq Held(live[g])
      BY <1>1 DEF TypeOK, Held, Missing, Conversation
    <3> QED BY <2>3, <3>1
  <2>5. "pick" \in live[1] => "pick" \in live'[1]
    BY <2>3, StateFacts, <1>1 DEF Held, Missing
  <2>6. HistoryIsBack => HistoryIsBack'
    BY <2>1, <2>3, <2>4 DEF HistoryIsBack
  <2> QED BY <2>1, <2>4, <2>5, <2>6 DEF BackInv, At
<1>5. CASE UNCHANGED vars
  BY <1>5 DEF vars, BackInv, HistoryIsBack, At, Held
<1> QED BY <1>2, <1>3, <1>4, <1>5 DEF Next, Step

\* The initial states have it.
LEMMA InitBackInv == Init => BackInv
BY DEF Init, BackInv, At, Restored, Returned

\* The invariants hold in every reachable state.
LEMMA AllHold == Spec => [](IInv /\ WInv /\ BackInv)
<1>1. Init => IInv /\ WInv /\ BackInv
  BY InitIInv, InitWInv, InitBackInv
<1>2. IInv /\ WInv /\ BackInv /\ [Next]_vars => (IInv /\ WInv /\ BackInv)'
  BY Inductive, WholeStep, BackStep
<1> QED BY <1>1, <1>2, PTL DEF Spec

\* Without its crash journal on the disk the live history is never half
\* exchanged: all folders are the old ones or all are the new ones, also after
\* a kill between any two renames or a failed rollback.
THEOREM UnjournalledHistoryIsWhole == Spec => []UnjournalledIsWhole
<1>1. WInv => UnjournalledIsWhole
  BY DEF WInv, WholeInv, Whole, UnjournalledIsWhole
<1> QED BY <1>1, AllHold, PTL

\* What a step answers, it answers truly.
LEMMA AnswerStep ==
    ASSUME IInv, WInv, BackInv, [Next]_vars, NEW p \in Process, pc'[p] # pc[p]
    PROVE  AnswerIsTrue(p)
<1>1. TypeOK /\ JournalInv /\ CheckedInv
  BY DEF IInv, WInv
<1>2. PICK q \in Process : Step(q)
  BY DEF Next, Step, Toggle, Write, vars
<1>3. p = q
  BY <1>2, Alone
<1>4. CASE Installed(p)
  BY <1>1, <1>4 DEF Installed, At, Goto, kept, AnswerIsTrue, SnapshotIsIn, JournalInv,
     CheckedInv, Unrecorded, Checked, Summary, Held, TypeOK
<1>5. CASE RolledBack(p)
  <2>1. /\ pc[p] = "rbUnstage" /\ pc'[p] = "restored"
        /\ UNCHANGED <<live, base, journal, written>>
    BY <1>1, <1>5 DEF RolledBack, At, Goto, rest, TypeOK
  <2>2. journal = None /\ HistoryIsBack
    BY <1>1, <2>1 DEF JournalInv, BackInv, Unrecorded, Restored
  <2> QED BY <2>1, <2>2 DEF AnswerIsTrue, HistoryIsBack, At, Held
<1>6. CASE Refuse(p) \/ Fail(p)
  <2>1. /\ pc'[p] \in {"failed", "restored", "rbReceipt", "remove"}
        /\ UNCHANGED <<journal, receipts>>
        /\ pc'[p] = "restored" =>
             /\ pc[p] \in Exchanging \ {"stage", "survey", "record", "recordSync"}
             /\ journal = None /\ UNCHANGED <<live, base, saved>>
    BY <1>1, <1>6 DEF Refuse, Fail, Raise, Goto, kept, TypeOK
  <2>2. pc'[p] = "restored" => At(p, "unlinkSync")
    BY <1>1, <2>1 DEF JournalInv, Recorded, Exchanging, At
  <2>3. At(p, "unlinkSync") => SnapshotIsIn
    BY <1>1 DEF CheckedInv, Checked, SnapshotIsIn, At
  <2> QED BY <2>1, <2>2, <2>3 DEF AnswerIsTrue, SnapshotIsIn, Summary, Held
<1>7. CASE Select(p)
  <2>1. /\ pc'[p] \in {"added", "copy"} /\ base' = Summary(live)
        /\ pc'[p] = "added" => "pick" \in live[1] /\ live' = live
    BY <1>1, <1>7 DEF Select, Goto, TypeOK
  <2> QED BY <2>1 DEF AnswerIsTrue, Summary, Held
<1>8. CASE AddReceipt(p)
  <2>1. /\ pc[p] = "addReceipt" /\ pc'[p] = "added"
        /\ UNCHANGED <<live, base>>
    BY <1>1, <1>8 DEF AddReceipt, At, Goto, kept, TypeOK
  <2> QED BY <2>1 DEF BackInv, AnswerIsTrue, At
<1>9. CASE Remove(p)
  BY <1>1, <1>9 DEF Remove, At, Goto, AnswerIsTrue, TypeOK
<1>10. CASE ~(Installed(p) \/ RolledBack(p) \/ Refuse(p) \/ Fail(p) \/ Select(p)
                \/ AddReceipt(p) \/ Remove(p))
  <2>1. pc'[p] \notin {"installed", "restored", "added", "unadded"}
    BY <1>1, <1>2, <1>3, <1>10 DEF Step, Goto, NextFolder, TypeOK, Begin, Stage, Survey,
       Record, RecordSynced, Mark, Move, Place, Verify, Unstage, Receipt, Unlink, Recover,
       RollbackReceipt, Quarantine, RollbackPass, PutBack, RollbackVerify, RollbackNote,
       RollbackUnlink, RollbackUnlinked, AddBegin, Copy, Link, Linked, Compare, Kill,
       BackupBegin, BackupEnd
  <2> QED BY <2>1 DEF AnswerIsTrue
<1> QED BY <1>4, <1>5, <1>6, <1>7, <1>8, <1>9, <1>10

\* A command answers truly, for every number of folders, processes and faults:
\* "installed" leaves no journal, its receipt, the snapshot live and the
\* displaced history as it was digested; "restored" leaves no journal and the
\* digested history live, with nothing but Codex's own additions, unless all
\* that failed was the flush after the journal's removal, when the snapshot is
\* whole in its place; "added" leaves the conversation beside all that was;
\* "removed and verified" leaves the history it found.
THEOREM CommandsAnswerTruly == Spec => AnswersAreTrue
<1>1. IInv /\ WInv /\ BackInv /\ [Next]_vars =>
        [\A p \in Process : pc'[p] # pc[p] => AnswerIsTrue(p)]_vars
  BY AnswerStep
<1> QED BY <1>1, AllHold, PTL DEF Spec, AnswersAreTrue
=============================================================================
