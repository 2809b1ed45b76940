------------------------ MODULE VaultScheduleProofs ------------------------
(***************************************************************************)
(* What the scheduled backup promises, for any history, folders, callers,  *)
(* devices and bounds: a receipt is for a snapshot that its folder has, a  *)
(* check put off for an update is due until it has run, every published    *)
(* snapshot is of one moment, no loss it shows or inherits goes unmarked,  *)
(* and this Mac keeps a device it can sign in with.                        *)
(*                                                                         *)
(* The proof is in three parts, each one an inductive invariant.           *)
(*                                                                         *)
(* BackupInv of VaultBackup: a copy may only differ from its file if the   *)
(* file was touched since it was scanned (CaptureInv); the last look       *)
(* refuses touched files, so a sealed manifest is of the moment of the     *)
(* second listing.  A warning is kept because the manifest it is compared  *)
(* with is the one before it in its line, and flagged its own losses       *)
(* (SealedInv): what is lost since an earlier version was lost by then, or *)
(* is lost now.                                                            *)
(*                                                                         *)
(* RotationInv of DeviceRotation: the service only ever accepts the request *)
(* the journal holds, because every other request under way names a device *)
(* that is used already (ServiceInv); so without a journal the accepted    *)
(* device does not change, and with one it is one of the journal's two     *)
(* (HandoffInv).                                                           *)
(*                                                                         *)
(* ScheduleInv of VaultSchedule: the scheduled process knows how far its   *)
(* run has published (ProgressInv), copies of the configuration that are of *)
(* one setup agree (ConfigInv), so the folder of a receipt is that of the  *)
(* setup it is of (ReceiptsInv), and a guard that stands keeps scheduled   *)
(* processes away, and a check put off has a status that is due (GuardInv).*)
(*                                                                         *)
(* Every step of the schedule is a step of the backup or leaves it alone,  *)
(* and a step of the rotation or leaves it alone: VaultSchedule implements *)
(* both, and inherits what they promise.                                   *)
(***************************************************************************)
EXTENDS VaultSchedule, SequenceTheorems, TLAPS

-----------------------------------------------------------------------------
\* A backup: every published snapshot is of one moment.

LEMMA FileFacts ==
    /\ File = Transcript \cup Paginated
    /\ Transcript \cap Paginated = {}
    /\ Nothing \in Lengths
    /\ \A h \in Lengths : Present(h) \subseteq File
<1>1. Transcript \cap Paginated = {}
  BY DEF Transcript, Paginated
<1>2. 0 \in 0..MaxLen
  BY BackupAssumption
<1> QED BY <1>1, <1>2 DEF File, Nothing, Lengths, Present

\* The record of a run that does not exist.
LEMMA NoRunType ==
    /\ NoRun \in [by : Callers \cup {NoOne}, vault : Vaults, phase : Phases,
                  listed : SUBSET Transcript, todo : SUBSET Transcript,
                  dirty : SUBSET Transcript, tries : 0..(Tries - 1), hasdb : BOOLEAN,
                  prev : 0..MaxSnapshots, seen : Lengths, kept : Lengths,
                  moment : Lengths]
    /\ NoRun.by = NoOne /\ NoRun.phase = "idle" /\ NoRun.listed = {} /\ NoRun.todo = {}
    /\ NoRun.prev = 0 /\ NoRun.seen = Nothing /\ NoRun.kept = Nothing
<1>1. (CHOOSE v \in Vaults : TRUE) \in Vaults
  BY BackupAssumption
<1>2. "idle" \in Phases /\ 0 \in 0..(Tries - 1) /\ 0 \in 0..MaxSnapshots
  BY BackupAssumption DEF Phases
<1> QED BY <1>1, <1>2, FileFacts DEF NoRun

LEMMA CurrentIsThere == run.todo # {} => Current \in run.todo
BY DEF Current

-----------------------------------------------------------------------------

\* At the start nothing was scanned, stored or published.
LEMMA InitBackup == BackupInit => BackupInv
<1> SUFFICES ASSUME BackupInit PROVE BackupInv
  OBVIOUS
<1>1. BackupTypeOK
  <2>1. snaps \in Seq([vault : Vaults, prev : 0..MaxSnapshots, seen : Lengths,
                       kept : Lengths, risk : SUBSET File, moment : Lengths,
                       line : Seq(1..MaxSnapshots)]) /\ Len(snaps) = 0
    BY DEF BackupInit
  <2>2. vault \in [Vaults -> [made : BOOLEAN, refs : SUBSET (1..MaxSnapshots),
                              latest : 0..MaxSnapshots]]
    BY BackupAssumption DEF BackupInit
  <2> QED BY <2>1, <2>2, NoRunType, BackupAssumption DEF BackupInit, BackupTypeOK
<1>2. SealedInv
  BY NoRunType DEF BackupInit, SealedInv
<1>3. TurnInv
  BY NoRunType DEF BackupInit, TurnInv
<1>4. CaptureInv
  BY NoRunType DEF BackupInit, CaptureInv
<1> QED BY <1>1, <1>2, <1>3, <1>4 DEF BackupInv

-----------------------------------------------------------------------------
\* What was sealed stays as good as it was.
LEMMA SealedStays ==
    ASSUME SealedInv, snaps' = snaps, run'.prev <= Len(snaps),
           \A v \in Vaults : /\ vault'[v].refs \subseteq 1..Len(snaps)
                             /\ vault'[v].latest <= Len(snaps)
    PROVE  SealedInv'
<1>1. \A i \in 1..Len(snaps) : LossIsFlagged(i)'
  <2> SUFFICES ASSUME NEW i \in 1..Len(snaps) PROVE LossIsFlagged(i)'
    OBVIOUS
  <2>1. LossIsFlagged(i)
    BY DEF SealedInv
  <2> QED BY <2>1 DEF LossIsFlagged, Versions, Ancestry
<1> QED BY <1>1 DEF SealedInv

(* Codex. *)

\* Whatever Codex does to the copies in `fs`, they are touched.
LEMMA BecomesInv ==
    ASSUME BackupInv, NEW h \in Lengths, NEW fs \in SUBSET File, Becomes(h, fs),
           \A f \in File \ fs : h[f] = src[f]
    PROVE  BackupInv'
<1> USE DEF Becomes
<1>1. BackupTypeOK'
  BY FileFacts DEF BackupInv, BackupTypeOK
<1>2. /\ run'.by = run.by /\ run'.phase = run.phase /\ run'.todo = run.todo
      /\ run'.listed = run.listed /\ run'.prev = run.prev
      /\ run'.seen = run.seen /\ run'.kept = run.kept /\ run'.moment = run.moment
      /\ run.dirty \subseteq run'.dirty
      /\ run.phase # "idle" => run'.dirty = run.dirty \cup (fs \cap Transcript)
  BY DEF BackupInv, BackupTypeOK
<1>3. SealedInv'
  <2>1. run'.prev <= Len(snaps) /\ vault' = vault /\ snaps' = snaps
    BY <1>2 DEF BackupInv, SealedInv
  <2> QED BY <2>1, SealedStays DEF BackupInv, SealedInv
<1>4. TurnInv'
  BY <1>2 DEF BackupInv, TurnInv
<1>5. Current' = Current
  BY <1>2 DEF Current
<1>6. CaptureInv'
  <2>1. \A f \in Transcript : run.phase # "idle" => f \in run'.dirty \/ src'[f] = src[f]
    BY <1>2, FileFacts
  <2>2. run.phase \in {"store", "settle"} => Current \in Transcript
    BY CurrentIsThere DEF BackupInv, BackupTypeOK, TurnInv
  <2> QED BY <1>2, <1>5, <2>1, <2>2 DEF BackupInv, CaptureInv
<1> QED BY <1>1, <1>3, <1>4, <1>6 DEF BackupInv

LEMMA CodexInv == BackupInv /\ Codex => BackupInv'
<1> SUFFICES ASSUME BackupInv, Codex PROVE BackupInv'
  OBVIOUS
<1>1. src \in [File -> 0..MaxLen]
  BY DEF BackupInv, BackupTypeOK, Lengths
<1>2. ASSUME NEW f \in File, NEW n \in 0..MaxLen, Write(f, n) PROVE BackupInv'
  <2> DEFINE h == [src EXCEPT ![f] = n]
  <2>1. h \in Lengths /\ \A g \in File \ {f} : h[g] = src[g]
    BY <1>1 DEF Lengths
  <2>2. Becomes(h, {f})
    BY <1>2 DEF Write
  <2> HIDE DEF h
  <2> QED BY <2>1, <2>2, BecomesInv
<1>3. ASSUME NEW f \in Transcript, NEW g \in Transcript, Move(f, g) PROVE BackupInv'
  <2> DEFINE h == [src EXCEPT ![f] = 0, ![g] = src[f]]
  <2>1. f \in File /\ g \in File /\ f # g /\ 0 \in 0..MaxLen
    BY <1>3, FileFacts, BackupAssumption DEF Move
  <2>2. h \in Lengths /\ \A e \in File \ {f, g} : h[e] = src[e]
    BY <1>1, <2>1 DEF Lengths
  <2>3. Becomes(h, {f, g})
    BY <1>3 DEF Move
  <2> HIDE DEF h
  <2> QED BY <2>1, <2>2, <2>3, BecomesInv
<1> QED BY <1>2, <1>3 DEF Codex

-----------------------------------------------------------------------------
(* The steps of a run. *)

LEMMA BeginInv ==
    ASSUME BackupInv, NEW c \in Callers, NEW v \in Vaults, Begin(c, v)
    PROVE  BackupInv'
<1>1. /\ run' \in [by : Callers \cup {NoOne}, vault : Vaults, phase : Phases,
                   listed : SUBSET Transcript, todo : SUBSET Transcript,
                   dirty : SUBSET Transcript, tries : 0..(Tries - 1), hasdb : BOOLEAN,
                   prev : 0..MaxSnapshots, seen : Lengths, kept : Lengths,
                   moment : Lengths]
      /\ run'.by = c /\ run'.phase = "begun" /\ run'.listed = {} /\ run'.todo = {}
      /\ run'.prev = 0 /\ run'.seen = Nothing /\ run'.kept = Nothing
      /\ src' = src /\ vault' = vault /\ snaps' = snaps /\ Len(snaps) < MaxSnapshots
  BY NoRunType DEF Begin, Phases
<1>2. BackupTypeOK'
  BY <1>1, BackupAssumption DEF BackupInv, BackupTypeOK
<1>3. SealedInv'
  <2>1. Len(snaps) \in Nat
    BY DEF BackupInv, BackupTypeOK
  <2>2. run'.prev <= Len(snaps)
    BY <1>1, <2>1
  <2> QED BY <1>1, <2>2, SealedStays DEF BackupInv, SealedInv
<1>4. TurnInv'
  BY <1>1 DEF BackupInv, TurnInv
<1>5. CaptureInv'
  BY <1>1 DEF CaptureInv
<1> QED BY <1>2, <1>3, <1>4, <1>5 DEF BackupInv

LEMMA EnumerateInv == BackupInv /\ Enumerate => BackupInv'
<1> SUFFICES ASSUME BackupInv, Enumerate PROVE BackupInv'
  OBVIOUS
<1> USE DEF Enumerate
<1>1. /\ run'.phase = "prepare" /\ run'.listed = Present(src) \cap Transcript
      /\ run'.todo = run.todo /\ run'.prev = run.prev
      /\ run'.seen = run.seen /\ run'.kept = run.kept
  BY DEF BackupInv, BackupTypeOK
<1>2. BackupTypeOK'
  BY DEF BackupInv, BackupTypeOK, Phases
<1>3. SealedInv'
  BY <1>1, SealedStays DEF BackupInv, SealedInv
<1>4. TurnInv'
  BY <1>1 DEF BackupInv, TurnInv
<1>5. CaptureInv'
  BY <1>1 DEF BackupInv, CaptureInv
<1> QED BY <1>2, <1>3, <1>4, <1>5 DEF BackupInv

LEMMA PrepareInv == BackupInv /\ Prepare => BackupInv'
<1> SUFFICES ASSUME BackupInv, Prepare PROVE BackupInv'
  OBVIOUS
<1> USE DEF Prepare
<1>1. /\ run.vault \in Vaults /\ run.listed \subseteq Transcript
      /\ vault[run.vault].latest \in 0..MaxSnapshots
      /\ vault[run.vault].latest <= Len(snaps)
  BY DEF BackupInv, BackupTypeOK, SealedInv
<1>2. /\ run'.phase = "scan" /\ run'.listed = run.listed /\ run'.todo = run.listed
      /\ run'.prev = vault[run.vault].latest /\ run'.dirty = run.dirty
      /\ run'.seen = run.seen /\ run'.kept = run.kept
  BY DEF BackupInv, BackupTypeOK
<1>3. BackupTypeOK'
  <2>1. vault' \in [Vaults -> [made : BOOLEAN, refs : SUBSET (1..MaxSnapshots),
                              latest : 0..MaxSnapshots]]
    <3>1. vault' = [vault EXCEPT ![run.vault].made = TRUE] /\ run.vault \in Vaults
      BY DEF BackupInv, BackupTypeOK
    <3>2. vault \in [Vaults -> [made : BOOLEAN, refs : SUBSET (1..MaxSnapshots),
                                latest : 0..MaxSnapshots]]
      BY DEF BackupInv, BackupTypeOK
    <3> HIDE DEF Prepare
    <3> QED BY <3>1, <3>2
  <2>2. /\ run' \in [by : Callers \cup {NoOne}, vault : Vaults, phase : Phases,
                  listed : SUBSET Transcript, todo : SUBSET Transcript,
                  dirty : SUBSET Transcript, tries : 0..(Tries - 1), hasdb : BOOLEAN,
                  prev : 0..MaxSnapshots, seen : Lengths, kept : Lengths,
                  moment : Lengths]
        /\ run'.by = run.by
    BY <1>1 DEF BackupInv, BackupTypeOK, Phases
  <2> QED BY <1>1, <1>2, <2>1, <2>2 DEF BackupInv, BackupTypeOK
<1>4. SealedInv'
  <2>1. \A v \in Vaults : vault'[v].refs = vault[v].refs /\ vault'[v].latest = vault[v].latest
    BY DEF BackupInv, BackupTypeOK
  <2> QED BY <2>1, <1>1, <1>2, SealedStays DEF BackupInv, SealedInv
<1>5. TurnInv'
  BY <1>2 DEF BackupInv, TurnInv
<1>6. CaptureInv'
  BY <1>2, FileFacts DEF BackupInv, CaptureInv, Nothing
<1> QED BY <1>3, <1>4, <1>5, <1>6 DEF BackupInv

\* The transcript at hand, while there is one.
LEMMA AtHand ==
    ASSUME BackupInv, run.todo # {}
    PROVE  Current \in Transcript /\ Current \in run.todo /\ Current \in File
BY CurrentIsThere, FileFacts DEF BackupInv, BackupTypeOK

LEMMA ScanInv == BackupInv /\ Scan => BackupInv'
<1> SUFFICES ASSUME BackupInv, Scan PROVE BackupInv'
  OBVIOUS
<1> USE DEF Scan
<1>1. Current \in Transcript /\ Current \in run.todo /\ Current \in File
  BY AtHand
<1>2. /\ run'.phase = "store" /\ run'.listed = run.listed /\ run'.todo = run.todo
      /\ run'.prev = run.prev /\ run'.dirty = run.dirty \ {Current}
      /\ run'.seen = [run.seen EXCEPT ![Current] = src[Current]]
      /\ run'.kept = run.kept
  BY DEF BackupInv, BackupTypeOK
<1>3. BackupTypeOK'
  <2>1. run'.seen \in Lengths
    BY <1>1, <1>2 DEF BackupInv, BackupTypeOK, Lengths
  <2> QED BY <2>1, <1>2 DEF BackupInv, BackupTypeOK, Phases
<1>4. SealedInv'
  BY <1>2, SealedStays DEF BackupInv, SealedInv
<1>5. TurnInv'
  BY <1>2 DEF BackupInv, TurnInv
<1>6. CaptureInv'
  <2>1. Current' = Current
    BY <1>2 DEF Current
  <2>2. \A f \in File : run'.seen[f] = IF f = Current THEN src[Current] ELSE run.seen[f]
    BY <1>2 DEF BackupInv, BackupTypeOK, Lengths
  <2> QED BY <1>1, <1>2, <2>1, <2>2 DEF BackupInv, CaptureInv
<1> QED BY <1>3, <1>4, <1>5, <1>6 DEF BackupInv

LEMMA StoreInv == BackupInv /\ Store => BackupInv'
<1> SUFFICES ASSUME BackupInv, Store PROVE BackupInv'
  OBVIOUS
<1> USE DEF Store
<1>1. Current \in Transcript /\ Current \in run.todo /\ Current \in File
  BY AtHand DEF BackupInv, TurnInv
<1>2. /\ run'.phase = "settle" /\ run'.listed = run.listed /\ run'.todo = run.todo
      /\ run'.prev = run.prev /\ run'.dirty = run.dirty
      /\ run'.seen = run.seen
      /\ run'.kept = [run.kept EXCEPT ![Current] = src[Current]]
  BY DEF BackupInv, BackupTypeOK
<1>3. BackupTypeOK'
  <2>1. run'.kept \in Lengths
    BY <1>1, <1>2 DEF BackupInv, BackupTypeOK, Lengths
  <2> QED BY <2>1, <1>2 DEF BackupInv, BackupTypeOK, Phases
<1>4. SealedInv'
  BY <1>2, SealedStays DEF BackupInv, SealedInv
<1>5. TurnInv'
  BY <1>2 DEF BackupInv, TurnInv
<1>6. CaptureInv'
  <2>1. Current' = Current
    BY <1>2 DEF Current
  <2>2. \A f \in File : run'.kept[f] = IF f = Current THEN src[Current] ELSE run.kept[f]
    BY <1>2 DEF BackupInv, BackupTypeOK, Lengths
  <2> QED BY <1>1, <1>2, <2>1, <2>2 DEF BackupInv, CaptureInv
<1> QED BY <1>3, <1>4, <1>5, <1>6 DEF BackupInv

LEMMA SettleInv == BackupInv /\ Settle => BackupInv'
<1> SUFFICES ASSUME BackupInv, Settle PROVE BackupInv'
  OBVIOUS
<1> USE DEF Settle
<1>1. Current \in Transcript /\ Current \in run.todo /\ Current \in File
  BY AtHand DEF BackupInv, TurnInv
<1>2. /\ run'.phase = "scan" /\ run'.listed = run.listed
      /\ run'.todo = run.todo \ {Current}
      /\ run'.prev = run.prev /\ run'.dirty = run.dirty
      /\ run'.seen = run.seen /\ run'.kept = run.kept
  BY DEF BackupInv, BackupTypeOK
<1>3. BackupTypeOK'
  <2>1. 0 \in 0..(Tries - 1)
    BY BackupAssumption DEF BackupInv, BackupTypeOK
  <2> QED BY <1>2, <2>1 DEF BackupInv, BackupTypeOK, Phases
<1>4. SealedInv'
  BY <1>2, SealedStays DEF BackupInv, SealedInv
<1>5. TurnInv'
  BY <1>2 DEF BackupInv, TurnInv
<1>6. CaptureInv'
  <2>1. /\ run.seen[Current] = src[Current] /\ run.kept[Current] = src[Current]
        /\ Current \in run.listed
    BY <1>1 DEF BackupInv, CaptureInv, TurnInv
  <2>2. \A f \in File : f \notin run'.todo => run.seen[f] = run.kept[f]
    BY <1>2, <2>1 DEF BackupInv, CaptureInv
  <2>3. \A f \in Transcript \ run'.todo :
           IF f \in run.listed THEN f \in run.dirty \/ run.kept[f] = src[f]
                               ELSE run.kept[f] = 0
    BY <1>2, <2>1 DEF BackupInv, CaptureInv
  <2> QED BY <1>2, <2>2, <2>3 DEF CaptureInv
<1> QED BY <1>3, <1>4, <1>5, <1>6 DEF BackupInv

LEMMA RetryInv == BackupInv /\ Retry => BackupInv'
<1> SUFFICES ASSUME BackupInv, Retry PROVE BackupInv'
  OBVIOUS
<1> USE DEF Retry
<1>1. /\ run'.phase = "scan" /\ run'.listed = run.listed /\ run'.todo = run.todo
      /\ run'.prev = run.prev /\ run'.dirty = run.dirty
      /\ run'.seen = run.seen /\ run'.kept = run.kept
      /\ run'.tries = run.tries + 1
  BY DEF BackupInv, BackupTypeOK
<1>2. BackupTypeOK'
  <2>1. run.tries + 1 \in 0..(Tries - 1)
    BY BackupAssumption DEF BackupInv, BackupTypeOK
  <2> QED BY <1>1, <2>1 DEF BackupInv, BackupTypeOK, Phases
<1>3. SealedInv'
  BY <1>1, SealedStays DEF BackupInv, SealedInv
<1>4. TurnInv'
  BY <1>1 DEF BackupInv, TurnInv
<1>5. CaptureInv'
  BY <1>1 DEF BackupInv, CaptureInv
<1> QED BY <1>2, <1>3, <1>4, <1>5 DEF BackupInv

LEMMA PaginateInv == BackupInv /\ Paginate => BackupInv'
<1> SUFFICES ASSUME BackupInv, Paginate PROVE BackupInv'
  OBVIOUS
<1> DEFINE read(h) == [f \in File |-> IF f \in Paginated /\ run.hasdb THEN src[f] ELSE h[f]]
<1>1. /\ run'.phase = "list" /\ run'.listed = run.listed /\ run'.todo = run.todo
      /\ run'.prev = run.prev /\ run'.dirty = run.dirty
      /\ run'.seen = read(run.seen) /\ run'.kept = read(run.kept)
      /\ run.phase = "scan" /\ run.todo = {}
      /\ snaps' = snaps /\ vault' = vault /\ src' = src
  BY DEF BackupInv, BackupTypeOK, Paginate
<1>2. BackupTypeOK'
  <2>1. run'.seen \in Lengths /\ run'.kept \in Lengths
    BY <1>1 DEF BackupInv, BackupTypeOK, Lengths
  <2>2. /\ run' \in [by : Callers \cup {NoOne}, vault : Vaults, phase : Phases,
                   listed : SUBSET Transcript, todo : SUBSET Transcript,
                   dirty : SUBSET Transcript, tries : 0..(Tries - 1), hasdb : BOOLEAN,
                   prev : 0..MaxSnapshots, seen : Lengths, kept : Lengths,
                   moment : Lengths]
        /\ run'.by = run.by
    BY <2>1 DEF BackupInv, BackupTypeOK, Phases, Paginate
  <2> QED BY <1>1, <2>2 DEF BackupInv, BackupTypeOK
<1>3. SealedInv'
  BY <1>1, SealedStays DEF BackupInv, SealedInv
<1>4. TurnInv'
  BY <1>1 DEF BackupInv, TurnInv
<1>5. CaptureInv'
  <2>1. \A f \in File : run'.seen[f] = run'.kept[f]
    BY <1>1 DEF BackupInv, CaptureInv
  <2>2. \A f \in Transcript : run'.kept[f] = run.kept[f]
    BY <1>1, FileFacts
  <2> QED BY <1>1, <2>1, <2>2 DEF BackupInv, CaptureInv
<1> QED BY <1>2, <1>3, <1>4, <1>5 DEF BackupInv

LEMMA ListInv == BackupInv /\ List => BackupInv'
<1> SUFFICES ASSUME BackupInv, List PROVE BackupInv'
  OBVIOUS
<1> USE DEF List
<1>1. /\ run'.phase = "recheck" /\ run'.listed = run.listed /\ run'.todo = run.listed
      /\ run'.prev = run.prev /\ run'.dirty = run.dirty
      /\ run'.seen = run.seen /\ run'.kept = run.kept /\ run'.moment = src
  BY DEF BackupInv, BackupTypeOK
<1>2. BackupTypeOK'
  BY <1>1 DEF BackupInv, BackupTypeOK, Phases
<1>3. SealedInv'
  BY <1>1, SealedStays DEF BackupInv, SealedInv
<1>4. TurnInv'
  BY <1>1 DEF BackupInv, TurnInv
<1>5. CaptureInv'
  <2>1. \A f \in File : run.seen[f] = run.kept[f]
    BY DEF BackupInv, CaptureInv, TurnInv
  \* What is not listed is not there.
  <2>2. \A f \in Transcript \ run.listed : src[f] = 0
    BY FileFacts DEF Present, BackupInv, BackupTypeOK, Lengths
  <2>3. \A f \in Transcript : f \in run.listed \cap run.dirty \/ run.kept[f] = src[f]
    BY <2>2 DEF BackupInv, CaptureInv, TurnInv
  <2> QED BY <1>1, <2>1, <2>3 DEF CaptureInv
<1> QED BY <1>2, <1>3, <1>4, <1>5 DEF BackupInv

LEMMA RecheckInv == BackupInv /\ Recheck => BackupInv'
<1> SUFFICES ASSUME BackupInv, Recheck PROVE BackupInv'
  OBVIOUS
<1> USE DEF Recheck
<1>1. /\ run'.phase = "recheck" /\ run'.listed = run.listed
      /\ run'.todo = run.todo \ {Current}
      /\ run'.prev = run.prev /\ run'.dirty = run.dirty
      /\ run'.seen = run.seen /\ run'.kept = run.kept /\ run'.moment = run.moment
  BY DEF BackupInv, BackupTypeOK
<1>2. BackupTypeOK'
  BY <1>1 DEF BackupInv, BackupTypeOK
<1>3. SealedInv'
  BY <1>1, SealedStays DEF BackupInv, SealedInv
<1>4. TurnInv'
  BY <1>1 DEF BackupInv, TurnInv
<1>5. CaptureInv'
  BY <1>1 DEF BackupInv, CaptureInv
<1> QED BY <1>2, <1>3, <1>4, <1>5 DEF BackupInv

-----------------------------------------------------------------------------
(* The loss warning of a manifest that is sealed now. *)

\* In one capture a conversation has at most one verified copy of a kind.
LEMMA OneCopy ==
    ASSUME NEW h \in Lengths, NEW f \in Verified(h), NEW g \in Verified(h), SameGroup(f, g)
    PROVE  f = g
<1>1. f \in File /\ g \in File /\ f[2] = g[2] /\ (f \in Paginated <=> g \in Paginated)
  BY DEF Verified, Present, SameGroup
<1>2. CASE f \in Paginated
  <2>1. g \in Paginated
    BY <1>1, <1>2
  <2>2. f = <<"paginated", f[2]>> /\ g = <<"paginated", g[2]>>
    BY <1>2, <2>1 DEF Paginated
  <2> QED BY <1>1, <2>2
<1>3. CASE f \notin Paginated
  <2>1. f \in Transcript /\ g \in Transcript
    BY <1>1, <1>3, FileFacts
  <2> QED BY <1>1, <2>1 DEF Verified, Conflicting
<1> QED BY <1>2, <1>3

LEMMA SameGroupFacts ==
    ASSUME NEW f, NEW g, NEW h, SameGroup(f, g), SameGroup(f, h)
    PROVE  SameGroup(g, f) /\ SameGroup(g, h)
BY DEF SameGroup

\* The line of the manifest that is sealed is the one of the snapshot before
\* it and that snapshot.
LEMMA LineFacts ==
    ASSUME BackupTypeOK, SealedInv
    PROVE  /\ Line(run.prev) \in Seq(1..Len(snaps))
           /\ run.prev = 0 => Len(Line(run.prev)) = 0
           /\ run.prev # 0 =>
                /\ run.prev \in 1..Len(snaps)
                /\ Line(run.prev) = Append(snaps[run.prev].line, run.prev)
                /\ snaps[run.prev].line \in Seq(1..(run.prev - 1))
<1>1. run.prev \in Nat /\ Len(snaps) \in Nat
  BY DEF BackupTypeOK
<1>2. CASE run.prev = 0
  BY <1>2 DEF Line
<1>3. CASE run.prev # 0
  <2>1. run.prev \in 1..Len(snaps)
    BY <1>1, <1>3 DEF SealedInv
  <2>2. snaps[run.prev].line \in Seq(1..(run.prev - 1))
    BY <2>1 DEF SealedInv
  <2>3. 1..(run.prev - 1) \subseteq 1..Len(snaps)
    BY <1>1, <2>1
  <2>4. snaps[run.prev].line \in Seq(1..Len(snaps))
    BY <2>2, <2>3, SeqMonotonic
  <2> QED BY <1>3, <2>1, <2>2, <2>4 DEF Line
<1> QED BY <1>2, <1>3

\* A version more: what it lost since an earlier one was lost before, and was
\* flagged, or is lost now.
LEMMA WarnedExtends ==
    ASSUME NEW n \in Nat, NEW h, NEW oldRisk, \A b \in 1..(n + 1) : h[b] \in Lengths,
           n # 0 => Warned(h, n, oldRisk)
    PROVE  Warned(h, n + 1, AtRisk(h[n + 1], IF n = 0 THEN Nothing ELSE h[n],
                                   IF n = 0 THEN {} ELSE oldRisk))
<1> DEFINE CopiesAt(b, f) == {g \in Verified(h[b]) : SameGroup(f, g)}
           old  == IF n = 0 THEN Nothing ELSE h[n]
           risk == IF n = 0 THEN {} ELSE oldRisk
<1> SUFFICES ASSUME NEW f \in Verified(h[n + 1]), NEW a \in 1..(n + 1),
                    \A b \in a..(n + 1) : CopiesAt(b, f) # {},
                    NEW g \in CopiesAt(a, f), h[a][g] > h[n + 1][f]
             PROVE  f \in AtRisk(h[n + 1], old, risk)
  BY DEF Warned
<1>1. \A b \in 1..(n + 1) : \A e \in Verified(h[b]) : h[b][e] \in Nat
  BY DEF Verified, Present, Lengths
<1>2. CASE a = n + 1
  <2>1. f = g
    BY <1>2, OneCopy
  <2> QED BY <1>1, <1>2, <2>1
<1>3. CASE a # n + 1
  <2>1. n # 0 /\ n \in a..n /\ n \in a..(n + 1) /\ a \in 1..n /\ n \in 1..(n + 1)
    BY <1>3
  <2>2. PICK e \in Verified(h[n]) : SameGroup(f, e)
    BY <2>1
  <2>3. CASE h[n + 1][f] < h[n][e]
    BY <2>1, <2>2, <2>3 DEF AtRisk
  <2>4. CASE ~(h[n + 1][f] < h[n][e])
    <3>1. h[a][g] > h[n][e]
      BY <1>1, <2>1, <2>2, <2>4
    <3>2. \A b \in a..n : CopiesAt(b, e) # {}
      <4> SUFFICES ASSUME NEW b \in a..n PROVE CopiesAt(b, e) # {}
        OBVIOUS
      <4>1. b \in a..(n + 1)
        BY <2>1
      <4>2. PICK k \in Verified(h[b]) : SameGroup(f, k)
        BY <4>1
      <4> QED BY <2>2, <4>2, SameGroupFacts
    <3>3. g \in CopiesAt(a, e)
      BY <2>2, SameGroupFacts
    <3>4. e \in oldRisk
      BY <2>1, <2>2, <3>1, <3>2, <3>3 DEF Warned
    <3> QED BY <2>1, <2>2, <3>4 DEF AtRisk
  <2> QED BY <2>3, <2>4
<1> QED BY <1>2, <1>3

\* Where a line and its own snapshot lie in what was sealed.
LEMMA AncestryFacts ==
    ASSUME NEW i \in Nat, NEW line \in Seq(1..(i - 1))
    PROVE  /\ Len(line) \in Nat
           /\ Len(Append(line, i)) = Len(line) + 1
           /\ \A b \in 1..Len(line) : Append(line, i)[b] = line[b] /\ line[b] \in 1..(i - 1)
           /\ Append(line, i)[Len(line) + 1] = i
           /\ i # 0 => \A b \in 1..Len(Append(line, i)) : Append(line, i)[b] \in 1..i
<1>1. Len(line) \in Nat
  BY LenProperties
<1>2. Append(line, i) \in Seq(Nat) /\ line \in Seq(Nat)
  BY SeqMonotonic, AppendProperties
<1>3. /\ Len(Append(line, i)) = Len(line) + 1
      /\ Append(line, i)[Len(line) + 1] = i
      /\ \A b \in 1..Len(line) : Append(line, i)[b] = line[b] /\ line[b] \in 1..(i - 1)
  BY <1>1, <1>2, AppendProperties, ElementOfSeq
<1>4. \A b \in 1..(Len(line) + 1) : b \in 1..Len(line) \/ b = Len(line) + 1
  BY <1>1
<1>5. i # 0 => i \in 1..i /\ 1..(i - 1) \subseteq 1..i
  OBVIOUS
<1>6. i # 0 => \A b \in 1..(Len(line) + 1) : Append(line, i)[b] \in 1..i
  BY <1>3, <1>4, <1>5
<1> QED BY <1>1, <1>3, <1>6

\* What was sealed before keeps its warnings when a manifest is added.
LEMMA OldFlagsStay ==
    ASSUME BackupTypeOK, SealedInv, NEW i \in 1..Len(snaps),
           \A j \in 1..Len(snaps) : snaps'[j] = snaps[j]
    PROVE  LossIsFlagged(i)'
<1>1. Len(snaps) \in Nat /\ i \in Nat
  BY DEF BackupTypeOK
<1>2. snaps[i].line \in Seq(1..(i - 1)) /\ LossIsFlagged(i)
  BY DEF SealedInv
<1>3. snaps'[i] = snaps[i] /\ Ancestry(i)' = Ancestry(i)
  BY DEF Ancestry
<1>4. \A b \in 1..Len(Ancestry(i)) : Ancestry(i)[b] \in 1..Len(snaps)
  <2> DEFINE line == snaps[i].line
  <2>1. line \in Seq(1..(i - 1)) /\ i \in Nat /\ i # 0 /\ Ancestry(i) = Append(line, i)
    BY <1>1, <1>2 DEF Ancestry
  <2>2. i <= Len(snaps)
    BY <1>1
  <2> HIDE DEF line
  <2>3. \A b \in 1..Len(Append(line, i)) : Append(line, i)[b] \in 1..i
    BY <2>1, AncestryFacts
  <2> QED BY <1>1, <2>1, <2>2, <2>3
<1>5. Versions(i)' = Versions(i)
  BY <1>3, <1>4 DEF Versions
<1> QED BY <1>2, <1>3, <1>5 DEF LossIsFlagged

LEMMA SameVersions ==
    ASSUME NEW n \in Nat \ {0}, NEW h, NEW k, NEW risk,
           \A b \in 1..n : h[b] = k[b], Warned(k, n, risk)
    PROVE  Warned(h, n, risk)
<1>1. n \in 1..n /\ \A a \in 1..n : \A b \in a..n : b \in 1..n
  OBVIOUS
<1> QED BY <1>1 DEF Warned

LEMMA SnapTypes ==
    ASSUME BackupTypeOK, NEW i \in 1..Len(snaps)
    PROVE  snaps[i].kept \in Lengths
<1>1. snaps \in Seq([vault : Vaults, prev : 0..MaxSnapshots, seen : Lengths,
                     kept : Lengths, risk : SUBSET File, moment : Lengths,
                     line : Seq(1..MaxSnapshots)])
  BY DEF BackupTypeOK
<1>2. snaps[i] \in [vault : Vaults, prev : 0..MaxSnapshots, seen : Lengths,
                    kept : Lengths, risk : SUBSET File, moment : Lengths,
                    line : Seq(1..MaxSnapshots)]
  BY <1>1, ElementOfSeq
<1> QED BY <1>2

\* The manifest that is sealed, and the ones before it.
Sealed == [vault |-> run.vault, prev |-> run.prev, seen |-> run.seen, kept |-> run.kept,
           risk |-> AtRisk(run.seen, Previous, OldRisk), moment |-> run.moment,
           line |-> Line(run.prev)]

LEMMA SealFacts ==
    ASSUME BackupInv, Seal
    PROVE  /\ snaps' \in Seq([vault : Vaults, prev : 0..MaxSnapshots, seen : Lengths,
                              kept : Lengths, risk : SUBSET File, moment : Lengths,
                              line : Seq(1..MaxSnapshots)])
           /\ Len(snaps') = Len(snaps) + 1
           /\ \A j \in 1..Len(snaps) : snaps'[j] = snaps[j]
           /\ snaps'[Len(snaps) + 1] = Sealed
<1>1. Line(run.prev) \in Seq(1..MaxSnapshots)
  <2>1. 1..Len(snaps) \subseteq 1..MaxSnapshots
    BY BackupAssumption DEF BackupInv, BackupTypeOK
  <2> QED BY <2>1, LineFacts, SeqMonotonic DEF BackupInv
<1>2. AtRisk(run.seen, Previous, OldRisk) \subseteq File
  BY FileFacts DEF AtRisk, Conflicting, Verified, Present
<1>3. Sealed \in [vault : Vaults, prev : 0..MaxSnapshots, seen : Lengths,
                  kept : Lengths, risk : SUBSET File, moment : Lengths,
                  line : Seq(1..MaxSnapshots)]
  BY <1>1, <1>2 DEF BackupInv, BackupTypeOK, Sealed
<1>4. snaps' = Append(snaps, Sealed)
  BY DEF Seal, Sealed
<1> HIDE DEF Sealed
<1> QED BY <1>3, <1>4, AppendProperties DEF BackupInv, BackupTypeOK

LEMMA NewFlag ==
    ASSUME BackupInv, Seal, NEW n, n = Len(snaps) + 1
    PROVE  LossIsFlagged(n)'
<1> DEFINE L == Line(run.prev)
           l == Len(L)
           h == Versions(n)'
<1>1. Len(snaps) \in Nat /\ n \in Nat /\ n - 1 = Len(snaps) /\ n # 0
  BY DEF BackupInv, BackupTypeOK
<1>2. /\ snaps'[n].line = L /\ snaps'[n].kept = run.kept
      /\ snaps'[n].risk = AtRisk(run.seen, Previous, OldRisk)
      /\ Ancestry(n)' = Append(L, n)
  BY SealFacts DEF Sealed, Ancestry
<1>3. /\ l \in Nat /\ Len(Ancestry(n)') = l + 1
      /\ \A b \in 1..l : Ancestry(n)'[b] = L[b] /\ L[b] \in 1..Len(snaps)
      /\ Ancestry(n)'[l + 1] = n
  <2>1. L \in Seq(1..(n - 1))
    BY <1>1, LineFacts DEF BackupInv
  <2> HIDE DEF L
  <2>2. /\ Len(L) \in Nat /\ Len(Append(L, n)) = Len(L) + 1
        /\ \A b \in 1..Len(L) : Append(L, n)[b] = L[b] /\ L[b] \in 1..(n - 1)
        /\ Append(L, n)[Len(L) + 1] = n
    BY <1>1, <2>1, AncestryFacts
  <2> QED BY <1>1, <1>2, <2>2
<1>4. h[l + 1] = run.kept /\ run.kept \in Lengths
  <2>1. run.kept \in Lengths
    BY DEF BackupInv, BackupTypeOK
  <2> HIDE DEF L
  <2> QED BY <1>2, <1>3, <2>1 DEF Versions
<1>5. \A b \in 1..l : h[b] = snaps[L[b]].kept
  <2>1. \A j \in 1..Len(snaps) : snaps'[j] = snaps[j]
    BY SealFacts
  <2> HIDE DEF L
  <2> QED BY <1>3, <2>1 DEF Versions
<1>6. \A b \in 1..(l + 1) : h[b] \in Lengths
  <2>1. \A i \in 1..Len(snaps) : snaps[i].kept \in Lengths
    BY SnapTypes DEF BackupInv
  <2>2. \A b \in 1..(l + 1) : b \in 1..l \/ b = l + 1
    BY <1>3
  <2> HIDE DEF L, h
  <2> QED BY <1>3, <1>4, <1>5, <2>1, <2>2
\* The line before it is the previous snapshot's, and that one was flagged.
<1>7. ASSUME run.prev # 0
      PROVE  /\ l # 0 /\ h[l] = Previous
             /\ Warned(h, l, OldRisk)
  <2> DEFINE p == run.prev
  <2>1. /\ p \in 1..Len(snaps) /\ Line(p) = Ancestry(p)
        /\ snaps[p].line \in Seq(1..(p - 1))
    BY <1>7, LineFacts DEF BackupInv, Ancestry
  <2>2. /\ l # 0 /\ L[l] = p
    <3> DEFINE k == snaps[p].line
    <3>1. L = Append(k, p) /\ k \in Seq(1..(p - 1)) /\ p \in Nat
      BY <2>1 DEF Ancestry
    <3> HIDE DEF L, k, p
    <3> QED BY <3>1, AncestryFacts
  <2>3. h[l] = Previous
    <3>1. l \in 1..l
      BY <1>3, <2>2
    <3>2. snaps[p].seen = snaps[p].kept
      BY <2>1 DEF BackupInv, SealedInv
    <3> HIDE DEF L, h
    <3> QED BY <1>5, <1>7, <2>2, <3>1, <3>2 DEF Previous
  <2>4. \A b \in 1..l : h[b] = Versions(p)[b]
    BY <1>5, <2>1 DEF Versions
  <2>5. Warned(Versions(p), l, OldRisk)
    BY <1>7, <2>1 DEF BackupInv, SealedInv, LossIsFlagged, OldRisk
  <2>6. Warned(h, l, OldRisk)
    <3> HIDE DEF h, L
    <3> QED BY <2>2, <1>3, <2>4, <2>5, SameVersions
  <2> QED BY <2>2, <2>3, <2>6
<1>8. run.prev = 0 => l = 0 /\ Previous = Nothing /\ OldRisk = {}
  BY LineFacts DEF BackupInv, Previous, OldRisk
<1>9. run.seen = run.kept
  BY FileFacts DEF BackupInv, CaptureInv, BackupTypeOK, Lengths, Seal
<1>10. Warned(h, l + 1, AtRisk(run.seen, Previous, OldRisk))
  <2>1. /\ Previous = (IF l = 0 THEN Nothing ELSE h[l])
        /\ OldRisk = (IF l = 0 THEN {} ELSE OldRisk)
    BY <1>7, <1>8
  <2>2. l # 0 => Warned(h, l, OldRisk)
    BY <1>7, <1>8
  <2> HIDE DEF h, L
  <2> QED BY <1>3, <1>4, <1>6, <1>9, <2>1, <2>2, WarnedExtends
<1> HIDE DEF h, L
<1>11. LossIsFlagged(n)' = Warned(h, Len(Ancestry(n)'), snaps'[n].risk)
  BY DEF LossIsFlagged, h
<1> QED BY <1>2, <1>3, <1>10, <1>11

LEMMA SealInv == BackupInv /\ Seal => BackupInv'
<1> SUFFICES ASSUME BackupInv, Seal PROVE BackupInv'
  OBVIOUS
<1>1. PICK n : n = Len(snaps) + 1
  OBVIOUS
<1>2. /\ run' = [run EXCEPT !.phase = "sealed"] /\ src' = src /\ vault' = vault
      /\ run.phase = "recheck" /\ run.todo = {} /\ Len(snaps) < MaxSnapshots
  BY DEF Seal, BackupInv, TurnInv
<1>3. /\ run'.phase = "sealed" /\ run'.todo = {} /\ run'.listed = run.listed
      /\ run'.prev = run.prev /\ run'.seen = run.seen /\ run'.kept = run.kept
  BY <1>2 DEF BackupInv, BackupTypeOK
<1>4. Len(snaps) \in Nat /\ Len(snaps') = n /\ n \in 1..n /\ n <= MaxSnapshots
  <2>1. Len(snaps) \in Nat /\ Len(snaps') = n
    BY <1>1, SealFacts DEF BackupInv, BackupTypeOK
  <2> QED BY <1>1, <1>2, <2>1, BackupAssumption
<1>5. BackupTypeOK'
  <2>1. snaps' \in Seq([vault : Vaults, prev : 0..MaxSnapshots, seen : Lengths,
                        kept : Lengths, risk : SUBSET File, moment : Lengths,
                        line : Seq(1..MaxSnapshots)])
    BY SealFacts
  <2> QED BY <1>2, <1>4, <2>1 DEF BackupInv, BackupTypeOK, Phases
<1>6. SealedInv'
  <2>1. \A i \in 1..n : i \in 1..Len(snaps) \/ i = n
    BY <1>1, <1>4
  <2>2. ASSUME NEW i \in 1..Len(snaps)
        PROVE  /\ snaps'[i].line \in Seq(1..(i - 1))
               /\ snaps'[i].seen = snaps'[i].kept
               /\ \A f \in Transcript : snaps'[i].kept[f] = snaps'[i].moment[f]
               /\ LossIsFlagged(i)'
    <3>1. \A j \in 1..Len(snaps) : snaps'[j] = snaps[j]
      BY SealFacts
    <3>2. LossIsFlagged(i)'
      BY <3>1, OldFlagsStay DEF BackupInv
    <3> QED BY <3>1, <3>2 DEF BackupInv, SealedInv
  <2>3. /\ snaps'[n].line \in Seq(1..(n - 1))
        /\ snaps'[n].seen = snaps'[n].kept
        /\ \A f \in Transcript : snaps'[n].kept[f] = snaps'[n].moment[f]
    <3>1. snaps'[n].line \in Seq(1..Len(snaps)) /\ n - 1 = Len(snaps)
      BY <1>1, <1>4, SealFacts, LineFacts DEF BackupInv, Sealed
    <3>2. run.seen = run.kept
      BY <1>2, FileFacts DEF BackupInv, CaptureInv, BackupTypeOK, Lengths
    <3>3. \A f \in Transcript : run.kept[f] = run.moment[f]
      BY <1>2 DEF BackupInv, CaptureInv
    <3>4. /\ snaps'[n].seen = run.seen /\ snaps'[n].kept = run.kept
          /\ snaps'[n].moment = run.moment
      BY <1>1, SealFacts DEF Sealed
    <3> QED BY <3>1, <3>2, <3>3, <3>4
  <2>4. LossIsFlagged(n)'
    BY <1>1, NewFlag
  <2>5. /\ \A v \in Vaults : /\ vault'[v].refs \subseteq 1..n
                             /\ vault'[v].latest <= n
        /\ run'.prev <= n
    BY <1>1, <1>2, <1>3, <1>4 DEF BackupInv, BackupTypeOK, SealedInv
  <2> QED BY <1>4, <2>1, <2>2, <2>3, <2>4, <2>5 DEF SealedInv
<1>7. TurnInv'
  BY <1>3, <1>4 DEF TurnInv
<1>8. CaptureInv'
  BY <1>2, <1>3 DEF BackupInv, CaptureInv
<1> QED BY <1>5, <1>6, <1>7, <1>8 DEF BackupInv

-----------------------------------------------------------------------------
(* Publication, and the end of a run. *)

LEMMA PublishReferenceInv == BackupInv /\ PublishReference => BackupInv'
<1> SUFFICES ASSUME BackupInv, PublishReference PROVE BackupInv'
  OBVIOUS
<1> USE DEF PublishReference
<1>1. /\ run'.phase = "referenced" /\ run'.todo = run.todo /\ run'.listed = run.listed
      /\ run'.prev = run.prev /\ run'.seen = run.seen /\ run'.kept = run.kept
      /\ run.phase = "sealed"
  BY DEF BackupInv, BackupTypeOK
<1>2. Len(snaps) \in 1..Len(snaps) /\ Len(snaps) \in 1..MaxSnapshots
  BY <1>1, BackupAssumption DEF BackupInv, BackupTypeOK, TurnInv
<1>3. BackupTypeOK'
  <2>1. vault' \in [Vaults -> [made : BOOLEAN, refs : SUBSET (1..MaxSnapshots),
                              latest : 0..MaxSnapshots]]
    <3>1. /\ vault' = [vault EXCEPT ![run.vault].refs = @ \cup {Len(snaps)}]
          /\ run.vault \in Vaults
      BY DEF BackupInv, BackupTypeOK
    <3>2. vault \in [Vaults -> [made : BOOLEAN, refs : SUBSET (1..MaxSnapshots),
                                latest : 0..MaxSnapshots]]
      BY DEF BackupInv, BackupTypeOK
    <3> HIDE DEF PublishReference
    <3> QED BY <1>2, <3>1, <3>2
  <2>2. /\ run' \in [by : Callers \cup {NoOne}, vault : Vaults, phase : Phases,
                  listed : SUBSET Transcript, todo : SUBSET Transcript,
                  dirty : SUBSET Transcript, tries : 0..(Tries - 1), hasdb : BOOLEAN,
                  prev : 0..MaxSnapshots, seen : Lengths, kept : Lengths,
                  moment : Lengths]
        /\ run'.by = run.by
    BY DEF BackupInv, BackupTypeOK, Phases
  <2> QED BY <1>1, <2>1, <2>2 DEF BackupInv, BackupTypeOK
<1>4. SealedInv'
  <2>1. \A v \in Vaults : /\ vault'[v].refs \subseteq 1..Len(snaps)
                          /\ vault'[v].latest <= Len(snaps)
    BY <1>2 DEF BackupInv, BackupTypeOK, SealedInv
  <2> QED BY <1>1, <2>1, SealedStays DEF BackupInv, SealedInv
<1>5. TurnInv'
  BY <1>1 DEF BackupInv, TurnInv
<1>6. CaptureInv'
  BY <1>1 DEF BackupInv, CaptureInv
<1> QED BY <1>3, <1>4, <1>5, <1>6 DEF BackupInv

LEMMA PublishLatestInv == BackupInv /\ PublishLatest => BackupInv'
<1> SUFFICES ASSUME BackupInv, PublishLatest PROVE BackupInv'
  OBVIOUS
<1> USE DEF PublishLatest
<1>1. /\ run'.phase = "published" /\ run'.todo = run.todo /\ run'.listed = run.listed
      /\ run'.prev = run.prev /\ run'.seen = run.seen /\ run'.kept = run.kept
      /\ run.phase = "referenced"
  BY DEF BackupInv, BackupTypeOK
<1>2. Len(snaps) \in 1..Len(snaps) /\ Len(snaps) \in 0..MaxSnapshots
  BY <1>1, BackupAssumption DEF BackupInv, BackupTypeOK, TurnInv
<1>3. BackupTypeOK'
  <2>1. vault' \in [Vaults -> [made : BOOLEAN, refs : SUBSET (1..MaxSnapshots),
                              latest : 0..MaxSnapshots]]
    <3>1. vault' = [vault EXCEPT ![run.vault].latest = Len(snaps)] /\ run.vault \in Vaults
      BY DEF BackupInv, BackupTypeOK
    <3>2. vault \in [Vaults -> [made : BOOLEAN, refs : SUBSET (1..MaxSnapshots),
                                latest : 0..MaxSnapshots]]
      BY DEF BackupInv, BackupTypeOK
    <3> HIDE DEF PublishLatest
    <3> QED BY <1>2, <3>1, <3>2
  <2>2. /\ run' \in [by : Callers \cup {NoOne}, vault : Vaults, phase : Phases,
                  listed : SUBSET Transcript, todo : SUBSET Transcript,
                  dirty : SUBSET Transcript, tries : 0..(Tries - 1), hasdb : BOOLEAN,
                  prev : 0..MaxSnapshots, seen : Lengths, kept : Lengths,
                  moment : Lengths]
        /\ run'.by = run.by
    BY DEF BackupInv, BackupTypeOK, Phases
  <2> QED BY <1>1, <2>1, <2>2 DEF BackupInv, BackupTypeOK
<1>4. SealedInv'
  <2>1. \A v \in Vaults : /\ vault'[v].refs \subseteq 1..Len(snaps)
                          /\ vault'[v].latest <= Len(snaps)
    BY <1>2 DEF BackupInv, BackupTypeOK, SealedInv
  <2> QED BY <1>1, <2>1, SealedStays DEF BackupInv, SealedInv
<1>5. TurnInv'
  BY <1>1 DEF BackupInv, TurnInv
<1>6. CaptureInv'
  BY <1>1 DEF BackupInv, CaptureInv
<1> QED BY <1>3, <1>4, <1>5, <1>6 DEF BackupInv

\* A run that returns, fails or dies.
LEMMA RunEndInv ==
    ASSUME BackupInv, run' = NoRun, UNCHANGED <<src, vault, snaps>>
    PROVE  BackupInv'
<1>1. BackupTypeOK'
  BY NoRunType DEF BackupInv, BackupTypeOK
<1>2. SealedInv'
  <2>1. Len(snaps) \in Nat
    BY DEF BackupInv, BackupTypeOK
  <2>2. run'.prev <= Len(snaps)
    BY <2>1, NoRunType
  <2> QED BY <2>2, SealedStays DEF BackupInv, SealedInv
<1>3. TurnInv'
  BY NoRunType DEF TurnInv
<1>4. CaptureInv'
  BY NoRunType DEF CaptureInv
<1> QED BY <1>1, <1>2, <1>3, <1>4 DEF BackupInv

LEMMA BackupStutters == BackupInv /\ UNCHANGED backupVars => BackupInv'
<1> SUFFICES ASSUME BackupInv, UNCHANGED backupVars PROVE BackupInv'
  OBVIOUS
<1> USE DEF backupVars
<1>1. BackupTypeOK'
  BY DEF BackupInv, BackupTypeOK
<1>2. SealedInv'
  BY SealedStays DEF BackupInv, SealedInv
<1>3. TurnInv'
  BY DEF BackupInv, TurnInv
<1>4. Current' = Current
  BY DEF Current
<1>5. CaptureInv'
  BY <1>4 DEF BackupInv, CaptureInv
<1> QED BY <1>1, <1>2, <1>3, <1>5 DEF BackupInv

LEMMA BackupStepInv == BackupInv /\ [BackupNext]_backupVars => BackupInv'
<1> SUFFICES ASSUME BackupInv, [BackupNext]_backupVars PROVE BackupInv'
  OBVIOUS
<1>1. CASE Codex
  BY <1>1, CodexInv
<1>2. ASSUME NEW c \in Callers, NEW v \in Vaults, Begin(c, v) PROVE BackupInv'
  BY <1>2, BeginInv
<1>3. CASE BackupStep
  BY <1>3, EnumerateInv, PrepareInv, ScanInv, StoreInv, SettleInv, RetryInv, PaginateInv,
     ListInv, RecheckInv, SealInv, PublishReferenceInv, PublishLatestInv DEF BackupStep
<1>4. CASE Return
  BY <1>4, RunEndInv DEF Return
<1>5. CASE Stop
  BY <1>5, RunEndInv DEF Stop
<1>6. CASE UNCHANGED backupVars
  BY <1>6, BackupStutters
<1> QED BY <1>1, <1>2, <1>3, <1>4, <1>5, <1>6 DEF BackupNext

\* The invariant the promises of a backup rest on, in every behaviour of
\* the runs and of Codex.
THEOREM BackupInvariance == BackupSpec => []BackupInv
<1>1. BackupInit => BackupInv
  BY InitBackup
<1>2. BackupInv /\ [BackupNext]_backupVars => BackupInv'
  BY BackupStepInv
<1> QED BY <1>1, <1>2, PTL DEF BackupSpec

LEMMA PublishedIsSealed ==
    ASSUME BackupInv, NEW i \in Published
    PROVE  i \in 1..Len(snaps)
BY DEF BackupInv, SealedInv, Published

\* However Codex writes while its files are copied one by one, the
\* transcripts of a published snapshot were all there at one moment, and its
\* counts are the ones of the stored bytes (backup_transcripts).
THEOREM PublishedIsAMoment == BackupSpec => []SnapshotIsAMoment
<1>1. BackupInv => SnapshotIsAMoment
  BY PublishedIsSealed DEF BackupInv, SealedInv, SnapshotIsAMoment
<1> QED BY <1>1, BackupInvariance, PTL

\* Messages that were once backed up and are missing since are marked in
\* every later snapshot that still has the conversation, over any number of
\* versions and runs that died (_recovery_status and the manifest's risk).
THEOREM PublishedLossIsFlagged == BackupSpec => []LossStaysFlagged
<1>1. BackupInv => LossStaysFlagged
  BY PublishedIsSealed DEF BackupInv, SealedInv, LossStaysFlagged
<1> QED BY <1>1, BackupInvariance, PTL

-----------------------------------------------------------------------------
\* A rotation: this Mac keeps a device it can sign in with.

LEMMA InitRotation == RotationInit => RotationInv
BY DeviceAssumption
   DEF RotationInit, RotationInv, RotationTypeOK, ServiceInv, HandoffInv, StepInv,
       NoReferences, NoHandoff, Handoff, Steps

\* A pending handoff is not the absent one, and has two devices.
LEMMA HandoffFacts ==
    ASSUME RotationTypeOK
    PROVE  /\ journal # NoHandoff => journal \in Handoff
           /\ NoHandoff \notin Handoff
BY DeviceAssumption DEF RotationTypeOK, Handoff, NoHandoff

-----------------------------------------------------------------------------
(* The service. *)

\* Only the journal's request can still be accepted, and then the old device
\* was the one in use.
LEMMA AcceptedIsJournal ==
    ASSUME RotationInv, NEW h \in flight, Accepts(h)
    PROVE  /\ h = journal /\ journal # NoHandoff
           /\ sessions = {journal.old}
           /\ journal.new \notin used /\ scheduled = journal.old
<1>1. h = journal /\ h.old \in sessions /\ h.new \notin used
  BY DEF Accepts, RotationInv, ServiceInv
<1>2. h \in Handoff
  BY DEF RotationInv, RotationTypeOK
<1>3. journal # NoHandoff
  BY <1>1, <1>2, HandoffFacts DEF RotationInv
<1>4. sessions \subseteq used /\ \E d \in used : sessions = {d}
  BY DEF RotationInv, RotationTypeOK, ServiceInv
<1> QED BY <1>1, <1>3, <1>4 DEF RotationInv, HandoffInv

LEMMA ArriveInv == RotationInv /\ Arrive => RotationInv'
<1> SUFFICES ASSUME RotationInv, NEW h \in flight, Rotated(h), flight' = flight \ {h},
                    UNCHANGED <<files, step, fresh, before>>
             PROVE  RotationInv'
  BY DEF Arrive
<1> USE DEF files
<1>1. h \in Handoff
  BY DEF RotationInv, RotationTypeOK
<1>2. CASE ~Accepts(h)
  <2>1. sessions' = sessions /\ used' = used
    BY <1>2 DEF Rotated
  <2>2. RotationTypeOK'
    BY <2>1 DEF RotationInv, RotationTypeOK
  <2>3. ServiceInv' /\ HandoffInv' /\ StepInv'
    BY <2>1 DEF RotationInv, ServiceInv, HandoffInv, StepInv
  <2> QED BY <2>2, <2>3 DEF RotationInv
<1>3. CASE Accepts(h)
  <2>1. /\ h = journal /\ journal # NoHandoff /\ sessions = {journal.old}
        /\ journal.new \notin used /\ scheduled = journal.old
    BY <1>3, AcceptedIsJournal
  <2>2. journal.old # journal.new
    BY <2>1 DEF RotationInv, HandoffInv
  <2>3. sessions' = {journal.new} /\ used' = used \cup {journal.new}
    BY <1>3, <2>1, <2>2 DEF Rotated
  <2>4. RotationTypeOK'
    BY <1>1, <2>1, <2>3 DEF RotationInv, RotationTypeOK, Handoff
  <2>5. ServiceInv'
    BY <2>3 DEF RotationInv, ServiceInv
  <2>6. HandoffInv'
    BY <2>1, <2>2, <2>3 DEF HandoffInv
  <2>7. StepInv'
    BY <2>1, <2>3 DEF RotationInv, StepInv
  <2> QED BY <2>4, <2>5, <2>6, <2>7 DEF RotationInv
<1> QED BY <1>2, <1>3

LEMMA LoseInv == RotationInv /\ Lose => RotationInv'
BY DEF Lose, files, RotationInv, RotationTypeOK, ServiceInv, HandoffInv, StepInv

-----------------------------------------------------------------------------
(* The run. *)

\* A step of the holder of the lock that changes no record.
LEMMA FilesStay ==
    ASSUME RotationInv, UNCHANGED <<service, files>>, step' \in Steps, StepInv',
           fresh' \in Devices \cup {NoDevice},
           before' \in [bound : Devices \cup {NoDevice}, scheduled : Devices \cup {NoDevice}]
    PROVE  RotationInv'
BY DEF service, files, RotationInv, RotationTypeOK, ServiceInv, HandoffInv

\* The lock is given up.
LEMMA FreesFacts ==
    ASSUME Frees
    PROVE  /\ step' \in Steps /\ StepInv' /\ fresh' \in Devices \cup {NoDevice}
           /\ before' \in [bound : Devices \cup {NoDevice},
                          scheduled : Devices \cup {NoDevice}]
<1>1. step' = "free" /\ fresh' = NoDevice /\ before' = NoReferences
  BY DEF Frees
<1> QED BY <1>1 DEF Steps, StepInv, NoReferences

LEMMA QuietInv ==
    ASSUME RotationInv,
           \/ StartRun \/ Resume \/ NotDue \/ ResolveNew \/ ResolveOld \/ Confirm
    PROVE  RotationInv'
<1>1. fresh' = fresh /\ before' = before /\ UNCHANGED <<service, files>>
  BY DEF StartRun, Resume, NotDue, ResolveNew, ResolveOld, Confirm, Goes
<1>2. step' \in Steps
  BY DEF StartRun, Resume, NotDue, ResolveNew, ResolveOld, Confirm, Goes, Steps
<1>3. StepInv'
  BY <1>1 DEF StartRun, Resume, NotDue, ResolveNew, ResolveOld, Confirm, Goes,
              service, files, RotationInv, StepInv, HandoffInv
<1> QED BY <1>1, <1>2, <1>3, FilesStay DEF RotationInv, RotationTypeOK

LEMMA CreateInv == RotationInv /\ Create => RotationInv'
<1> SUFFICES ASSUME RotationInv, Create PROVE RotationInv'
  OBVIOUS
<1>1. UNCHANGED <<service, files, before>> /\ step' \in Steps
  BY DEF Create, Steps
<1>2. StepInv'
  BY DEF Create, service, files, RotationInv, StepInv
<1>3. fresh' \in Devices
  BY DEF Create
<1> QED BY <1>1, <1>2, <1>3, FilesStay DEF RotationInv, RotationTypeOK

LEMMA JournalInv == RotationInv /\ Journal => RotationInv'
<1> SUFFICES ASSUME RotationInv, Journal PROVE RotationInv'
  OBVIOUS
<1> USE DEF Journal, service
<1>1. /\ journal = NoHandoff /\ scheduled # NoDevice
      /\ fresh \in Devices \ (used \cup {scheduled})
  BY DEF RotationInv, StepInv
<1>2. scheduled \in sessions /\ scheduled \in Devices
  BY <1>1 DEF RotationInv, HandoffInv, RotationTypeOK
<1>3. journal' \in Handoff /\ journal' # NoHandoff
      /\ journal'.old = scheduled /\ journal'.new = fresh
  BY <1>1, <1>2, DeviceAssumption DEF Handoff, NoHandoff
<1>4. RotationTypeOK'
  BY <1>3 DEF RotationInv, RotationTypeOK, Steps
<1>5. ServiceInv'
  <2>1. \A h \in flight : h.new \in used
    BY <1>1, HandoffFacts DEF RotationInv, RotationTypeOK, ServiceInv
  <2> QED BY <2>1 DEF RotationInv, ServiceInv
<1>6. HandoffInv'
  <2>1. sessions = {scheduled} /\ fresh \notin sessions
    BY <1>1, <1>2 DEF RotationInv, ServiceInv, RotationTypeOK
  <2> QED BY <1>1, <1>3, <2>1 DEF HandoffInv
<1>7. StepInv'
  BY <1>3 DEF StepInv
<1> QED BY <1>4, <1>5, <1>6, <1>7 DEF RotationInv

LEMMA SendInv == RotationInv /\ Send => RotationInv'
<1> SUFFICES ASSUME RotationInv, Send PROVE RotationInv'
  OBVIOUS
<1> USE DEF Send, files, Goes
<1>1. journal # NoHandoff /\ journal \in Handoff
  BY HandoffFacts DEF RotationInv, StepInv
<1>2. RotationTypeOK'
  BY <1>1 DEF RotationInv, RotationTypeOK, Steps
<1>3. ServiceInv' /\ HandoffInv' /\ StepInv'
  BY DEF RotationInv, ServiceInv, HandoffInv, StepInv
<1> QED BY <1>2, <1>3 DEF RotationInv

LEMMA ConfigureInv == RotationInv /\ Configure => RotationInv'
<1> SUFFICES ASSUME RotationInv, Configure PROVE RotationInv'
  OBVIOUS
<1> USE DEF Configure, service, Goes
<1>1. journal \in Handoff /\ journal # NoHandoff /\ journal.new \in sessions
  BY HandoffFacts DEF RotationInv, StepInv
<1>2. RotationTypeOK'
  BY <1>1 DEF RotationInv, RotationTypeOK, Steps, Handoff
<1>3. ServiceInv' /\ HandoffInv' /\ StepInv'
  BY <1>1 DEF RotationInv, ServiceInv, HandoffInv, StepInv
<1> QED BY <1>2, <1>3 DEF RotationInv

LEMMA ConnectInv == RotationInv /\ Connect => RotationInv'
<1> SUFFICES ASSUME RotationInv, Connect PROVE RotationInv'
  OBVIOUS
<1> USE DEF Connect, service, Goes
<1>1. /\ journal \in Handoff /\ journal # NoHandoff
      /\ journal.new \in sessions /\ scheduled = journal.new
  BY HandoffFacts DEF RotationInv, StepInv
<1>2. RotationTypeOK'
  BY <1>1 DEF RotationInv, RotationTypeOK, Steps, Handoff
<1>3. ServiceInv' /\ HandoffInv' /\ StepInv'
  BY <1>1 DEF RotationInv, ServiceInv, HandoffInv, StepInv
<1> QED BY <1>2, <1>3 DEF RotationInv

LEMMA ClearInv == RotationInv /\ Clear => RotationInv'
<1> SUFFICES ASSUME RotationInv, Clear PROVE RotationInv'
  OBVIOUS
<1> USE DEF Clear, service, Goes
<1>1. /\ journal \in Handoff /\ journal # NoHandoff
      /\ journal.new \in sessions /\ scheduled = journal.new /\ bound = journal.new
  BY HandoffFacts DEF RotationInv, StepInv
<1>2. RotationTypeOK'
  BY DEF RotationInv, RotationTypeOK, Steps
\* The request that was confirmed cannot be accepted again.
<1>3. ServiceInv'
  BY <1>1 DEF RotationInv, RotationTypeOK, ServiceInv
<1>4. HandoffInv'
  BY <1>1 DEF HandoffInv
<1>5. StepInv'
  BY DEF StepInv
<1> QED BY <1>2, <1>3, <1>4, <1>5 DEF RotationInv

LEMMA FinishInv ==
    ASSUME RotationInv, Finish \/ Load \/ Abort
    PROVE  RotationInv'
<1>1. Frees /\ UNCHANGED <<service, files>>
  BY DEF Finish, Load, Abort
<1> QED BY <1>1, FreesFacts, FilesStay

-----------------------------------------------------------------------------
(* Enabling and removing. *)

LEMMA EnableInv == RotationInv /\ Enable => RotationInv'
<1> SUFFICES ASSUME RotationInv, Enable PROVE RotationInv'
  OBVIOUS
<1>1. /\ UNCHANGED <<service, files>> /\ step' = "bind" /\ journal = NoHandoff
      /\ fresh' \in sessions
      /\ before' = [bound |-> bound, scheduled |-> scheduled]
  BY DEF Enable
<1>2. fresh' \in Devices
  BY <1>1 DEF RotationInv, RotationTypeOK
<1>3. before' \in [bound : Devices \cup {NoDevice}, scheduled : Devices \cup {NoDevice}]
  BY <1>1 DEF RotationInv, RotationTypeOK
<1>4. StepInv'
  BY <1>1 DEF service, files, RotationInv, HandoffInv, StepInv
<1> QED BY <1>1, <1>2, <1>3, <1>4, FilesStay DEF Steps

\* The device of the schedule and of the connection is one that is accepted.
LEMMA ReferencesInv ==
    ASSUME RotationInv, journal = NoHandoff, UNCHANGED <<service, journal>>,
           scheduled' \in sessions \cup {NoDevice}, bound' \in sessions \cup {NoDevice},
           step' \in Steps, StepInv',
           fresh' \in Devices \cup {NoDevice},
           before' \in [bound : Devices \cup {NoDevice}, scheduled : Devices \cup {NoDevice}]
    PROVE  RotationInv'
<1>1. RotationTypeOK'
  BY DEF service, RotationInv, RotationTypeOK
<1>2. ServiceInv' /\ HandoffInv'
  BY DEF service, RotationInv, ServiceInv, HandoffInv
<1> QED BY <1>1, <1>2 DEF RotationInv

LEMMA BindInv == RotationInv /\ (Bind \/ Schedule) => RotationInv'
<1> SUFFICES ASSUME RotationInv, Bind \/ Schedule PROVE RotationInv'
  OBVIOUS
<1>1. /\ journal = NoHandoff /\ fresh \in sessions
      /\ UNCHANGED <<service, journal, fresh, before>>
  BY DEF Bind, Schedule, Goes, RotationInv, StepInv
<1>2. scheduled' \in sessions \cup {NoDevice} /\ bound' \in sessions \cup {NoDevice}
  BY <1>1 DEF Bind, Schedule, RotationInv, HandoffInv
<1>3. step' \in Steps
  BY DEF Bind, Schedule, Goes, Steps
<1>4. StepInv'
  BY <1>1 DEF Bind, Schedule, Goes, service, RotationInv, StepInv
<1> QED BY <1>1, <1>2, <1>3, <1>4, ReferencesInv DEF RotationInv, RotationTypeOK

LEMMA RollBackInv == RotationInv /\ RollBack => RotationInv'
<1> SUFFICES ASSUME RotationInv, RollBack PROVE RotationInv'
  OBVIOUS
<1>1. /\ journal = NoHandoff /\ UNCHANGED <<service, journal>> /\ Frees
      /\ bound' \in sessions \cup {NoDevice} /\ scheduled' \in sessions \cup {NoDevice}
  BY DEF RollBack, RotationInv, StepInv
<1> QED BY <1>1, FreesFacts, ReferencesInv

LEMMA RemoveInv == RotationInv /\ Remove => RotationInv'
<1> SUFFICES ASSUME RotationInv, Remove PROVE RotationInv'
  OBVIOUS
<1>1. /\ journal = NoHandoff /\ UNCHANGED <<service, scheduled, journal, fresh, before>>
      /\ bound' = scheduled /\ scheduled' = scheduled /\ step' = "forget"
  BY DEF Remove, Goes
<1>2. scheduled \in sessions \cup {NoDevice}
  BY <1>1 DEF RotationInv, HandoffInv
<1>3. StepInv'
  BY <1>1 DEF StepInv
<1> QED BY <1>1, <1>2, <1>3, ReferencesInv DEF RotationInv, RotationTypeOK, Steps

LEMMA UnscheduleInv == RotationInv /\ Unschedule => RotationInv'
<1> SUFFICES ASSUME RotationInv, Unschedule PROVE RotationInv'
  OBVIOUS
<1>1. /\ journal = NoHandoff /\ UNCHANGED <<service, bound, journal>> /\ Frees
      /\ scheduled' = NoDevice
  BY DEF Unschedule, RotationInv, StepInv
<1>2. bound \in sessions \cup {NoDevice}
  BY <1>1 DEF RotationInv, HandoffInv
<1> QED BY <1>1, <1>2, FreesFacts, ReferencesInv

-----------------------------------------------------------------------------
LEMMA RotationStepInv == RotationInv /\ [RotationNext]_deviceVars => RotationInv'
<1> SUFFICES ASSUME RotationInv, [RotationNext]_deviceVars PROVE RotationInv'
  OBVIOUS
<1>1. CASE RotationStep
  BY <1>1, QuietInv, CreateInv, JournalInv, SendInv, ConfigureInv, ConnectInv, ClearInv
     DEF RotationStep
<1>2. CASE UNCHANGED deviceVars
  BY <1>2 DEF deviceVars, RotationInv, RotationTypeOK, ServiceInv, HandoffInv, StepInv
<1> QED BY <1>1, <1>2, ArriveInv, LoseInv, QuietInv, FinishInv, EnableInv, BindInv,
           RollBackInv, RemoveInv, UnscheduleInv DEF RotationNext

\* The invariant of the handoff, in every behaviour of the runs, of the
\* person's changes and of the service.
THEOREM RotationInvariance == RotationSpec => []RotationInv
<1>1. RotationInit => RotationInv
  BY InitRotation
<1>2. RotationInv /\ [RotationNext]_deviceVars => RotationInv'
  BY RotationStepInv
<1> QED BY <1>1, <1>2, PTL DEF RotationSpec

LEMMA InvMakesUsable == RotationInv => DeviceIsUsable
<1> SUFFICES ASSUME RotationInv PROVE DeviceIsUsable
  OBVIOUS
<1>1. \E d \in used : sessions = {d}
  BY DEF RotationInv, ServiceInv
<1>2. CASE journal = NoHandoff
  BY <1>1, <1>2 DEF RotationInv, HandoffInv, DeviceIsUsable
<1>3. CASE journal # NoHandoff
  BY <1>1, <1>3 DEF RotationInv, HandoffInv, DeviceIsUsable
<1> QED BY <1>2, <1>3

\* A Mac that backs up on its own never locks itself out of the service, and
\* without a pending handoff its records agree (_rotate_if_due).
THEOREM DeviceStaysUsable == RotationSpec => []DeviceIsUsable
BY RotationInvariance, InvMakesUsable, PTL

-----------------------------------------------------------------------------
\* The schedule: what a receipt and a deferral promise.

Snapshot == [vault : Vaults, prev : 0..MaxSnapshots, seen : Lengths,
             kept : Lengths, risk : SUBSET File, moment : Lengths,
             line : Seq(1..MaxSnapshots)]

\* The callers differ, and no run is anybody's.
LEMMA PersonFacts ==
    /\ Agent \in Callers /\ Person \in Callers /\ Agent # Person
    /\ Agent # NoOne /\ Person # NoOne
    /\ NoRun.by = NoOne /\ NoRun.phase = "idle" /\ NoRun.vault \in Vaults
BY BackupAssumption, ScheduleAssumption DEF NoRun

\* What is sealed is a snapshot of a vault.
LEMMA SnapshotFacts ==
    ASSUME BackupInv
    PROVE  /\ snaps \in Seq(Snapshot) /\ Len(snaps) \in Nat
           /\ \A s \in 1..Len(snaps) : snaps[s] \in Snapshot /\ snaps[s].vault \in Vaults
<1>1. snaps \in Seq(Snapshot) /\ Len(snaps) \in Nat
  BY DEF BackupInv, BackupTypeOK, Snapshot
<1>2. \A s \in 1..Len(snaps) : snaps[s] \in Snapshot
  BY <1>1
<1> QED BY <1>1, <1>2 DEF Snapshot

\* A step of a backup takes nothing published back.
LEMMA PublishedStays ==
    ASSUME BackupInv, [BackupNext]_backupVars
    PROVE  /\ \A s \in 1..Len(snaps) : s \in 1..Len(snaps') /\ snaps'[s] = snaps[s]
           /\ \A v \in Vaults : /\ vault[v].refs \subseteq vault'[v].refs
                                /\ \A s \in 1..Len(snaps) :
                                     s <= vault[v].latest => s <= vault'[v].latest
                                /\ vault[v].made => vault'[v].made
<1>1. /\ Len(snaps) \in Nat /\ run.vault \in Vaults
      /\ vault \in [Vaults -> [made : BOOLEAN, refs : SUBSET (1..MaxSnapshots),
                               latest : 0..MaxSnapshots]]
  BY DEF BackupInv, BackupTypeOK
<1>2. CASE Seal
  BY <1>1, <1>2, SealFacts DEF Seal
<1>3. CASE Prepare
  BY <1>1, <1>3 DEF Prepare
<1>4. CASE PublishReference
  BY <1>1, <1>4 DEF PublishReference
<1>5. CASE PublishLatest
  BY <1>1, <1>5 DEF PublishLatest
<1>6. CASE UNCHANGED <<vault, snaps>>
  BY <1>6
<1>7. CASE \/ Codex \/ Return \/ Stop \/ \E c \in Callers, v \in Vaults : Begin(c, v)
           \/ Enumerate \/ Scan \/ Store \/ Settle \/ Retry \/ Paginate \/ List \/ Recheck
           \/ UNCHANGED backupVars
  BY <1>6, <1>7 DEF Codex, Write, Move, Becomes, Return, Stop, Begin, Enumerate, Scan,
     Store, Settle, Retry, Paginate, List, Recheck, backupVars
<1> QED BY <1>2, <1>3, <1>4, <1>5, <1>7 DEF BackupNext, BackupStep

\* What is stored stays stored.
LEMMA StoredStays ==
    ASSUME BackupInv, [BackupNext]_backupVars, NEW s, NEW v \in Vaults, Stored(s, v)
    PROVE  s \in 1..Len(snaps') /\ snaps'[s] = snaps[s] /\ Stored(s, v)'
BY PublishedStays DEF Stored

\* How a step of the schedule moves the backup: as one of the backup's own, or not at all.
LEMMA ScheduleBacksUp == TypeOK /\ [Next]_vars => [BackupNext]_backupVars
<1> SUFFICES ASSUME TypeOK, [Next]_vars PROVE [BackupNext]_backupVars
  OBVIOUS
<1>1. CASE CodexWrites \/ BackupGoesOn \/ BackUp \/ PersonEnds \/ Call \/ Returned
  <2>1. local.config.vault \in Vaults
    <3>1. local.config \in Configs
      BY DEF TypeOK, Processes
    <3> QED BY <3>1 DEF Configs
  <2> QED
    BY <1>1, <2>1, PersonFacts DEF CodexWrites, BackupGoesOn, BackUp, PersonEnds, Call,
       Returned, BackupNext
<1>2. CASE Fails \/ Unload \/ TurnOff \/ KickLocal \/ Restart
  BY <1>2 DEF Fails, Unload, TurnOff, KickLocal, Restart, Bootout, ReleaseRun, BackupNext
<1>3. ASSUME UNCHANGED backupVars PROVE [BackupNext]_backupVars
  BY <1>3
<1>4. CASE \/ Wake \/ Skip \/ Defer \/ Enter \/ Receipt \/ WriteFailed
           \/ SetUp \/ WritePlist \/ PlistFails \/ Bootstrap \/ PutBack \/ Forget \/ Unlink
           \/ HostedDefers \/ HostedStarts \/ HostedGoesOn
           \/ HostedChanges \/ HostedChangesOn \/ HostedFails
           \/ PrepareUpdate \/ Replace \/ Lapse \/ ResumeApp \/ KickHosted \/ UNCHANGED vars
  <2>1. UNCHANGED backupVars
    BY <1>4 DEF Wake, Skip, Defer, Enter, Receipt, WriteFailed, SetUp, WritePlist, PlistFails,
       Bootstrap, PutBack, Forget, Unlink, HostedDefers, HostedStarts, HostedGoesOn,
       HostedChanges, HostedChangesOn, HostedFails, PrepareUpdate, Replace, Lapse,
       ResumeApp, KickHosted, vars
  <2> QED BY <2>1, <1>3
<1> QED BY <1>1, <1>2, <1>4 DEF Next

\* How a step of the schedule moves the rotation: as one of its own, or not at all.
LEMMA ScheduleRotates == [Next]_vars => [RotationNext]_deviceVars
<1> SUFFICES ASSUME [Next]_vars PROVE [RotationNext]_deviceVars
  OBVIOUS
<1>1. CASE HostedStarts \/ HostedGoesOn \/ HostedChanges \/ HostedChangesOn \/ HostedFails
  BY <1>1 DEF HostedStarts, HostedGoesOn, HostedChanges, HostedChangesOn, HostedFails,
     RotationNext
<1>2. CASE KickHosted \/ Restart
  BY <1>2 DEF KickHosted, Restart, RotationNext
<1>3. CASE \/ CodexWrites \/ BackupGoesOn \/ BackUp \/ PersonEnds
           \/ Wake \/ Skip \/ Defer \/ Enter \/ Call \/ Returned \/ Receipt
           \/ Fails \/ WriteFailed
           \/ SetUp \/ WritePlist \/ PlistFails \/ Unload \/ Bootstrap \/ PutBack
           \/ TurnOff \/ Forget \/ Unlink \/ HostedDefers
           \/ PrepareUpdate \/ Replace \/ Lapse \/ ResumeApp \/ KickLocal \/ UNCHANGED vars
  <2>1. UNCHANGED deviceVars
    BY <1>3 DEF CodexWrites, BackupGoesOn, BackUp, PersonEnds, Wake, Skip, Defer, Enter,
       Call, Returned, Receipt, Fails, WriteFailed, SetUp, WritePlist, PlistFails, Unload, Bootstrap,
       PutBack, TurnOff, Forget, Unlink, HostedDefers, PrepareUpdate, Replace, Lapse,
       ResumeApp, KickLocal, vars
  <2> QED BY <2>1
<1> QED BY <1>1, <1>2, <1>3 DEF Next

\* What is not there is typed.
LEMMA ScheduleConstants ==
    /\ NoConfig \in Configs /\ ~NoConfig.there /\ NoConfig.at = 0
    /\ NoLast \in Results /\ NoLast.status = "none"
    /\ Off \in Processes /\ Off.pc = "off" /\ Off.config = NoConfig
    /\ NoSetup \in Changes /\ NoSetup.pc = "none" /\ NoSetup.config = NoConfig
    /\ NoGuard \in Guards /\ ~NoGuard.there /\ ~NoGuard.live
<1>1. NoConfig \in Configs /\ ~NoConfig.there /\ NoConfig.at = 0
  BY PersonFacts DEF NoConfig, Configs
<1> QED BY <1>1 DEF NoLast, Off, NoSetup, NoGuard, Results, Processes, Changes, Guards

\* A process that launchd starts has the configuration that is there.
LEMMA WokenFacts ==
    ASSUME TypeOK
    PROVE  /\ Woken \in Processes
           /\ Woken.pc \in {"off", "started"} /\ Woken.config \in {config, NoConfig}
           /\ Woken.pc # "off" => Woken.config = config /\ config.there
BY ScheduleConstants DEF Woken, TypeOK, Processes

\* A bound that is spent stays a bound.
LEMMA SpendFacts ==
    ASSUME TypeOK, NEW what \in {"edits", "snaps", "setups", "updates", "rotations", "deaths"},
           Spend(what)
    PROVE  budget' \in Bounds
<1>1. budget \in Bounds /\ budget[what] > 0 /\ budget' = [budget EXCEPT ![what] = @ - 1]
  BY DEF TypeOK, Spend, Bounds
<1>2. budget[what] - 1 \in Nat
  BY <1>1 DEF Bounds
<1> QED BY <1>1, <1>2 DEF Bounds

\* What a receipt says stays true while the copies of the configuration are
\* old ones, or are of a later setup.
LEMMA ReceiptsStay ==
    ASSUME BackupInv, ScheduleInv, TypeOK', [BackupNext]_backupVars, setups <= setups',
           local'.pc = "returned" => /\ local.pc = "returned"
                                     /\ local'.snapshot = local.snapshot
                                     /\ local'.config = local.config,
           last'.status = "completed" => last' = last,
           \A c \in {config', setup'.config, local'.config} :
              c \in {config, setup.config, local.config} \/ ~c.there \/ c.at > setups
    PROVE  ReceiptsInv'
<1>1. /\ setups \in Nat /\ setups' \in Nat /\ last.from \in Nat
      /\ local.config.vault \in Vaults
  BY DEF ScheduleInv, TypeOK, Configs, Results, Processes
<1>2. ASSUME local'.pc = "returned" PROVE Stored(local.snapshot, local.config.vault)'
  <2>1. Stored(local.snapshot, local.config.vault)
    BY <1>2 DEF ScheduleInv, ReceiptsInv
  <2>2. PICK s, v : s = local.snapshot /\ v = local.config.vault
    OBVIOUS
  <2>3. Stored(s, v)'
    BY <1>1, <2>1, <2>2, StoredStays
  <2> QED BY <1>2, <2>2, <2>3 DEF Stored
<1>3. ASSUME last'.status = "completed"
      PROVE  /\ Stored(last.snapshot, snaps[last.snapshot].vault)' /\ last'.from <= setups'
             /\ \A c \in {config', setup'.config, local'.config} :
                  c.there /\ c.at = last'.from => c.vault = snaps'[last'.snapshot].vault
  <2>1. /\ last' = last /\ Stored(last.snapshot, snaps[last.snapshot].vault)
        /\ last.from <= setups
    BY <1>3 DEF ScheduleInv, ReceiptsInv
  <2>2. PICK s, v : s = last.snapshot /\ v = snaps[s].vault /\ v \in Vaults
    BY <2>1, SnapshotFacts DEF Stored
  <2>3. Stored(s, v)' /\ snaps'[s] = snaps[s]
    BY <2>1, <2>2, StoredStays
  <2>4. ASSUME NEW c \in {config', setup'.config, local'.config}, c.there, c.at = last'.from
        PROVE  c.vault = snaps'[last'.snapshot].vault
    <3>1. c \in {config, setup.config, local.config}
      BY <1>1, <2>1, <2>4
    <3> QED BY <1>3, <2>1, <2>2, <2>3, <2>4, <3>1 DEF ScheduleInv, ReceiptsInv
  <2> QED BY <1>1, <2>1, <2>2, <2>3, <2>4 DEF Stored
<1> QED BY <1>2, <1>3 DEF ReceiptsInv, Stored

\* Only under the lock does a change of the account go on.
LEMMA HostedHolds ==
    ASSUME RotationStep \/ Finish \/ Arrive \/ Lose \/ Bind \/ Schedule \/ Load \/ RollBack
           \/ Unschedule \/ Abort
    PROVE  step = "free" => step' = "free"
BY DEF RotationStep, Finish, Arrive, Lose, Bind, Schedule, Load, RollBack, Unschedule,
   Abort, Resume, NotDue, Create, Journal, ResolveNew, ResolveOld, Send, Confirm, Configure,
   Connect, Clear, Frees

\* A scheduled process that ends releases its own run, and no other.
LEMMA ReleaseFacts ==
    ASSUME ReleaseRun
    PROVE  /\ UNCHANGED <<src, vault, snaps>> /\ run' \in {run, NoRun}
           /\ run'.by # Agent /\ (run.by # Agent => run' = run)
BY PersonFacts DEF ReleaseRun, Stop, backupVars

\* What a step of a backup does to its place.
LEMMA CodexFacts ==
    ASSUME BackupInv, Codex
    PROVE  /\ UNCHANGED <<vault, snaps>> /\ run'.by = run.by /\ run'.vault = run.vault
           /\ run'.phase = run.phase
BY DEF Codex, Write, Move, Becomes, BackupInv, BackupTypeOK

\* A step of a backup publishes in order.
LEMMA StepFacts ==
    ASSUME BackupInv, BackupStep
    PROVE  /\ run'.by = run.by /\ run'.vault = run.vault
           /\ run'.phase \in {"sealed", "referenced", "published"} =>
                \/ Seal /\ run'.phase = "sealed"
                \/ PublishReference /\ run.phase = "sealed" /\ run'.phase = "referenced"
                \/ PublishLatest /\ run.phase = "referenced" /\ run'.phase = "published"
BY ZenonT(30) DEF BackupStep, Enumerate, Prepare, Scan, Store, Settle, Retry, Paginate,
   List, Recheck, Seal, PublishReference, PublishLatest, BackupInv, BackupTypeOK

\* A step of a backup keeps what the scheduled process knows of its run.
LEMMA StepProgress ==
    ASSUME BackupInv, BackupStep, ProgressInv, UNCHANGED local
    PROVE  ProgressInv'
<1>1. /\ Len(snaps) \in Nat /\ run.vault \in Vaults
      /\ vault \in [Vaults -> [made : BOOLEAN, refs : SUBSET (1..MaxSnapshots),
                               latest : 0..MaxSnapshots]]
      /\ BackupStep => [BackupNext]_backupVars
  BY DEF BackupInv, BackupTypeOK, BackupNext
<1>2. run'.by = run.by /\ run'.vault = run.vault
  BY StepFacts
<1>3. vault[run.vault].made => vault'[run.vault].made
  BY <1>1, PublishedStays
<1>4. CASE Seal
  <2>1. snaps'[Len(snaps')].vault = run.vault /\ run'.phase = "sealed"
    BY <1>4, SealFacts, <1>1 DEF Sealed, Seal, BackupInv, BackupTypeOK
  <2> QED BY <1>2, <1>3, <2>1 DEF ProgressInv
<1>5. CASE PublishReference
  <2>1. /\ snaps' = snaps /\ run'.phase = "referenced" /\ run.phase = "sealed"
        /\ Len(snaps) \in vault'[run.vault].refs
    BY <1>5, <1>1 DEF PublishReference, BackupInv, BackupTypeOK
  <2> QED BY <1>2, <1>3, <2>1 DEF ProgressInv
<1>6. CASE PublishLatest
  <2>1. /\ snaps' = snaps /\ run'.phase = "published" /\ run.phase = "referenced"
        /\ vault'[run.vault].latest = Len(snaps)
        /\ vault'[run.vault].refs = vault[run.vault].refs
    BY <1>6, <1>1 DEF PublishLatest, BackupInv, BackupTypeOK
  <2> QED BY <1>1, <1>2, <1>3, <2>1 DEF ProgressInv
<1>7. CASE ~Seal /\ ~PublishReference /\ ~PublishLatest
  <2>1. run'.phase \notin {"sealed", "referenced", "published"}
    BY <1>7, StepFacts
  <2> QED BY <1>2, <1>3, <2>1 DEF ProgressInv
<1> QED BY <1>4, <1>5, <1>6, <1>7

\* One lemma for each action of the schedule.
LEMMA CodexWritesInv == BackupInv /\ ScheduleInv /\ CodexWrites => ScheduleInv'
<1> SUFFICES ASSUME BackupInv, ScheduleInv, CodexWrites PROVE ScheduleInv'
  OBVIOUS
<1>1. [BackupNext]_backupVars
  BY ScheduleBacksUp DEF Next, ScheduleInv
<1>2. budget' \in Bounds
  BY SpendFacts DEF CodexWrites, ScheduleInv, TypeOK
<1>3. TypeOK'
  BY <1>2, ScheduleConstants, ScheduleAssumption DEF CodexWrites, ScheduleInv, TypeOK,
     guardVars, scheduleVars, Apps, Guards
<1>4. ProgressInv'
  BY CodexFacts DEF CodexWrites, scheduleVars, ScheduleInv, ProgressInv
<1>5. ConfigInv'
  BY <1>3, ScheduleConstants DEF CodexWrites, ScheduleInv, TypeOK, Configs, Processes,
     Changes, ConfigInv, scheduleVars
<1>6. ReceiptsInv'
  BY <1>1, <1>3, ReceiptsStay, ScheduleConstants DEF CodexWrites, ScheduleInv, TypeOK,
     Configs, Processes, Changes, Results, scheduleVars
<1>7. GuardInv'
  BY <1>3, ScheduleConstants DEF CodexWrites, ScheduleInv, TypeOK, ProgressInv, GuardInv, Guarded, Unlocked, LocalWorks, HostedWorks, guardVars, scheduleVars,
     deviceVars, Processes, Guards
<1> QED BY <1>3, <1>4, <1>5, <1>6, <1>7 DEF ScheduleInv

LEMMA BackupGoesOnInv == BackupInv /\ ScheduleInv /\ BackupGoesOn => ScheduleInv'
<1> SUFFICES ASSUME BackupInv, ScheduleInv, BackupGoesOn PROVE ScheduleInv'
  OBVIOUS
<1>1. [BackupNext]_backupVars
  BY ScheduleBacksUp DEF Next, ScheduleInv
<1>2. TypeOK'
  BY ScheduleConstants, ScheduleAssumption DEF BackupGoesOn, ScheduleInv, TypeOK, guardVars,
     scheduleVars, Apps, Guards
<1>3. ProgressInv'
  BY StepProgress DEF BackupGoesOn, scheduleVars, ScheduleInv
<1>4. ConfigInv'
  BY <1>2, ScheduleConstants DEF BackupGoesOn, ScheduleInv, TypeOK, Configs, Processes,
     Changes, ConfigInv, scheduleVars
<1>5. ReceiptsInv'
  BY <1>1, <1>2, ReceiptsStay, ScheduleConstants DEF BackupGoesOn, ScheduleInv, TypeOK,
     Configs, Processes, Changes, Results, scheduleVars
<1>6. GuardInv'
  BY <1>2, ScheduleConstants DEF BackupGoesOn, ScheduleInv, TypeOK, ProgressInv, GuardInv, Guarded, Unlocked, LocalWorks, HostedWorks, guardVars, scheduleVars,
     deviceVars, Processes, Guards
<1> QED BY <1>2, <1>3, <1>4, <1>5, <1>6 DEF ScheduleInv

LEMMA BackUpInv == BackupInv /\ ScheduleInv /\ BackUp => ScheduleInv'
<1> SUFFICES ASSUME BackupInv, ScheduleInv, BackUp PROVE ScheduleInv'
  OBVIOUS
<1>1. [BackupNext]_backupVars
  BY ScheduleBacksUp DEF Next, ScheduleInv
<1>2. budget' \in Bounds
  BY SpendFacts DEF BackUp, ScheduleInv, TypeOK
<1>3. TypeOK'
  BY <1>2, ScheduleConstants, ScheduleAssumption DEF BackUp, ScheduleInv, TypeOK, guardVars,
     scheduleVars, Apps, Guards
<1>4. ProgressInv'
  BY <1>2, ScheduleConstants, <1>3, PersonFacts, SnapshotFacts DEF BackUp, ScheduleInv,
     TypeOK, ProgressInv, scheduleVars, Begin, BackupInv, BackupTypeOK, Processes
<1>5. ConfigInv'
  BY <1>3, ScheduleConstants DEF BackUp, ScheduleInv, TypeOK, Configs, Processes, Changes,
     ConfigInv, scheduleVars
<1>6. ReceiptsInv'
  BY <1>1, <1>3, ReceiptsStay, ScheduleConstants DEF BackUp, ScheduleInv, TypeOK, Configs,
     Processes, Changes, Results, scheduleVars
<1>7. GuardInv'
  BY <1>3, ScheduleConstants DEF BackUp, ScheduleInv, TypeOK, ProgressInv, GuardInv, Guarded, Unlocked, LocalWorks, HostedWorks, guardVars, scheduleVars,
     deviceVars, Processes, Guards
<1> QED BY <1>3, <1>4, <1>5, <1>6, <1>7 DEF ScheduleInv

LEMMA PersonEndsInv == BackupInv /\ ScheduleInv /\ PersonEnds => ScheduleInv'
<1> SUFFICES ASSUME BackupInv, ScheduleInv, PersonEnds PROVE ScheduleInv'
  OBVIOUS
<1>1. [BackupNext]_backupVars
  BY ScheduleBacksUp DEF Next, ScheduleInv
<1>2. TypeOK'
  BY ScheduleConstants, ScheduleAssumption DEF PersonEnds, ScheduleInv, TypeOK, guardVars,
     scheduleVars, Apps, Guards
<1>3. ProgressInv'
  BY ScheduleConstants, <1>2, PersonFacts, SnapshotFacts DEF PersonEnds, ScheduleInv,
     TypeOK, ProgressInv, scheduleVars, Return, Stop, BackupInv, BackupTypeOK, Processes
<1>4. ConfigInv'
  BY <1>2, ScheduleConstants DEF PersonEnds, ScheduleInv, TypeOK, Configs, Processes,
     Changes, ConfigInv, scheduleVars
<1>5. ReceiptsInv'
  BY <1>1, <1>2, ReceiptsStay, ScheduleConstants DEF PersonEnds, ScheduleInv, TypeOK,
     Configs, Processes, Changes, Results, scheduleVars
<1>6. GuardInv'
  BY <1>2, ScheduleConstants DEF PersonEnds, ScheduleInv, TypeOK, ProgressInv, GuardInv, Guarded, Unlocked, LocalWorks, HostedWorks, guardVars, scheduleVars,
     deviceVars, Processes, Guards
<1> QED BY <1>2, <1>3, <1>4, <1>5, <1>6 DEF ScheduleInv

LEMMA WakeInv == BackupInv /\ ScheduleInv /\ Wake => ScheduleInv'
<1> SUFFICES ASSUME BackupInv, ScheduleInv, Wake PROVE ScheduleInv'
  OBVIOUS
<1>1. [BackupNext]_backupVars
  BY ScheduleBacksUp DEF Next, ScheduleInv
<1>2. local' \in Processes
  BY ScheduleConstants, ScheduleAssumption, SnapshotFacts, WokenFacts DEF Wake, ScheduleInv,
     TypeOK, guardVars, Processes
<1>3. TypeOK'
  BY <1>2, ScheduleConstants, ScheduleAssumption DEF Wake, ScheduleInv, TypeOK, guardVars,
     Apps, Guards
<1>4. ProgressInv'
  BY <1>2, ScheduleConstants, <1>3, PersonFacts, SnapshotFacts, WokenFacts DEF Wake,
     ScheduleInv, TypeOK, ProgressInv, backupVars, BackupInv, BackupTypeOK, Processes
<1>5. ConfigInv'
  BY <1>3, ScheduleConstants, WokenFacts DEF Wake, ScheduleInv, TypeOK, Configs, Processes,
     Changes, ConfigInv
<1>6. ReceiptsInv'
  BY <1>1, <1>3, ReceiptsStay, ScheduleConstants, WokenFacts DEF Wake, ScheduleInv, TypeOK,
     Configs, Processes, Changes, Results
<1>7. GuardInv'
  BY <1>3, ScheduleConstants, WokenFacts DEF Wake, ScheduleInv, TypeOK, ProgressInv,
     GuardInv, Guarded, Unlocked, LocalWorks, HostedWorks, guardVars,
     deviceVars, Processes, Guards
<1> QED BY <1>3, <1>4, <1>5, <1>6, <1>7 DEF ScheduleInv

LEMMA SkipInv == BackupInv /\ ScheduleInv /\ Skip => ScheduleInv'
<1> SUFFICES ASSUME BackupInv, ScheduleInv, Skip PROVE ScheduleInv'
  OBVIOUS
<1>1. [BackupNext]_backupVars
  BY ScheduleBacksUp DEF Next, ScheduleInv
<1>2. local' \in Processes
  BY ScheduleConstants, ScheduleAssumption, SnapshotFacts DEF Skip, MaySkip, Unlocked,
     ScheduleInv, TypeOK, guardVars, Processes
<1>3. TypeOK'
  BY <1>2, ScheduleConstants, ScheduleAssumption DEF Skip, MaySkip, Unlocked, ScheduleInv,
     TypeOK, guardVars, Apps, Guards
<1>4. ProgressInv'
  BY <1>2, ScheduleConstants, <1>3, PersonFacts, SnapshotFacts DEF Skip, MaySkip, Unlocked,
     ScheduleInv, TypeOK, ProgressInv, backupVars, LocalWorks, BackupInv, BackupTypeOK,
     Processes
<1>5. ConfigInv'
  BY <1>3, ScheduleConstants DEF Skip, MaySkip, Unlocked, ScheduleInv, TypeOK, Configs,
     Processes, Changes, ConfigInv
<1>6. ReceiptsInv'
  BY <1>1, <1>3, ReceiptsStay, ScheduleConstants DEF Skip, MaySkip, Unlocked, ScheduleInv,
     TypeOK, Configs, Processes, Changes, Results
<1>7. GuardInv'
  BY <1>3, ScheduleConstants DEF Skip, MaySkip, Unlocked, ScheduleInv, TypeOK, ProgressInv,
     GuardInv, Guarded, LocalWorks, HostedWorks, guardVars, deviceVars,
     Processes, Guards
<1> QED BY <1>3, <1>4, <1>5, <1>6, <1>7 DEF ScheduleInv

LEMMA DeferInv == BackupInv /\ ScheduleInv /\ Defer => ScheduleInv'
<1> SUFFICES ASSUME BackupInv, ScheduleInv, Defer PROVE ScheduleInv'
  OBVIOUS
<1>1. [BackupNext]_backupVars
  BY ScheduleBacksUp DEF Next, ScheduleInv
<1>2. local' \in Processes
  BY ScheduleConstants, ScheduleAssumption, SnapshotFacts DEF Defer, Unlocked, Guarded,
     ScheduleInv, TypeOK, Processes
<1>3. last' \in Results
  BY ScheduleConstants, ScheduleAssumption, SnapshotFacts DEF Defer, Unlocked, Guarded,
     ScheduleInv, TypeOK, Results
<1>4. marker' \in Guards
  BY ScheduleConstants, ScheduleAssumption, SnapshotFacts DEF Defer, Unlocked, Guarded,
     ScheduleInv, TypeOK, Guards
<1>5. TypeOK'
  BY <1>2, <1>3, <1>4, ScheduleConstants, ScheduleAssumption DEF Defer, Unlocked, Guarded,
     ScheduleInv, TypeOK, Apps, Guards
<1>6. ProgressInv'
  BY <1>2, <1>3, <1>4, ScheduleConstants, <1>5, PersonFacts, SnapshotFacts DEF Defer,
     Unlocked, Guarded, ScheduleInv, TypeOK, ProgressInv, backupVars, LocalWorks, BackupInv,
     BackupTypeOK, Processes
<1>7. ConfigInv'
  BY <1>5, ScheduleConstants DEF Defer, Unlocked, Guarded, ScheduleInv, TypeOK, Configs,
     Processes, Changes, ConfigInv
<1>8. ReceiptsInv'
  BY <1>1, <1>5, ReceiptsStay, ScheduleConstants DEF Defer, Unlocked, Guarded, ScheduleInv,
     TypeOK, Configs, Processes, Changes, Results
<1>9. GuardInv'
  BY <1>5, ScheduleConstants DEF Defer, Unlocked, Guarded, ScheduleInv, TypeOK, ProgressInv,
     GuardInv, LocalWorks, HostedWorks, deviceVars, Processes, Guards
<1> QED BY <1>5, <1>6, <1>7, <1>8, <1>9 DEF ScheduleInv

LEMMA EnterInv == BackupInv /\ ScheduleInv /\ Enter => ScheduleInv'
<1> SUFFICES ASSUME BackupInv, ScheduleInv, Enter PROVE ScheduleInv'
  OBVIOUS
<1>1. [BackupNext]_backupVars
  BY ScheduleBacksUp DEF Next, ScheduleInv
<1>2. local' \in Processes
  BY ScheduleConstants, ScheduleAssumption, SnapshotFacts DEF Enter, Unlocked, Guarded,
     ScheduleInv, TypeOK, Processes
<1>3. last' \in Results
  BY ScheduleConstants, ScheduleAssumption, SnapshotFacts DEF Enter, Unlocked, Guarded,
     ScheduleInv, TypeOK, Results
<1>4. marker' \in Guards
  BY ScheduleConstants, ScheduleAssumption, SnapshotFacts DEF Enter, Unlocked, Guarded,
     ScheduleInv, TypeOK, Guards
<1>5. TypeOK'
  BY <1>2, <1>3, <1>4, ScheduleConstants, ScheduleAssumption DEF Enter, Unlocked, Guarded,
     ScheduleInv, TypeOK, Apps, Guards
<1>6. ProgressInv'
  BY <1>2, <1>3, <1>4, ScheduleConstants, <1>5, PersonFacts, SnapshotFacts DEF Enter,
     Unlocked, Guarded, ScheduleInv, TypeOK, ProgressInv, backupVars, LocalWorks, BackupInv,
     BackupTypeOK, Processes
<1>7. ConfigInv'
  BY <1>5, ScheduleConstants DEF Enter, Unlocked, Guarded, ScheduleInv, TypeOK, Configs,
     Processes, Changes, ConfigInv
<1>8. ReceiptsInv'
  BY <1>1, <1>5, ReceiptsStay, ScheduleConstants DEF Enter, Unlocked, Guarded, ScheduleInv,
     TypeOK, Configs, Processes, Changes, Results
<1>9. GuardInv'
  BY <1>5, ScheduleConstants DEF Enter, Unlocked, Guarded, ScheduleInv, TypeOK, ProgressInv,
     GuardInv, LocalWorks, HostedWorks, deviceVars, Processes, Guards
<1> QED BY <1>5, <1>6, <1>7, <1>8, <1>9 DEF ScheduleInv

LEMMA CallInv == BackupInv /\ ScheduleInv /\ Call => ScheduleInv'
<1> SUFFICES ASSUME BackupInv, ScheduleInv, Call PROVE ScheduleInv'
  OBVIOUS
<1>1. [BackupNext]_backupVars
  BY ScheduleBacksUp DEF Next, ScheduleInv
<1>2. local' \in Processes
  BY ScheduleConstants, ScheduleAssumption, SnapshotFacts DEF Call, ScheduleInv, TypeOK,
     guardVars, Processes
<1>3. budget' \in Bounds
  BY SpendFacts DEF Call, ScheduleInv, TypeOK
<1>4. TypeOK'
  BY <1>2, <1>3, ScheduleConstants, ScheduleAssumption DEF Call, ScheduleInv, TypeOK,
     guardVars, Apps, Guards
<1>5. ProgressInv'
  BY <1>2, <1>3, ScheduleConstants, <1>4, PersonFacts, SnapshotFacts DEF Call, ScheduleInv,
     TypeOK, ProgressInv, Begin, BackupInv, BackupTypeOK, Processes
<1>6. ConfigInv'
  BY <1>4, ScheduleConstants DEF Call, ScheduleInv, TypeOK, Configs, Processes, Changes,
     ConfigInv
<1>7. ReceiptsInv'
  BY <1>1, <1>4, ReceiptsStay, ScheduleConstants DEF Call, ScheduleInv, TypeOK, Configs,
     Processes, Changes, Results
<1>8. GuardInv'
  BY <1>4, ScheduleConstants DEF Call, ScheduleInv, TypeOK, ProgressInv, GuardInv, Guarded, Unlocked, LocalWorks, HostedWorks, guardVars, deviceVars,
     Processes, Guards
<1> QED BY <1>4, <1>5, <1>6, <1>7, <1>8 DEF ScheduleInv

LEMMA ReturnedInv == BackupInv /\ ScheduleInv /\ Returned => ScheduleInv'
<1> SUFFICES ASSUME BackupInv, ScheduleInv, Returned PROVE ScheduleInv'
  OBVIOUS
<1>1. [BackupNext]_backupVars
  BY ScheduleBacksUp DEF Next, ScheduleInv
<1>2. local' \in Processes
  BY ScheduleConstants, ScheduleAssumption, SnapshotFacts DEF Returned, ScheduleInv, TypeOK,
     guardVars, Processes
<1>3. TypeOK'
  BY <1>2, ScheduleConstants, ScheduleAssumption DEF Returned, ScheduleInv, TypeOK,
     guardVars, Apps, Guards
<1>4. ProgressInv'
  BY <1>2, ScheduleConstants, <1>3, PersonFacts, SnapshotFacts DEF Returned, ScheduleInv,
     TypeOK, ProgressInv, Return, BackupInv, BackupTypeOK, Processes
<1>5. /\ local'.pc = "returned" /\ local'.config = local.config /\ local'.snapshot = Len(snaps)
      /\ UNCHANGED <<vault, snaps>> /\ run.by = Agent /\ run.phase = "published"
      /\ last' = last /\ config' = config /\ setup' = setup /\ setups' = setups
  BY DEF Returned, Return, ScheduleInv, TypeOK, Processes
<1>6. ConfigInv'
  BY <1>5 DEF ScheduleInv, ProgressInv, ConfigInv
<1>7. ReceiptsInv'
  <2>1. Len(snaps) \in 1..Len(snaps)
    BY <1>5, SnapshotFacts DEF BackupInv, TurnInv
  <2>2. Stored(Len(snaps), local.config.vault)
    BY <1>5, <2>1 DEF ScheduleInv, ProgressInv, Stored
  <2> QED BY <1>5, <2>2 DEF ScheduleInv, ReceiptsInv, Stored
<1>8. GuardInv'
  BY <1>3, ScheduleConstants DEF Returned, ScheduleInv, TypeOK, ProgressInv, GuardInv, Guarded, Unlocked, LocalWorks, HostedWorks, guardVars, deviceVars,
     Processes, Guards
<1> QED BY <1>3, <1>4, <1>6, <1>7, <1>8 DEF ScheduleInv

LEMMA ReceiptInv == BackupInv /\ ScheduleInv /\ Receipt => ScheduleInv'
<1> SUFFICES ASSUME BackupInv, ScheduleInv, Receipt PROVE ScheduleInv'
  OBVIOUS
<1>1. [BackupNext]_backupVars
  BY ScheduleBacksUp DEF Next, ScheduleInv
<1>2. local' \in Processes
  BY ScheduleConstants, ScheduleAssumption, SnapshotFacts DEF Receipt, ScheduleInv, TypeOK,
     guardVars, Processes
<1>3. last' \in Results
  <2>1. local.snapshot \in Nat /\ local.config \in Configs /\ setups \in Nat
    BY DEF ScheduleInv, TypeOK, Processes
  <2>2. local.config.at \in Nat
    BY <2>1 DEF Configs
  <2> QED BY <2>1, <2>2 DEF Receipt, Results
<1>4. TypeOK'
  BY <1>2, <1>3, ScheduleConstants, ScheduleAssumption DEF Receipt, ScheduleInv, TypeOK,
     guardVars, Apps, Guards
<1>5. ProgressInv'
  BY <1>2, <1>3, ScheduleConstants, <1>4, PersonFacts, SnapshotFacts DEF Receipt,
     ScheduleInv, TypeOK, ProgressInv, backupVars, BackupInv, BackupTypeOK, Processes
<1>6. ConfigInv'
  BY <1>4, ScheduleConstants DEF Receipt, ScheduleInv, TypeOK, Configs, Processes, Changes,
     ConfigInv
<1>7. ReceiptsInv'
  <2>1. /\ last'.snapshot = local.snapshot /\ last'.from = local.config.at /\ local' = Off
        /\ config' = config /\ setup' = setup /\ setups' = setups /\ UNCHANGED <<vault, snaps>>
        /\ local.pc = "returned"
    BY DEF Receipt, backupVars
  <2>2. Stored(local.snapshot, local.config.vault)
    BY <2>1 DEF ScheduleInv, ReceiptsInv
  <2>3. /\ local.config.at <= setups /\ local.config.there
        /\ \A c \in {config, setup.config, local.config} :
             c.there /\ c.at = local.config.at => c.vault = local.config.vault
    BY <2>1 DEF ScheduleInv, ConfigInv
  <2> QED BY <2>1, <2>2, <2>3, ScheduleConstants DEF ReceiptsInv, Stored
<1>8. GuardInv'
  BY <1>4, ScheduleConstants DEF Receipt, ScheduleInv, TypeOK, ProgressInv, GuardInv, Guarded, Unlocked, LocalWorks, HostedWorks, guardVars, deviceVars,
     Processes, Guards
<1> QED BY <1>4, <1>5, <1>6, <1>7, <1>8 DEF ScheduleInv

LEMMA FailsInv == BackupInv /\ ScheduleInv /\ Fails => ScheduleInv'
<1> SUFFICES ASSUME BackupInv, ScheduleInv, Fails PROVE ScheduleInv'
  OBVIOUS
<1>1. [BackupNext]_backupVars
  BY ScheduleBacksUp DEF Next, ScheduleInv
<1>2. local' \in Processes
  BY ScheduleConstants, ScheduleAssumption, SnapshotFacts DEF Fails, LocalWorks,
     ScheduleInv, TypeOK, guardVars, Processes
<1>3. TypeOK'
  BY <1>2, ScheduleConstants, ScheduleAssumption DEF Fails, LocalWorks, ScheduleInv, TypeOK,
     guardVars, Apps, Guards
<1>4. ProgressInv'
  BY <1>2, ScheduleConstants, ReleaseFacts, PersonFacts DEF Fails, LocalWorks, ScheduleInv,
     TypeOK, ProgressInv, Processes
<1>5. ConfigInv'
  BY <1>3, ScheduleConstants DEF Fails, LocalWorks, ScheduleInv, TypeOK, Configs, Processes,
     Changes, ConfigInv
<1>6. ReceiptsInv'
  BY <1>1, <1>3, ReceiptsStay, ScheduleConstants DEF Fails, LocalWorks, ScheduleInv, TypeOK,
     Configs, Processes, Changes, Results
<1>7. GuardInv'
  BY <1>3, ScheduleConstants DEF Fails, LocalWorks, ScheduleInv, TypeOK, ProgressInv,
     GuardInv, Guarded, Unlocked, HostedWorks, guardVars, deviceVars,
     Processes, Guards
<1> QED BY <1>3, <1>4, <1>5, <1>6, <1>7 DEF ScheduleInv

LEMMA WriteFailedInv == BackupInv /\ ScheduleInv /\ WriteFailed => ScheduleInv'
<1> SUFFICES ASSUME BackupInv, ScheduleInv, WriteFailed PROVE ScheduleInv'
  OBVIOUS
<1>1. [BackupNext]_backupVars
  BY ScheduleBacksUp DEF Next, ScheduleInv
<1>2. local' \in Processes
  BY ScheduleConstants, ScheduleAssumption, SnapshotFacts DEF WriteFailed, ScheduleInv,
     TypeOK, guardVars, Processes
<1>3. last' \in Results
  BY ScheduleConstants, ScheduleAssumption, SnapshotFacts DEF WriteFailed, ScheduleInv,
     TypeOK, guardVars, Results
<1>4. TypeOK'
  BY <1>2, <1>3, ScheduleConstants, ScheduleAssumption DEF WriteFailed, ScheduleInv, TypeOK,
     guardVars, Apps, Guards
<1>5. ProgressInv'
  BY <1>2, <1>3, ScheduleConstants, <1>4, PersonFacts, SnapshotFacts DEF WriteFailed,
     ScheduleInv, TypeOK, ProgressInv, backupVars, BackupInv, BackupTypeOK, Processes
<1>6. ConfigInv'
  BY <1>4, ScheduleConstants DEF WriteFailed, ScheduleInv, TypeOK, Configs, Processes,
     Changes, ConfigInv
<1>7. ReceiptsInv'
  BY <1>1, <1>4, ReceiptsStay, ScheduleConstants DEF WriteFailed, ScheduleInv, TypeOK,
     Configs, Processes, Changes, Results
<1>8. GuardInv'
  BY <1>4, ScheduleConstants DEF WriteFailed, ScheduleInv, TypeOK, ProgressInv, GuardInv, Guarded, Unlocked, LocalWorks, HostedWorks, guardVars, deviceVars,
     Processes, Guards
<1> QED BY <1>4, <1>5, <1>6, <1>7, <1>8 DEF ScheduleInv

LEMMA SetUpInv == BackupInv /\ ScheduleInv /\ SetUp => ScheduleInv'
<1> SUFFICES ASSUME BackupInv, ScheduleInv, SetUp PROVE ScheduleInv'
  OBVIOUS
<1>1. [BackupNext]_backupVars
  BY ScheduleBacksUp DEF Next, ScheduleInv
<1>2. setup' \in Changes
  BY ScheduleConstants, ScheduleAssumption, SnapshotFacts DEF SetUp, ScheduleInv, TypeOK,
     guardVars, Changes
<1>3. config' \in Configs
  BY ScheduleConstants, ScheduleAssumption, SnapshotFacts DEF SetUp, ScheduleInv, TypeOK,
     guardVars, Configs
<1>4. budget' \in Bounds
  BY SpendFacts DEF SetUp, ScheduleInv, TypeOK
<1>5. TypeOK'
  BY <1>2, <1>3, <1>4, ScheduleConstants, ScheduleAssumption DEF SetUp, ScheduleInv, TypeOK,
     guardVars, Apps, Guards
<1>6. ProgressInv'
  BY <1>2, <1>3, <1>4, ScheduleConstants, <1>5, PersonFacts, SnapshotFacts DEF SetUp,
     ScheduleInv, TypeOK, ProgressInv, backupVars, BackupInv, BackupTypeOK, Processes
<1>7. ConfigInv'
  BY <1>5, ScheduleConstants DEF SetUp, ScheduleInv, TypeOK, Configs, Processes, Changes,
     ConfigInv
<1>8. ReceiptsInv'
  BY <1>1, <1>5, ReceiptsStay, ScheduleConstants DEF SetUp, ScheduleInv, TypeOK, Configs,
     Processes, Changes, Results
<1>9. GuardInv'
  BY <1>5, ScheduleConstants DEF SetUp, ScheduleInv, TypeOK, ProgressInv, GuardInv, Guarded, Unlocked, LocalWorks, HostedWorks, guardVars, deviceVars,
     Processes, Guards
<1> QED BY <1>5, <1>6, <1>7, <1>8, <1>9 DEF ScheduleInv

LEMMA WritePlistInv == BackupInv /\ ScheduleInv /\ WritePlist => ScheduleInv'
<1> SUFFICES ASSUME BackupInv, ScheduleInv, WritePlist PROVE ScheduleInv'
  OBVIOUS
<1>1. [BackupNext]_backupVars
  BY ScheduleBacksUp DEF Next, ScheduleInv
<1>2. setup' \in Changes
  BY ScheduleConstants, ScheduleAssumption, SnapshotFacts DEF WritePlist, ScheduleInv,
     TypeOK, guardVars, Changes
<1>3. TypeOK'
  BY <1>2, ScheduleConstants, ScheduleAssumption DEF WritePlist, ScheduleInv, TypeOK,
     guardVars, Apps, Guards
<1>4. ProgressInv'
  BY <1>2, ScheduleConstants, <1>3, PersonFacts, SnapshotFacts DEF WritePlist, ScheduleInv,
     TypeOK, ProgressInv, backupVars, BackupInv, BackupTypeOK, Processes
<1>5. ConfigInv'
  BY <1>3, ScheduleConstants DEF WritePlist, ScheduleInv, TypeOK, Configs, Processes,
     Changes, ConfigInv
<1>6. ReceiptsInv'
  BY <1>1, <1>3, ReceiptsStay, ScheduleConstants DEF WritePlist, ScheduleInv, TypeOK,
     Configs, Processes, Changes, Results
<1>7. GuardInv'
  BY <1>3, ScheduleConstants DEF WritePlist, ScheduleInv, TypeOK, ProgressInv, GuardInv, Guarded, Unlocked, LocalWorks, HostedWorks, guardVars, deviceVars,
     Processes, Guards
<1> QED BY <1>3, <1>4, <1>5, <1>6, <1>7 DEF ScheduleInv

LEMMA PlistFailsInv == BackupInv /\ ScheduleInv /\ PlistFails => ScheduleInv'
<1> SUFFICES ASSUME BackupInv, ScheduleInv, PlistFails PROVE ScheduleInv'
  OBVIOUS
<1>1. [BackupNext]_backupVars
  BY ScheduleBacksUp DEF Next, ScheduleInv
<1>2. setup' \in Changes
  BY ScheduleConstants, ScheduleAssumption, SnapshotFacts DEF PlistFails, ScheduleInv,
     TypeOK, guardVars, Changes
<1>3. TypeOK'
  BY <1>2, ScheduleConstants, ScheduleAssumption DEF PlistFails, ScheduleInv, TypeOK,
     guardVars, Apps, Guards
<1>4. ProgressInv'
  BY <1>2, ScheduleConstants, <1>3, PersonFacts, SnapshotFacts DEF PlistFails, ScheduleInv,
     TypeOK, ProgressInv, backupVars, BackupInv, BackupTypeOK, Processes
<1>5. ConfigInv'
  BY <1>3, ScheduleConstants DEF PlistFails, ScheduleInv, TypeOK, Configs, Processes,
     Changes, ConfigInv
<1>6. ReceiptsInv'
  BY <1>1, <1>3, ReceiptsStay, ScheduleConstants DEF PlistFails, ScheduleInv, TypeOK,
     Configs, Processes, Changes, Results
<1>7. GuardInv'
  BY <1>3, ScheduleConstants DEF PlistFails, ScheduleInv, TypeOK, ProgressInv, GuardInv, Guarded, Unlocked, LocalWorks, HostedWorks, guardVars, deviceVars,
     Processes, Guards
<1> QED BY <1>3, <1>4, <1>5, <1>6, <1>7 DEF ScheduleInv

LEMMA UnloadInv == BackupInv /\ ScheduleInv /\ Unload => ScheduleInv'
<1> SUFFICES ASSUME BackupInv, ScheduleInv, Unload PROVE ScheduleInv'
  OBVIOUS
<1>1. [BackupNext]_backupVars
  BY ScheduleBacksUp DEF Next, ScheduleInv
<1>2. local' \in Processes
  BY ScheduleConstants, ScheduleAssumption, SnapshotFacts DEF Unload, Bootout, ScheduleInv,
     TypeOK, guardVars, Processes
<1>3. setup' \in Changes
  BY ScheduleConstants, ScheduleAssumption, SnapshotFacts DEF Unload, Bootout, ScheduleInv,
     TypeOK, guardVars, Changes
<1>4. TypeOK'
  BY <1>2, <1>3, ScheduleConstants, ScheduleAssumption DEF Unload, Bootout, ScheduleInv,
     TypeOK, guardVars, Apps, Guards
<1>5. ProgressInv'
  BY <1>2, <1>3, ScheduleConstants, ReleaseFacts, PersonFacts DEF Unload, Bootout,
     ScheduleInv, TypeOK, ProgressInv, Processes
<1>6. ConfigInv'
  BY <1>4, ScheduleConstants DEF Unload, Bootout, ScheduleInv, TypeOK, Configs, Processes,
     Changes, ConfigInv
<1>7. ReceiptsInv'
  BY <1>1, <1>4, ReceiptsStay, ScheduleConstants DEF Unload, Bootout, ScheduleInv, TypeOK,
     Configs, Processes, Changes, Results
<1>8. GuardInv'
  BY <1>4, ScheduleConstants DEF Unload, Bootout, ScheduleInv, TypeOK, ProgressInv,
     GuardInv, Guarded, Unlocked, LocalWorks, HostedWorks, guardVars,
     deviceVars, Processes, Guards
<1> QED BY <1>4, <1>5, <1>6, <1>7, <1>8 DEF ScheduleInv

LEMMA BootstrapInv == BackupInv /\ ScheduleInv /\ Bootstrap => ScheduleInv'
<1> SUFFICES ASSUME BackupInv, ScheduleInv, Bootstrap PROVE ScheduleInv'
  OBVIOUS
<1>1. [BackupNext]_backupVars
  BY ScheduleBacksUp DEF Next, ScheduleInv
<1>2. setup' \in Changes
  BY ScheduleConstants, ScheduleAssumption, SnapshotFacts DEF Bootstrap, ScheduleInv,
     TypeOK, guardVars, Changes
<1>3. TypeOK'
  BY <1>2, ScheduleConstants, ScheduleAssumption DEF Bootstrap, ScheduleInv, TypeOK,
     guardVars, Apps, Guards
<1>4. ProgressInv'
  BY <1>2, ScheduleConstants, <1>3, PersonFacts, SnapshotFacts DEF Bootstrap, ScheduleInv,
     TypeOK, ProgressInv, backupVars, BackupInv, BackupTypeOK, Processes
<1>5. ConfigInv'
  BY <1>3, ScheduleConstants DEF Bootstrap, ScheduleInv, TypeOK, Configs, Processes,
     Changes, ConfigInv
<1>6. ReceiptsInv'
  BY <1>1, <1>3, ReceiptsStay, ScheduleConstants DEF Bootstrap, ScheduleInv, TypeOK,
     Configs, Processes, Changes, Results
<1>7. GuardInv'
  BY <1>3, ScheduleConstants DEF Bootstrap, ScheduleInv, TypeOK, ProgressInv, GuardInv, Guarded, Unlocked, LocalWorks, HostedWorks, guardVars, deviceVars,
     Processes, Guards
<1> QED BY <1>3, <1>4, <1>5, <1>6, <1>7 DEF ScheduleInv

LEMMA PutBackInv == BackupInv /\ ScheduleInv /\ PutBack => ScheduleInv'
<1> SUFFICES ASSUME BackupInv, ScheduleInv, PutBack PROVE ScheduleInv'
  OBVIOUS
<1>1. [BackupNext]_backupVars
  BY ScheduleBacksUp DEF Next, ScheduleInv
<1>2. setup' \in Changes
  BY ScheduleConstants, ScheduleAssumption, SnapshotFacts DEF PutBack, ScheduleInv, TypeOK,
     guardVars, Changes
<1>3. config' \in Configs /\ setup.plist \in BOOLEAN
  BY DEF PutBack, ScheduleInv, TypeOK, Changes
<1>4. TypeOK'
  BY <1>2, <1>3, ScheduleConstants, ScheduleAssumption DEF PutBack, ScheduleInv, TypeOK,
     guardVars, Apps, Guards
<1>5. ProgressInv'
  BY <1>2, <1>3, ScheduleConstants, <1>4, PersonFacts, SnapshotFacts DEF PutBack,
     ScheduleInv, TypeOK, ProgressInv, backupVars, BackupInv, BackupTypeOK, Processes
<1>6. ConfigInv'
  BY <1>4, ScheduleConstants DEF PutBack, ScheduleInv, TypeOK, Configs, Processes, Changes,
     ConfigInv
<1>7. ReceiptsInv'
  BY <1>1, <1>4, ReceiptsStay, ScheduleConstants DEF PutBack, ScheduleInv, TypeOK, Configs,
     Processes, Changes, Results
<1>8. GuardInv'
  BY <1>4, ScheduleConstants DEF PutBack, ScheduleInv, TypeOK, ProgressInv, GuardInv, Guarded, Unlocked, LocalWorks, HostedWorks, guardVars, deviceVars,
     Processes, Guards
<1> QED BY <1>4, <1>5, <1>6, <1>7, <1>8 DEF ScheduleInv

LEMMA TurnOffInv == BackupInv /\ ScheduleInv /\ TurnOff => ScheduleInv'
<1> SUFFICES ASSUME BackupInv, ScheduleInv, TurnOff PROVE ScheduleInv'
  OBVIOUS
<1>1. [BackupNext]_backupVars
  BY ScheduleBacksUp DEF Next, ScheduleInv
<1>2. local' \in Processes
  BY ScheduleConstants, ScheduleAssumption, SnapshotFacts DEF TurnOff, Bootout, ScheduleInv,
     TypeOK, guardVars, Processes
<1>3. setup' \in Changes
  BY ScheduleConstants, ScheduleAssumption, SnapshotFacts DEF TurnOff, Bootout, ScheduleInv,
     TypeOK, guardVars, Changes
<1>4. TypeOK'
  BY <1>2, <1>3, ScheduleConstants, ScheduleAssumption DEF TurnOff, Bootout, ScheduleInv,
     TypeOK, guardVars, Apps, Guards
<1>5. ProgressInv'
  BY <1>2, <1>3, ScheduleConstants, ReleaseFacts, PersonFacts DEF TurnOff, Bootout,
     ScheduleInv, TypeOK, ProgressInv, backupVars, Processes
<1>6. ConfigInv'
  BY <1>4, ScheduleConstants DEF TurnOff, Bootout, ScheduleInv, TypeOK, Configs, Processes,
     Changes, ConfigInv
<1>7. ReceiptsInv'
  BY <1>1, <1>4, ReceiptsStay, ScheduleConstants DEF TurnOff, Bootout, ScheduleInv, TypeOK,
     Configs, Processes, Changes, Results
<1>8. GuardInv'
  BY <1>4, ScheduleConstants DEF TurnOff, Bootout, ScheduleInv, TypeOK, ProgressInv,
     GuardInv, Guarded, Unlocked, LocalWorks, HostedWorks, guardVars,
     deviceVars, Processes, Guards
<1> QED BY <1>4, <1>5, <1>6, <1>7, <1>8 DEF ScheduleInv

LEMMA ForgetInv == BackupInv /\ ScheduleInv /\ Forget => ScheduleInv'
<1> SUFFICES ASSUME BackupInv, ScheduleInv, Forget PROVE ScheduleInv'
  OBVIOUS
<1>1. [BackupNext]_backupVars
  BY ScheduleBacksUp DEF Next, ScheduleInv
<1>2. setup' \in Changes
  BY ScheduleConstants, ScheduleAssumption, SnapshotFacts DEF Forget, ScheduleInv, TypeOK,
     guardVars, Changes
<1>3. config' \in Configs
  BY ScheduleConstants, ScheduleAssumption, SnapshotFacts DEF Forget, ScheduleInv, TypeOK,
     guardVars, Configs
<1>4. TypeOK'
  BY <1>2, <1>3, ScheduleConstants, ScheduleAssumption DEF Forget, ScheduleInv, TypeOK,
     guardVars, Apps, Guards
<1>5. ProgressInv'
  BY <1>2, <1>3, ScheduleConstants, <1>4, PersonFacts, SnapshotFacts DEF Forget,
     ScheduleInv, TypeOK, ProgressInv, backupVars, BackupInv, BackupTypeOK, Processes
<1>6. ConfigInv'
  BY <1>4, ScheduleConstants DEF Forget, ScheduleInv, TypeOK, Configs, Processes, Changes,
     ConfigInv
<1>7. ReceiptsInv'
  BY <1>1, <1>4, ReceiptsStay, ScheduleConstants DEF Forget, ScheduleInv, TypeOK, Configs,
     Processes, Changes, Results
<1>8. GuardInv'
  BY <1>4, ScheduleConstants DEF Forget, ScheduleInv, TypeOK, ProgressInv, GuardInv, Guarded, Unlocked, LocalWorks, HostedWorks, guardVars, deviceVars,
     Processes, Guards
<1> QED BY <1>4, <1>5, <1>6, <1>7, <1>8 DEF ScheduleInv

LEMMA UnlinkInv == BackupInv /\ ScheduleInv /\ Unlink => ScheduleInv'
<1> SUFFICES ASSUME BackupInv, ScheduleInv, Unlink PROVE ScheduleInv'
  OBVIOUS
<1>1. [BackupNext]_backupVars
  BY ScheduleBacksUp DEF Next, ScheduleInv
<1>2. setup' \in Changes
  BY ScheduleConstants, ScheduleAssumption, SnapshotFacts DEF Unlink, ScheduleInv, TypeOK,
     guardVars, Changes
<1>3. TypeOK'
  BY <1>2, ScheduleConstants, ScheduleAssumption DEF Unlink, ScheduleInv, TypeOK, guardVars,
     Apps, Guards
<1>4. ProgressInv'
  BY <1>2, ScheduleConstants, <1>3, PersonFacts, SnapshotFacts DEF Unlink, ScheduleInv,
     TypeOK, ProgressInv, backupVars, BackupInv, BackupTypeOK, Processes
<1>5. ConfigInv'
  BY <1>3, ScheduleConstants DEF Unlink, ScheduleInv, TypeOK, Configs, Processes, Changes,
     ConfigInv
<1>6. ReceiptsInv'
  BY <1>1, <1>3, ReceiptsStay, ScheduleConstants DEF Unlink, ScheduleInv, TypeOK, Configs,
     Processes, Changes, Results
<1>7. GuardInv'
  BY <1>3, ScheduleConstants DEF Unlink, ScheduleInv, TypeOK, ProgressInv, GuardInv, Guarded, Unlocked, LocalWorks, HostedWorks, guardVars, deviceVars,
     Processes, Guards
<1> QED BY <1>3, <1>4, <1>5, <1>6, <1>7 DEF ScheduleInv

LEMMA HostedDefersInv == BackupInv /\ ScheduleInv /\ HostedDefers => ScheduleInv'
<1> SUFFICES ASSUME BackupInv, ScheduleInv, HostedDefers PROVE ScheduleInv'
  OBVIOUS
<1>1. [BackupNext]_backupVars
  BY ScheduleBacksUp DEF Next, ScheduleInv
<1>2. marker' \in Guards
  BY ScheduleConstants, ScheduleAssumption, SnapshotFacts DEF HostedDefers, Unlocked,
     Guarded, ScheduleInv, TypeOK, scheduleVars, Guards
<1>3. TypeOK'
  BY <1>2, ScheduleConstants, ScheduleAssumption DEF HostedDefers, Unlocked, Guarded,
     ScheduleInv, TypeOK, scheduleVars, Apps, Guards
<1>4. ProgressInv'
  BY <1>2, ScheduleConstants, <1>3, PersonFacts, SnapshotFacts DEF HostedDefers, Unlocked,
     Guarded, ScheduleInv, TypeOK, ProgressInv, backupVars, scheduleVars, LocalWorks,
     BackupInv, BackupTypeOK, Processes
<1>5. ConfigInv'
  BY <1>3, ScheduleConstants DEF HostedDefers, Unlocked, Guarded, ScheduleInv, TypeOK,
     Configs, Processes, Changes, ConfigInv, scheduleVars
<1>6. ReceiptsInv'
  BY <1>1, <1>3, ReceiptsStay, ScheduleConstants DEF HostedDefers, Unlocked, Guarded,
     ScheduleInv, TypeOK, Configs, Processes, Changes, Results, scheduleVars
<1>7. GuardInv'
  BY <1>3, ScheduleConstants DEF HostedDefers, Unlocked, Guarded, ScheduleInv, TypeOK,
     ProgressInv, GuardInv, LocalWorks, HostedWorks, scheduleVars,
     deviceVars, Processes, Guards
<1> QED BY <1>3, <1>4, <1>5, <1>6, <1>7 DEF ScheduleInv

LEMMA HostedStartsInv == BackupInv /\ ScheduleInv /\ HostedStarts => ScheduleInv'
<1> SUFFICES ASSUME BackupInv, ScheduleInv, HostedStarts PROVE ScheduleInv'
  OBVIOUS
<1>1. [BackupNext]_backupVars
  BY ScheduleBacksUp DEF Next, ScheduleInv
<1>2. marker' \in Guards
  BY ScheduleConstants, ScheduleAssumption, SnapshotFacts DEF HostedStarts, Unlocked,
     Guarded, ScheduleInv, TypeOK, scheduleVars, Guards
<1>3. TypeOK'
  BY <1>2, ScheduleConstants, ScheduleAssumption DEF HostedStarts, Unlocked, Guarded,
     ScheduleInv, TypeOK, scheduleVars, Apps, Guards
<1>4. ProgressInv'
  BY <1>2, ScheduleConstants, <1>3, PersonFacts, SnapshotFacts DEF HostedStarts, Unlocked,
     Guarded, ScheduleInv, TypeOK, ProgressInv, backupVars, scheduleVars, LocalWorks,
     BackupInv, BackupTypeOK, Processes
<1>5. ConfigInv'
  BY <1>3, ScheduleConstants DEF HostedStarts, Unlocked, Guarded, ScheduleInv, TypeOK,
     Configs, Processes, Changes, ConfigInv, scheduleVars
<1>6. ReceiptsInv'
  BY <1>1, <1>3, ReceiptsStay, ScheduleConstants DEF HostedStarts, Unlocked, Guarded,
     ScheduleInv, TypeOK, Configs, Processes, Changes, Results, scheduleVars
<1>7. GuardInv'
  BY <1>3, ScheduleConstants DEF HostedStarts, Unlocked, Guarded, ScheduleInv, TypeOK,
     ProgressInv, GuardInv, LocalWorks, HostedWorks, scheduleVars,
     Processes, Guards
<1> QED BY <1>3, <1>4, <1>5, <1>6, <1>7 DEF ScheduleInv

LEMMA HostedGoesOnInv == BackupInv /\ ScheduleInv /\ HostedGoesOn => ScheduleInv'
<1> SUFFICES ASSUME BackupInv, ScheduleInv, HostedGoesOn PROVE ScheduleInv'
  OBVIOUS
<1>1. [BackupNext]_backupVars
  BY ScheduleBacksUp DEF Next, ScheduleInv
<1>2. budget' \in Bounds
  BY SpendFacts DEF HostedGoesOn, ScheduleInv, TypeOK
<1>3. TypeOK'
  BY <1>2, ScheduleConstants, ScheduleAssumption DEF HostedGoesOn, ScheduleInv, TypeOK,
     guardVars, scheduleVars, Apps, Guards
<1>4. ProgressInv'
  BY <1>2, ScheduleConstants, <1>3, PersonFacts, SnapshotFacts DEF HostedGoesOn,
     ScheduleInv, TypeOK, ProgressInv, backupVars, scheduleVars, BackupInv, BackupTypeOK,
     Processes
<1>5. ConfigInv'
  BY <1>3, ScheduleConstants DEF HostedGoesOn, ScheduleInv, TypeOK, Configs, Processes,
     Changes, ConfigInv, scheduleVars
<1>6. ReceiptsInv'
  BY <1>1, <1>3, ReceiptsStay, ScheduleConstants DEF HostedGoesOn, ScheduleInv, TypeOK,
     Configs, Processes, Changes, Results, scheduleVars
<1>7. GuardInv'
  BY <1>3, ScheduleConstants, HostedHolds DEF HostedGoesOn, ScheduleInv, TypeOK,
     ProgressInv, GuardInv, Guarded, Unlocked, LocalWorks, HostedWorks,
     guardVars, scheduleVars, Processes, Guards
<1> QED BY <1>3, <1>4, <1>5, <1>6, <1>7 DEF ScheduleInv

LEMMA HostedChangesInv == BackupInv /\ ScheduleInv /\ HostedChanges => ScheduleInv'
<1> SUFFICES ASSUME BackupInv, ScheduleInv, HostedChanges PROVE ScheduleInv'
  OBVIOUS
<1>1. [BackupNext]_backupVars
  BY ScheduleBacksUp DEF Next, ScheduleInv
<1>2. marker' \in Guards
  BY ScheduleConstants, ScheduleAssumption, SnapshotFacts DEF HostedChanges, Unlocked,
     Guarded, ScheduleInv, TypeOK, scheduleVars, Guards
<1>3. TypeOK'
  BY <1>2, ScheduleConstants, ScheduleAssumption DEF HostedChanges, Unlocked, Guarded,
     ScheduleInv, TypeOK, scheduleVars, Apps, Guards
<1>4. ProgressInv'
  BY <1>2, ScheduleConstants, <1>3, PersonFacts, SnapshotFacts DEF HostedChanges, Unlocked,
     Guarded, ScheduleInv, TypeOK, ProgressInv, backupVars, scheduleVars, LocalWorks,
     BackupInv, BackupTypeOK, Processes
<1>5. ConfigInv'
  BY <1>3, ScheduleConstants DEF HostedChanges, Unlocked, Guarded, ScheduleInv, TypeOK,
     Configs, Processes, Changes, ConfigInv, scheduleVars
<1>6. ReceiptsInv'
  BY <1>1, <1>3, ReceiptsStay, ScheduleConstants DEF HostedChanges, Unlocked, Guarded,
     ScheduleInv, TypeOK, Configs, Processes, Changes, Results, scheduleVars
<1>7. GuardInv'
  BY <1>3, ScheduleConstants DEF HostedChanges, Unlocked, Guarded, ScheduleInv, TypeOK,
     ProgressInv, GuardInv, LocalWorks, HostedWorks, scheduleVars,
     Processes, Guards
<1> QED BY <1>3, <1>4, <1>5, <1>6, <1>7 DEF ScheduleInv

LEMMA HostedChangesOnInv == BackupInv /\ ScheduleInv /\ HostedChangesOn => ScheduleInv'
<1> SUFFICES ASSUME BackupInv, ScheduleInv, HostedChangesOn PROVE ScheduleInv'
  OBVIOUS
<1>1. [BackupNext]_backupVars
  BY ScheduleBacksUp DEF Next, ScheduleInv
<1>2. TypeOK'
  BY ScheduleConstants, ScheduleAssumption DEF HostedChangesOn, ScheduleInv, TypeOK,
     guardVars, scheduleVars, Apps, Guards
<1>3. ProgressInv'
  BY ScheduleConstants, <1>2, PersonFacts, SnapshotFacts DEF HostedChangesOn, ScheduleInv,
     TypeOK, ProgressInv, backupVars, scheduleVars, BackupInv, BackupTypeOK, Processes
<1>4. ConfigInv'
  BY <1>2, ScheduleConstants DEF HostedChangesOn, ScheduleInv, TypeOK, Configs, Processes,
     Changes, ConfigInv, scheduleVars
<1>5. ReceiptsInv'
  BY <1>1, <1>2, ReceiptsStay, ScheduleConstants DEF HostedChangesOn, ScheduleInv, TypeOK,
     Configs, Processes, Changes, Results, scheduleVars
<1>6. GuardInv'
  BY <1>2, ScheduleConstants, HostedHolds DEF HostedChangesOn, ScheduleInv, TypeOK,
     ProgressInv, GuardInv, Guarded, Unlocked, LocalWorks, HostedWorks,
     guardVars, scheduleVars, Processes, Guards
<1> QED BY <1>2, <1>3, <1>4, <1>5, <1>6 DEF ScheduleInv

LEMMA HostedFailsInv == BackupInv /\ ScheduleInv /\ HostedFails => ScheduleInv'
<1> SUFFICES ASSUME BackupInv, ScheduleInv, HostedFails PROVE ScheduleInv'
  OBVIOUS
<1>1. [BackupNext]_backupVars
  BY ScheduleBacksUp DEF Next, ScheduleInv
<1>2. TypeOK'
  BY ScheduleConstants, ScheduleAssumption DEF HostedFails, ScheduleInv, TypeOK, guardVars,
     scheduleVars, Apps, Guards
<1>3. ProgressInv'
  BY ScheduleConstants, <1>2, PersonFacts, SnapshotFacts DEF HostedFails, ScheduleInv,
     TypeOK, ProgressInv, backupVars, scheduleVars, BackupInv, BackupTypeOK, Processes
<1>4. ConfigInv'
  BY <1>2, ScheduleConstants DEF HostedFails, ScheduleInv, TypeOK, Configs, Processes,
     Changes, ConfigInv, scheduleVars
<1>5. ReceiptsInv'
  BY <1>1, <1>2, ReceiptsStay, ScheduleConstants DEF HostedFails, ScheduleInv, TypeOK,
     Configs, Processes, Changes, Results, scheduleVars
<1>6. GuardInv'
  BY <1>2, ScheduleConstants, HostedHolds DEF HostedFails, ScheduleInv, TypeOK, ProgressInv,
     GuardInv, Guarded, Unlocked, LocalWorks, HostedWorks, guardVars,
     scheduleVars, Processes, Guards
<1> QED BY <1>2, <1>3, <1>4, <1>5, <1>6 DEF ScheduleInv

LEMMA PrepareUpdateInv == BackupInv /\ ScheduleInv /\ PrepareUpdate => ScheduleInv'
<1> SUFFICES ASSUME BackupInv, ScheduleInv, PrepareUpdate PROVE ScheduleInv'
  OBVIOUS
<1>1. [BackupNext]_backupVars
  BY ScheduleBacksUp DEF Next, ScheduleInv
<1>2. marker' \in Guards
  BY ScheduleConstants, ScheduleAssumption, SnapshotFacts DEF PrepareUpdate, Looked,
     Unlocked, ScheduleInv, TypeOK, scheduleVars, Guards
<1>3. app' \in Apps
  BY ScheduleConstants, ScheduleAssumption, SnapshotFacts DEF PrepareUpdate, Looked,
     Unlocked, ScheduleInv, TypeOK, scheduleVars, Apps
<1>4. budget' \in Bounds
  BY SpendFacts DEF PrepareUpdate, ScheduleInv, TypeOK
<1>5. TypeOK'
  BY <1>2, <1>3, <1>4, ScheduleConstants, ScheduleAssumption DEF PrepareUpdate, Looked,
     Unlocked, ScheduleInv, TypeOK, scheduleVars, Apps, Guards
<1>6. ProgressInv'
  BY <1>2, <1>3, <1>4, ScheduleConstants, <1>5, PersonFacts, SnapshotFacts DEF
     PrepareUpdate, Looked, Unlocked, ScheduleInv, TypeOK, ProgressInv, backupVars,
     scheduleVars, LocalWorks, BackupInv, BackupTypeOK, Processes
<1>7. ConfigInv'
  BY <1>5, ScheduleConstants DEF PrepareUpdate, Looked, Unlocked, ScheduleInv, TypeOK,
     Configs, Processes, Changes, ConfigInv, scheduleVars
<1>8. ReceiptsInv'
  BY <1>1, <1>5, ReceiptsStay, ScheduleConstants DEF PrepareUpdate, Looked, Unlocked,
     ScheduleInv, TypeOK, Configs, Processes, Changes, Results, scheduleVars
<1>9. GuardInv'
  BY <1>5, ScheduleConstants DEF PrepareUpdate, Looked, Unlocked, ScheduleInv, TypeOK,
     ProgressInv, GuardInv, Guarded, LocalWorks, HostedWorks, scheduleVars,
     deviceVars, Processes, Guards
<1> QED BY <1>5, <1>6, <1>7, <1>8, <1>9 DEF ScheduleInv

LEMMA ReplaceInv == BackupInv /\ ScheduleInv /\ Replace => ScheduleInv'
<1> SUFFICES ASSUME BackupInv, ScheduleInv, Replace PROVE ScheduleInv'
  OBVIOUS
<1>1. [BackupNext]_backupVars
  BY ScheduleBacksUp DEF Next, ScheduleInv
<1>2. app' \in Apps
  BY ScheduleConstants, ScheduleAssumption, SnapshotFacts DEF Replace, ScheduleInv, TypeOK,
     scheduleVars, Apps
<1>3. TypeOK'
  BY <1>2, ScheduleConstants, ScheduleAssumption DEF Replace, ScheduleInv, TypeOK,
     scheduleVars, Apps, Guards
<1>4. ProgressInv'
  BY <1>2, ScheduleConstants, <1>3, PersonFacts, SnapshotFacts DEF Replace, ScheduleInv,
     TypeOK, ProgressInv, backupVars, scheduleVars, BackupInv, BackupTypeOK, Processes
<1>5. ConfigInv'
  BY <1>3, ScheduleConstants DEF Replace, ScheduleInv, TypeOK, Configs, Processes, Changes,
     ConfigInv, scheduleVars
<1>6. ReceiptsInv'
  BY <1>1, <1>3, ReceiptsStay, ScheduleConstants DEF Replace, ScheduleInv, TypeOK, Configs,
     Processes, Changes, Results, scheduleVars
<1>7. GuardInv'
  BY <1>3, ScheduleConstants DEF Replace, ScheduleInv, TypeOK, ProgressInv, GuardInv, Guarded, Unlocked, LocalWorks, HostedWorks, scheduleVars, deviceVars,
     Processes, Guards
<1> QED BY <1>3, <1>4, <1>5, <1>6, <1>7 DEF ScheduleInv

LEMMA LapseInv == BackupInv /\ ScheduleInv /\ Lapse => ScheduleInv'
<1> SUFFICES ASSUME BackupInv, ScheduleInv, Lapse PROVE ScheduleInv'
  OBVIOUS
<1>1. [BackupNext]_backupVars
  BY ScheduleBacksUp DEF Next, ScheduleInv
<1>2. marker' \in Guards
  BY ScheduleConstants, ScheduleAssumption, SnapshotFacts DEF Lapse, Guarded, ScheduleInv,
     TypeOK, scheduleVars, Guards
<1>3. TypeOK'
  BY <1>2, ScheduleConstants, ScheduleAssumption DEF Lapse, Guarded, ScheduleInv, TypeOK,
     scheduleVars, Apps, Guards
<1>4. ProgressInv'
  BY <1>2, ScheduleConstants, <1>3, PersonFacts, SnapshotFacts DEF Lapse, Guarded,
     ScheduleInv, TypeOK, ProgressInv, backupVars, scheduleVars, BackupInv, BackupTypeOK,
     Processes
<1>5. ConfigInv'
  BY <1>3, ScheduleConstants DEF Lapse, Guarded, ScheduleInv, TypeOK, Configs, Processes,
     Changes, ConfigInv, scheduleVars
<1>6. ReceiptsInv'
  BY <1>1, <1>3, ReceiptsStay, ScheduleConstants DEF Lapse, Guarded, ScheduleInv, TypeOK,
     Configs, Processes, Changes, Results, scheduleVars
<1>7. GuardInv'
  BY <1>3, ScheduleConstants DEF Lapse, Guarded, ScheduleInv, TypeOK, ProgressInv, GuardInv, Unlocked, LocalWorks, HostedWorks, scheduleVars, deviceVars, Processes,
     Guards
<1> QED BY <1>3, <1>4, <1>5, <1>6, <1>7 DEF ScheduleInv

LEMMA ResumeAppInv == BackupInv /\ ScheduleInv /\ ResumeApp => ScheduleInv'
<1> SUFFICES ASSUME BackupInv, ScheduleInv, ResumeApp PROVE ScheduleInv'
  OBVIOUS
<1>1. [BackupNext]_backupVars
  BY ScheduleBacksUp DEF Next, ScheduleInv
<1>2. marker' \in Guards
  BY ScheduleConstants, ScheduleAssumption, SnapshotFacts DEF ResumeApp, Unlocked, Guarded,
     ScheduleInv, TypeOK, scheduleVars, Guards
<1>3. app' \in Apps
  BY ScheduleConstants, ScheduleAssumption, SnapshotFacts DEF ResumeApp, Unlocked, Guarded,
     ScheduleInv, TypeOK, scheduleVars, Apps
<1>4. TypeOK'
  BY <1>2, <1>3, ScheduleConstants, ScheduleAssumption DEF ResumeApp, Unlocked, Guarded,
     ScheduleInv, TypeOK, scheduleVars, Apps, Guards
<1>5. ProgressInv'
  BY <1>2, <1>3, ScheduleConstants, <1>4, PersonFacts, SnapshotFacts DEF ResumeApp,
     Unlocked, Guarded, ScheduleInv, TypeOK, ProgressInv, backupVars, scheduleVars,
     LocalWorks, BackupInv, BackupTypeOK, Processes
<1>6. ConfigInv'
  BY <1>4, ScheduleConstants DEF ResumeApp, Unlocked, Guarded, ScheduleInv, TypeOK, Configs,
     Processes, Changes, ConfigInv, scheduleVars
<1>7. ReceiptsInv'
  BY <1>1, <1>4, ReceiptsStay, ScheduleConstants DEF ResumeApp, Unlocked, Guarded,
     ScheduleInv, TypeOK, Configs, Processes, Changes, Results, scheduleVars
<1>8. GuardInv'
  BY <1>4, ScheduleConstants DEF ResumeApp, Unlocked, Guarded, ScheduleInv, TypeOK,
     ProgressInv, GuardInv, LocalWorks, HostedWorks, scheduleVars,
     deviceVars, Processes, Guards
<1> QED BY <1>4, <1>5, <1>6, <1>7, <1>8 DEF ScheduleInv

LEMMA KickLocalInv == BackupInv /\ ScheduleInv /\ KickLocal => ScheduleInv'
<1> SUFFICES ASSUME BackupInv, ScheduleInv, KickLocal PROVE ScheduleInv'
  OBVIOUS
<1>1. [BackupNext]_backupVars
  BY ScheduleBacksUp DEF Next, ScheduleInv
<1>2. local' \in Processes
  BY ScheduleConstants, ScheduleAssumption, SnapshotFacts, WokenFacts DEF KickLocal,
     ScheduleInv, TypeOK, Processes
<1>3. TypeOK'
  BY <1>2, ScheduleConstants, ScheduleAssumption DEF KickLocal, ScheduleInv, TypeOK, Apps,
     Guards
<1>4. ProgressInv'
  BY <1>2, ScheduleConstants, ReleaseFacts, PersonFacts, WokenFacts DEF KickLocal,
     ScheduleInv, TypeOK, ProgressInv, backupVars, Processes
<1>5. ConfigInv'
  BY <1>3, ScheduleConstants, WokenFacts DEF KickLocal, ScheduleInv, TypeOK, Configs,
     Processes, Changes, ConfigInv
<1>6. ReceiptsInv'
  BY <1>1, <1>3, ReceiptsStay, ScheduleConstants, WokenFacts DEF KickLocal, ScheduleInv,
     TypeOK, Configs, Processes, Changes, Results
<1>7. GuardInv'
  BY <1>3, ScheduleConstants, WokenFacts DEF KickLocal, ScheduleInv, TypeOK, ProgressInv,
     GuardInv, Guarded, Unlocked, LocalWorks, HostedWorks, deviceVars,
     Processes, Guards
<1> QED BY <1>3, <1>4, <1>5, <1>6, <1>7 DEF ScheduleInv

LEMMA KickHostedInv == BackupInv /\ ScheduleInv /\ KickHosted => ScheduleInv'
<1> SUFFICES ASSUME BackupInv, ScheduleInv, KickHosted PROVE ScheduleInv'
  OBVIOUS
<1>1. [BackupNext]_backupVars
  BY ScheduleBacksUp DEF Next, ScheduleInv
<1>2. TypeOK'
  BY ScheduleConstants, ScheduleAssumption DEF KickHosted, ScheduleInv, TypeOK,
     scheduleVars, Apps, Guards
<1>3. ProgressInv'
  BY ScheduleConstants, <1>2, PersonFacts, SnapshotFacts DEF KickHosted, ScheduleInv,
     TypeOK, ProgressInv, backupVars, scheduleVars, BackupInv, BackupTypeOK, Processes
<1>4. ConfigInv'
  BY <1>2, ScheduleConstants DEF KickHosted, ScheduleInv, TypeOK, Configs, Processes,
     Changes, ConfigInv, scheduleVars
<1>5. ReceiptsInv'
  BY <1>1, <1>2, ReceiptsStay, ScheduleConstants DEF KickHosted, ScheduleInv, TypeOK,
     Configs, Processes, Changes, Results, scheduleVars
<1>6. GuardInv'
  BY <1>2, ScheduleConstants DEF KickHosted, ScheduleInv, TypeOK, ProgressInv, GuardInv, Guarded, Unlocked, LocalWorks, HostedWorks, scheduleVars, deviceVars,
     Processes, Guards
<1> QED BY <1>2, <1>3, <1>4, <1>5, <1>6 DEF ScheduleInv

LEMMA RestartInv == BackupInv /\ ScheduleInv /\ Restart => ScheduleInv'
<1> SUFFICES ASSUME BackupInv, ScheduleInv, Restart PROVE ScheduleInv'
  OBVIOUS
<1>1. [BackupNext]_backupVars
  BY ScheduleBacksUp DEF Next, ScheduleInv
<1>2. local' \in Processes
  BY ScheduleConstants, ScheduleAssumption, SnapshotFacts DEF Restart, ScheduleInv, TypeOK,
     Processes
<1>3. setup' \in Changes
  BY ScheduleConstants, ScheduleAssumption, SnapshotFacts DEF Restart, ScheduleInv, TypeOK,
     Changes
<1>4. app' \in Apps
  BY ScheduleConstants, ScheduleAssumption, SnapshotFacts DEF Restart, ScheduleInv, TypeOK,
     Apps
<1>5. budget' \in Bounds
  BY SpendFacts DEF Restart, ScheduleInv, TypeOK
<1>6. TypeOK'
  BY <1>2, <1>3, <1>4, <1>5, ScheduleConstants, ScheduleAssumption DEF Restart, ScheduleInv,
     TypeOK, Apps, Guards
<1>7. ProgressInv'
  BY <1>2, <1>3, <1>4, <1>5, ScheduleConstants, <1>6, PersonFacts, SnapshotFacts DEF
     Restart, ScheduleInv, TypeOK, ProgressInv, backupVars, Stop, BackupInv, BackupTypeOK,
     Processes
<1>8. ConfigInv'
  BY <1>6, ScheduleConstants DEF Restart, ScheduleInv, TypeOK, Configs, Processes, Changes,
     ConfigInv
<1>9. ReceiptsInv'
  BY <1>1, <1>6, ReceiptsStay, ScheduleConstants DEF Restart, ScheduleInv, TypeOK, Configs,
     Processes, Changes, Results
<1>10. GuardInv'
  BY <1>6, ScheduleConstants DEF Restart, ScheduleInv, TypeOK, ProgressInv, GuardInv, Guarded, Unlocked, LocalWorks, HostedWorks, deviceVars, Processes,
     Guards
<1> QED BY <1>6, <1>7, <1>8, <1>9, <1>10 DEF ScheduleInv

\* At the start nothing is configured, done or deferred.
LEMMA ScheduleInit == Init => ScheduleInv
<1> SUFFICES ASSUME Init PROVE ScheduleInv
  OBVIOUS
<1>1. TypeOK
  <2>1. app \in Apps /\ budget \in Bounds
    BY ScheduleAssumption DEF Init, Apps, Bounds
  <2> QED BY <2>1, ScheduleConstants DEF Init, TypeOK
<1>2. ProgressInv
  BY ScheduleConstants, PersonFacts DEF Init, BackupInit, ProgressInv
<1>3. ConfigInv
  BY ScheduleConstants DEF Init, ConfigInv
<1>4. ReceiptsInv
  BY ScheduleConstants DEF Init, ReceiptsInv
<1>5. GuardInv
  BY ScheduleConstants DEF Init, GuardInv, Guarded
<1> QED BY <1>1, <1>2, <1>3, <1>4, <1>5 DEF ScheduleInv

\* A step of something else.
LEMMA ScheduleStutters == BackupInv /\ ScheduleInv /\ UNCHANGED vars => ScheduleInv'
<1> SUFFICES ASSUME ScheduleInv, UNCHANGED vars PROVE ScheduleInv'
  OBVIOUS
<1> USE DEF vars, backupVars, deviceVars, scheduleVars, guardVars, ScheduleInv
<1>1. TypeOK' /\ ConfigInv'
  BY DEF TypeOK, ConfigInv
<1>2. ProgressInv'
  BY DEF ProgressInv
<1>3. ReceiptsInv'
  BY DEF ReceiptsInv, Stored
<1>4. GuardInv'
  BY DEF GuardInv, Guarded, Unlocked, LocalWorks, HostedWorks
<1> QED BY <1>1, <1>2, <1>3, <1>4

\* The schedule's part of the invariant is inductive.
LEMMA ScheduleStepInv == BackupInv /\ ScheduleInv /\ [Next]_vars => ScheduleInv'
BY ScheduleStutters, CodexWritesInv, BackupGoesOnInv, BackUpInv, PersonEndsInv, WakeInv,
   SkipInv, DeferInv, EnterInv, CallInv, ReturnedInv, ReceiptInv, FailsInv, WriteFailedInv,
   SetUpInv, WritePlistInv, PlistFailsInv, UnloadInv, BootstrapInv, PutBackInv, TurnOffInv, ForgetInv,
   UnlinkInv, HostedDefersInv, HostedStartsInv, HostedGoesOnInv, HostedChangesInv,
   HostedChangesOnInv, HostedFailsInv, PrepareUpdateInv, ReplaceInv, LapseInv, ResumeAppInv,
   KickLocalInv, KickHostedInv, RestartInv DEF Next

\* The three parts of the invariant are inductive together.
LEMMA InvariantOfAll ==
    /\ Init => BackupInv /\ RotationInv /\ ScheduleInv
    /\ BackupInv /\ RotationInv /\ ScheduleInv /\ [Next]_vars
         => BackupInv' /\ RotationInv' /\ ScheduleInv'
BY InitBackup, InitRotation, ScheduleInit, ScheduleBacksUp, ScheduleRotates, BackupStepInv,
   RotationStepInv, ScheduleStepInv DEF Init, ScheduleInv

\* Every state of the schedule satisfies the invariants of backup, rotation and
\* schedule (vault_backup.py, vault_schedule.py, vault_hosted_schedule.py).
THEOREM ScheduleInvariance == Spec => [](BackupInv /\ RotationInv /\ ScheduleInv)
BY InvariantOfAll, PTL DEF Spec

\* A receipt of the invariant is a stored one.
LEMMA InvMakesReceipts == BackupInv /\ ScheduleInv => ReceiptIsStored
<1> SUFFICES ASSUME BackupInv, ScheduleInv PROVE ReceiptIsStored
  OBVIOUS
<1> QED BY DEF ReceiptIsStored, ScheduleInv, ReceiptsInv, Stored

\* A completed receipt, for which the next wakes are skipped, is for a snapshot that
\* its folder has published and still has, or a newer one, as its latest; and the
\* folder is the one configured, unless the run had read an earlier setup
\* (vault_schedule.py).
THEOREM ReceiptsAreStored == Spec => []ReceiptIsStored
BY ScheduleInvariance, InvMakesReceipts, PTL

\* Until a local check put off for an update has run to its end, its status never
\* lets a wake leave the backup out for not being due: not when the guard is renewed,
\* lapses or is cleared, not when the kick that should catch it up is lost, and not
\* when the run that does is killed (vault_schedule.py).
THEOREM DeferralsAreKept == Spec => []DeferralIsKept
<1>1. ScheduleInv => DeferralIsKept
  BY DEF ScheduleInv, GuardInv, DeferralIsKept, MaySkip
<1> QED BY <1>1, ScheduleInvariance, PTL

\* The schedule implements the backup and the rotation that it drives: each of its
\* steps is one of theirs, or leaves them alone.
THEOREM ScheduleImplements == Spec => BackupSpec /\ RotationSpec
<1>1. Init => BackupInit /\ RotationInit
  BY DEF Init
<1>2. ScheduleInv => TypeOK
  BY DEF ScheduleInv
<1> QED
  BY <1>1, <1>2, ScheduleInvariance, ScheduleBacksUp, ScheduleRotates, PTL DEF Spec,
     BackupSpec, RotationSpec

=============================================================================
