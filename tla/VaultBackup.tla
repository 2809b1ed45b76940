---------------------------- MODULE VaultBackup ----------------------------
(***************************************************************************)
(* The verified local backup of vault_backup.py: one run under the local   *)
(* history lock reads every conversation of Codex's history while Codex    *)
(* goes on writing it, seals a manifest, and publishes the snapshot by two *)
(* files, its own reference and latest.json.  A run may fail or die between*)
(* any two steps.                                                          *)
(*                                                                         *)
(* A conversation is a thread; its body is a number of messages, standing  *)
(* for the size and the message counts the loss warning compares.  It may  *)
(* be kept as an active or an archived transcript, or in the paginated     *)
(* database.  What the code learns by comparing device, inode, size and    *)
(* times is whether a file was touched since it was scanned: `dirty`.      *)
(***************************************************************************)
EXTENDS Naturals, Sequences

CONSTANTS Threads,       \* conversations
          Vaults,        \* destination folders
          Callers,       \* who may start a backup on this Mac
          NoOne,         \* the lock is free
          MaxLen,        \* bound: the longest conversation
          MaxSnapshots,  \* bound: manifests sealed
          Tries          \* MAX_CHANGED_TRANSCRIPT_ATTEMPTS

ASSUME BackupAssumption == /\ MaxLen \in Nat \ {0}
                           /\ MaxSnapshots \in Nat
                           /\ Tries \in Nat \ {0}
                           /\ NoOne \notin Callers
                           /\ Vaults # {}

VARIABLES src,    \* Codex's history: the length of every copy, 0 when there is none
          vault,  \* per folder: made, the published references, latest.json
          snaps,  \* the sealed manifests, in the order they were sealed
          run     \* the backup that holds the local history lock

backupVars == <<src, vault, snaps, run>>

Transcript == {"active", "archived"} \X Threads
Paginated  == {"paginated"} \X Threads
File       == Transcript \cup Paginated
Lengths    == [File -> 0..MaxLen]
Nothing    == [f \in File |-> 0]

Present(h) == {f \in File : h[f] > 0}

Phases == {"idle", "begun", "prepare", "scan", "store", "settle", "list", "recheck",
           "sealed", "referenced", "published"}

\* No backup holds the lock; what a run learnt is gone with it.
NoRun == [by |-> NoOne, vault |-> CHOOSE v \in Vaults : TRUE, phase |-> "idle",
          listed |-> {}, todo |-> {}, dirty |-> {}, tries |-> 0, hasdb |-> FALSE,
          prev |-> 0, seen |-> Nothing, kept |-> Nothing,
          moment |-> Nothing]

BackupInit == /\ src \in Lengths
              /\ vault = [v \in Vaults |-> [made |-> FALSE, refs |-> {}, latest |-> 0]]
              /\ snaps = <<>>
              /\ run = NoRun

-----------------------------------------------------------------------------
(* Codex, which takes no lock. *)

\* Codex left `h`: the copies in `fs` were touched.
Becomes(h, fs) ==
    /\ src' = h
    /\ run' = IF run.by = NoOne THEN run
              ELSE [run EXCEPT !.dirty = @ \cup (fs \cap Transcript)]
    /\ UNCHANGED <<vault, snaps>>

\* A reply, a new conversation, a rewrite or a deletion.
Write(f, n) == /\ src[f] # n
               /\ Becomes([src EXCEPT ![f] = n], {f})

\* A transcript is archived or brought back: a rename.
Move(f, g) == /\ f # g /\ f[2] = g[2]
              /\ src[f] > 0 /\ src[g] = 0
              /\ Becomes([src EXCEPT ![f] = 0, ![g] = src[f]], {f, g})

-----------------------------------------------------------------------------
(* One run. *)

\* The lock is taken; there is a paginated database, or there is none.
Begin(c, v) ==
    /\ run.by = NoOne
    /\ Len(snaps) < MaxSnapshots
    /\ run' = [NoRun EXCEPT !.by = c, !.vault = v, !.phase = "begun",
                            !.hasdb = Present(src) \cap Paginated # {}]
    /\ UNCHANGED <<src, vault, snaps>>

\* The transcripts are listed: those that come later are not read.
Enumerate ==
    /\ run.phase = "begun"
    /\ run' = [run EXCEPT !.phase = "prepare", !.listed = Present(src) \cap Transcript]
    /\ UNCHANGED <<src, vault, snaps>>

\* The copies of the snapshot that latest.json names.
Previous == IF run.prev = 0 THEN Nothing ELSE snaps[run.prev].seen

\* The folder gets its key once; the catalog of latest.json is read back.
Prepare ==
    LET latest == vault[run.vault].latest
        had    == latest # 0 /\ Present(snaps[latest].seen) \cap Paginated # {}
    IN  /\ run.phase = "prepare"
        \* Paginated history that disappeared or emptied stops the run.
        /\ had => run.hasdb /\ Present(src) \cap Paginated # {}
        /\ vault' = [vault EXCEPT ![run.vault].made = TRUE]
        /\ run' = [run EXCEPT !.phase = "scan", !.prev = latest, !.todo = run.listed]
        /\ UNCHANGED <<src, snaps>>

\* The transcript at hand: one order for scanning and for the last check.
Current == CHOOSE f \in run.todo : TRUE

\* lstat and the scan that counts the messages.
Scan ==
    /\ run.phase = "scan" /\ run.todo # {}
    /\ src[Current] > 0
    /\ run' = [run EXCEPT !.phase = "store", !.dirty = @ \ {Current},
                          !.seen = [@ EXCEPT ![Current] = src[Current]]]
    /\ UNCHANGED <<src, vault, snaps>>

\* The helper encrypts what the opened file now holds.
Store ==
    /\ run.phase = "store"
    /\ src[Current] > 0
    /\ run' = [run EXCEPT !.phase = "settle",
                          !.kept = [@ EXCEPT ![Current] = src[Current]]]
    /\ UNCHANGED <<src, vault, snaps>>

\* The file is unchanged since the scan: its copy stands.
Settle ==
    /\ run.phase = "settle"
    /\ Current \notin run.dirty
    /\ run' = [run EXCEPT !.phase = "scan", !.todo = @ \ {Current}, !.tries = 0]
    /\ UNCHANGED <<src, vault, snaps>>

\* It changed: scan and encrypt it again, a bounded number of times.
Retry ==
    /\ run.phase = "settle"
    /\ Current \in run.dirty
    /\ run.tries + 1 < Tries
    /\ run' = [run EXCEPT !.phase = "scan", !.tries = @ + 1]
    /\ UNCHANGED <<src, vault, snaps>>

\* The database is read in one transaction, if there was one at the start.
Paginate ==
    LET read(h) == [f \in File |-> IF f \in Paginated /\ run.hasdb THEN src[f] ELSE h[f]]
    IN  /\ run.phase = "scan" /\ run.todo = {}
        /\ run' = [run EXCEPT !.phase = "list", !.seen = read(@), !.kept = read(@)]
        /\ UNCHANGED <<src, vault, snaps>>

\* The transcripts are listed again, and must be those that were copied.
List ==
    /\ run.phase = "list"
    /\ Present(src) \cap Transcript = run.listed
    /\ run' = [run EXCEPT !.phase = "recheck", !.todo = run.listed, !.moment = src]
    /\ UNCHANGED <<src, vault, snaps>>

\* (mutant) Each is looked up once more, but not compared.
RecheckThere ==
    /\ run.phase = "recheck" /\ run.todo # {}
    /\ src[Current] > 0
    /\ run' = [run EXCEPT !.todo = @ \ {Current}]
    /\ UNCHANGED <<src, vault, snaps>>

\* Each is compared once more with what was copied.
Recheck ==
    /\ run.phase = "recheck" /\ run.todo # {}
    /\ src[Current] > 0
    /\ Current \notin run.dirty
    /\ run' = [run EXCEPT !.todo = @ \ {Current}]
    /\ UNCHANGED <<src, vault, snaps>>

-----------------------------------------------------------------------------
(* The loss warning. *)

\* Two transcripts of one conversation in one capture are never merged silently.
Conflicting(h) == {f \in Transcript \cap Present(h) :
                     \E g \in Transcript \cap Present(h) : g # f /\ g[2] = f[2]}
Verified(h)    == Present(h) \ Conflicting(h)

\* Transcripts are compared with transcripts, pages with pages.
SameGroup(f, g) == f[2] = g[2] /\ (f \in Paginated <=> g \in Paginated)

\* (mutant) A loss is only told in the snapshot that first shows it.
AtRiskOnce(h, old, oldRisk) ==
    Conflicting(h) \cup
    {f \in Verified(h) : \E g \in Verified(old) : SameGroup(f, g) /\ h[f] < old[g]}

\* What is at risk in the copy `h` of a conversation, after the snapshot `old`.
AtRisk(h, old, oldRisk) ==
    Conflicting(h) \cup
    {f \in Verified(h) : \E g \in Verified(old) :
        /\ SameGroup(f, g)
        /\ g \in oldRisk \/ h[f] < old[g]}

OldRisk == IF run.prev = 0 THEN {} ELSE snaps[run.prev].risk

-----------------------------------------------------------------------------
(* Publication. *)

\* The snapshots a manifest descends from, oldest first.
Line(prev) == IF prev = 0 THEN <<>> ELSE Append(snaps[prev].line, prev)

Seal ==
    /\ run.phase = "recheck" /\ run.todo = {}
    /\ snaps' = Append(snaps, [vault |-> run.vault, prev |-> run.prev,
                               seen |-> run.seen, kept |-> run.kept,
                               risk |-> AtRisk(run.seen, Previous, OldRisk),
                               moment |-> run.moment, line |-> Line(run.prev)])
    /\ run' = [run EXCEPT !.phase = "sealed"]
    /\ UNCHANGED <<src, vault>>

\* The manifest verified; its reference is put beside the others.
PublishReference ==
    /\ run.phase = "sealed"
    /\ vault' = [vault EXCEPT ![run.vault].refs = @ \cup {Len(snaps)}]
    /\ run' = [run EXCEPT !.phase = "referenced"]
    /\ UNCHANGED <<src, snaps>>

\* Then latest.json names it.
PublishLatest ==
    /\ run.phase = "referenced"
    /\ vault' = [vault EXCEPT ![run.vault].latest = Len(snaps)]
    /\ run' = [run EXCEPT !.phase = "published"]
    /\ UNCHANGED <<src, snaps>>

\* The result goes to the caller and the lock is released.
Return == /\ run.phase = "published"
          /\ run' = NoRun
          /\ UNCHANGED <<src, vault, snaps>>

\* A refused check, an error or a death: what was published stays.
Stop == /\ run.by # NoOne
        /\ run' = NoRun
        /\ UNCHANGED <<src, vault, snaps>>

-----------------------------------------------------------------------------
Codex == \/ \E f \in File, n \in 0..MaxLen : Write(f, n)
         \/ \E f, g \in Transcript : Move(f, g)

BackupStep == \/ Enumerate \/ Prepare \/ Scan \/ Store \/ Settle \/ Retry \/ Paginate
              \/ List \/ Recheck \/ Seal \/ PublishReference \/ PublishLatest

BackupNext == \/ Codex
              \/ \E c \in Callers, v \in Vaults : Begin(c, v)
              \/ BackupStep \/ Return \/ Stop

BackupSpec == BackupInit /\ [][BackupNext]_backupVars

-----------------------------------------------------------------------------
(* What a published snapshot promises. *)

Published == UNION {vault[v].refs : v \in Vaults}

BackupTypeOK ==
    /\ src \in Lengths
    /\ vault \in [Vaults -> [made : BOOLEAN, refs : SUBSET (1..MaxSnapshots),
                            latest : 0..MaxSnapshots]]
    /\ snaps \in Seq([vault : Vaults, prev : 0..MaxSnapshots, seen : Lengths,
                      kept : Lengths, risk : SUBSET File, moment : Lengths,
                      line : Seq(1..MaxSnapshots)])
    /\ Len(snaps) <= MaxSnapshots
    /\ run \in [by : Callers \cup {NoOne}, vault : Vaults, phase : Phases,
                listed : SUBSET Transcript, todo : SUBSET Transcript,
                dirty : SUBSET Transcript, tries : 0..(Tries - 1), hasdb : BOOLEAN,
                prev : 0..MaxSnapshots, seen : Lengths, kept : Lengths,
                moment : Lengths]
    /\ run.by = NoOne <=> run.phase = "idle"

(* Codex writes while its files are read one by one.  The transcripts of a  *)
(* published snapshot are nevertheless the ones of a single moment of the   *)
(* run, and the counts its manifest gives are the ones of the bytes stored. *)
SnapshotIsAMoment ==
    \A i \in Published :
        /\ \A f \in Transcript : snaps[i].kept[f] = snaps[i].moment[f]
        /\ snaps[i].seen = snaps[i].kept

(* Messages once lost stay marked: along the versions a folder went         *)
(* through, a copy shorter than an earlier one is at risk as long as the    *)
(* conversation is in every version between them, even when it grew or     *)
(* stood still since, and when a crash left a reference out of the line.    *)
Warned(h, n, risk) ==
    LET CopiesAt(b, f) == {g \in Verified(h[b]) : SameGroup(f, g)}
    IN  \A f \in Verified(h[n]), a \in 1..n :
            /\ \A b \in a..n : CopiesAt(b, f) # {}
            /\ \E g \in CopiesAt(a, f) : h[a][g] > h[n][f]
            => f \in risk

\* The versions a manifest descends from, and its own.
Ancestry(i) == Append(snaps[i].line, i)
Versions(i) == [b \in 1..Len(Ancestry(i)) |-> snaps[Ancestry(i)[b]].kept]

LossIsFlagged(i) == Warned(Versions(i), Len(Ancestry(i)), snaps[i].risk)

LossStaysFlagged == \A i \in Published : LossIsFlagged(i)

-----------------------------------------------------------------------------
(* The inductive invariant. *)

\* What was sealed is whole and warned of, whether it was published or not.
SealedInv ==
    /\ \A i \in 1..Len(snaps) :
         /\ snaps[i].line \in Seq(1..(i - 1))
         /\ snaps[i].seen = snaps[i].kept
         /\ \A f \in Transcript : snaps[i].kept[f] = snaps[i].moment[f]
         /\ LossIsFlagged(i)
    /\ \A v \in Vaults : /\ vault[v].refs \subseteq 1..Len(snaps)
                          /\ vault[v].latest <= Len(snaps)
    /\ run.prev <= Len(snaps)

\* Whose turn it is, and that there is room for one more manifest.
TurnInv ==
    /\ run.todo \subseteq run.listed
    /\ run.phase \in {"store", "settle"} => run.todo # {}
    /\ run.phase \in {"idle", "begun", "prepare", "list"} => run.todo = {}
    /\ run.phase \in {"begun", "prepare", "scan", "store", "settle", "list", "recheck"}
         => Len(snaps) < MaxSnapshots
    /\ run.phase \in {"sealed", "referenced", "published"} => Len(snaps) > 0

\* A copy that is not its file's any more has a file that was touched.
CaptureInv ==
    /\ run.phase \in {"idle", "begun", "prepare"} => run.seen = Nothing /\ run.kept = Nothing
    /\ \A f \in File :
         f \notin run.todo \/ run.phase = "recheck" => run.seen[f] = run.kept[f]
    /\ run.phase \in {"scan", "store", "settle", "list"} =>
         \A f \in Transcript \ run.todo :
             IF f \in run.listed THEN f \in run.dirty \/ run.kept[f] = src[f]
                                 ELSE run.kept[f] = 0
    /\ run.phase \in {"store", "settle"} /\ Current \notin run.dirty
         => run.seen[Current] = src[Current]
    /\ run.phase = "settle" /\ Current \notin run.dirty => run.kept[Current] = src[Current]
    /\ run.phase = "recheck" =>
         \A f \in Transcript : f \in run.todo \cap run.dirty \/ run.kept[f] = run.moment[f]

BackupInv == BackupTypeOK /\ SealedInv /\ TurnInv /\ CaptureInv
=============================================================================
