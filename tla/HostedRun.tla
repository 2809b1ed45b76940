------------------------------ MODULE HostedRun ------------------------------
(***************************************************************************)
(* One Mac's hosted backup of its live history: the pending run it keeps   *)
(* in run.json, the journal of the snapshot it stages, the hint that lets  *)
(* a quiet run be skipped, the review that approves a deletion, and the    *)
(* abandonment of a run (HostedLiveBackupRun and what it calls).           *)
(*                                                                         *)
(* The process may end before and after every call, by an error or a kill: *)
(* that is also a request that never arrives, a reply that is lost, and a  *)
(* check that refuses. A publish request may arrive later. Codex changes   *)
(* the source in between, another Mac publishes to the same vault,         *)
(* reservations expire and are cleaned up.                                 *)
(*                                                                         *)
(* A conversation of size n has one chunk <<t, n>> and n messages; size 0  *)
(* is a conversation that is not there.  A chunk is encrypted anew by each *)
(* attempt that finds no ciphertext of it, so its bytes are told apart by  *)
(* a number.  The service is the one of HostedService, with its claims and *)
(* capabilities reduced to what this client can see.                       *)
(***************************************************************************)
EXTENDS Naturals, FiniteSets

CONSTANTS
  Runs,      \* snapshot ids this Mac draws, of its reservations too
  Peers,     \* snapshot ids of another Mac with the same vault
  Threads,   \* conversations
  Sources,   \* what Codex may have at first
  None,      \* no snapshot, no record
  MaxSize, MaxEdits

ASSUME NoneAssumption == None \notin Runs \cup Peers
ASSUME PeerAssumption == Runs \cap Peers = {}
ASSUME BoundAssumption ==
  /\ MaxSize \in Nat \ {0} /\ MaxEdits \in Nat
  /\ Sources \subseteq [Threads -> 0..MaxSize]

VARIABLES
  source,     \* the conversations Codex has now
  run,        \* run.json
  dir,        \* the folder of the run's journal exists
  receipts,   \* chunks.jsonl: whose bytes were checked with the service
  scratch,    \* ciphertext of the run on this Mac
  manifest,   \* the sealed manifest of the run
  bound,      \* manifest-binding.json
  candidate,  \* source-index-candidate.json
  hint,       \* source-index.json: snapshot and the files it was made of
  review,     \* the approved deletion and its receipt
  state, base, head, catalog,  \* the service's reservations and versions
  object,     \* whose bytes the provider stores for a chunk
  granted,    \* chunks that the pending reservation has put
  late,       \* runs whose publish request is still on its way
  pc, reviewed, noted, todo, staged, nonce,  \* the process
  answer,     \* what it has just told its user
  edits       \* how often Codex changed the source

journalVars == <<dir, receipts, scratch, manifest, bound, candidate>>
serviceVars == <<state, base, head, catalog, object, granted>>
memory == <<reviewed, noted, todo, staged, nonce>>
world == <<source, late, edits>>
vars == <<run, journalVars, hint, review, serviceVars, pc, memory, answer, world>>

Snapshots == Runs \cup Peers
Sizes == [Threads -> 0..MaxSize]
Rows == [size : 0..MaxSize, risk : BOOLEAN]
Manifests == [Threads -> Rows]
RunRecords == [id : Runs, phase : {"reserving", "active", "cleanup_pending"},
               base : Snapshots \cup {None}, reviewed : BOOLEAN]
Reviews == [base : Snapshots, source : Sizes, id : Runs \cup {None},
            outcome : {"open", "published", "abandoned"}]
Answers == [kind : {"none", "published", "unchanged", "released"},
            id : Snapshots \cup {None}, risk : SUBSET Threads, sizes : Sizes]
Chunks == Threads \X (1..MaxSize)
Ciphertexts == [Chunks -> 0..2]

ASSUME NoneIsNoRecord == None \notin RunRecords \cup Reviews \cup Manifests

Empty == [t \in Threads |-> 0]
NoRows == [t \in Threads |-> [size |-> 0, risk |-> FALSE]]
NoBytes == [c \in Chunks |-> 0]
SizesOf(rows) == [t \in Threads |-> rows[t].size]
Known(sizes) == {t \in Threads : sizes[t] > 0}
Risky(rows) == {t \in Threads : rows[t].risk}
NoAnswer == [kind |-> "none", id |-> None, risk |-> {}, sizes |-> Empty]

Backup == {"approve", "check", "compare", "recompare", "begin", "reserve", "activate",
           "status", "reopen", "again", "resume", "open", "prior", "stage",
           "put", "record", "discard", "seal", "bind", "index",
           "final", "publish", "confirm", "consume", "promote", "retire",
           "unlink"}
Abandoning == {"receipt", "giveUp", "quarantine", "mark", "clear", "unmark"}

TypeOK ==
  /\ source \in Sizes
  /\ run \in {None} \cup RunRecords
  /\ dir \in BOOLEAN /\ bound \in BOOLEAN
  /\ receipts \in Ciphertexts /\ scratch \in Ciphertexts /\ object \in Ciphertexts
  /\ manifest \in {None} \cup Manifests
  /\ candidate \in {None} \cup Sizes
  /\ hint \in {None} \cup [id : Runs, files : Sizes]
  /\ review \in {None} \cup Reviews
  /\ state \in [Runs -> {"none", "active", "lapsed", "published", "cleanup_pending",
                         "released"}]
  /\ base \in [Runs -> Snapshots \cup {None}]
  /\ head \in Snapshots \cup {None}
  /\ catalog \in [Snapshots -> Manifests]
  /\ granted \subseteq Chunks /\ late \subseteq Runs
  /\ pc \in {"idle"} \cup Backup \cup Abandoning
  /\ reviewed \in BOOLEAN /\ noted \in Snapshots \cup {None}
  /\ todo \subseteq Threads /\ staged \in Sizes /\ nonce \in 1..2
  /\ answer \in Answers
  /\ edits \in 0..MaxEdits

Init ==
  /\ source \in Sources
  /\ run = None /\ dir = FALSE /\ receipts = NoBytes /\ scratch = NoBytes
  /\ manifest = None /\ bound = FALSE /\ candidate = None
  /\ hint = None /\ review = None
  /\ state = [r \in Runs |-> "none"] /\ base = [r \in Runs |-> None]
  /\ head = None /\ catalog = [s \in Snapshots |-> NoRows]
  /\ object = NoBytes /\ granted = {} /\ late = {}
  /\ pc = "idle" /\ reviewed = FALSE /\ noted = None /\ todo = {}
  /\ staged = Empty /\ nonce = 1
  /\ answer = NoAnswer
  /\ edits = 0
-----------------------------------------------------------------------------
At(label) == pc = label
Goto(label) == pc' = label

\* The process ends: nothing of its memory is left.
Forget ==
  /\ Goto("idle")
  /\ reviewed' = FALSE /\ noted' = None /\ todo' = {} /\ staged' = Empty
  /\ UNCHANGED nonce

PriorOf(s) == IF s = None THEN NoRows ELSE catalog[s]
Chunk(t) == <<t, staged[t]>>
PublishedChunks ==
  UNION {{<<t, SizesOf(catalog[s])[t]>> : t \in Known(SizesOf(catalog[s]))} : s \in Snapshots}

\* missing_verified_threads: all that the base has and the staged files have not.
Missing(prior, sizes) == Known(SizesOf(prior)) \ Known(sizes)
\* loss_warnings: fewer messages than the base, or a risk the base had already.
Shortened(prior, sizes) ==
  {t \in Known(sizes) \cap Known(SizesOf(prior)) :
      prior[t].risk \/ sizes[t] < prior[t].size}
\* The manifest of the staged files.
RowsOf(sizes, prior) ==
  [t \in Threads |-> [size |-> sizes[t], risk |-> t \in Shortened(prior, sizes)]]

\* _deletions: something is missing, something is left, nothing is at risk.
Deletable(prior, sizes) ==
  /\ Risky(prior) = {} /\ Shortened(prior, sizes) = {}
  /\ Missing(prior, sizes) # {} /\ Known(sizes) # {}

\* _checked_approval, after check_authority.
ApprovalStands ==
  /\ review # None
  /\ review.outcome = "open"
  /\ head = review.base
  /\ source = review.source
  /\ Deletable(PriorOf(head), source)

\* _check_approved_publication and the coverage of what was published.
Approved(rows) ==
  run.reviewed => /\ SizesOf(rows) = review.source
                  /\ Risky(rows) = {}

\* prepare_rebaseline saves the review, it approves nothing.
PrepareReview ==
  /\ At("idle") /\ review = None
  /\ head # None
  /\ Deletable(PriorOf(head), source)
  /\ review' = [base |-> head, source |-> source, id |-> None, outcome |-> "open"]
  /\ UNCHANGED <<run, journalVars, hint, serviceVars, pc, memory, world>>
  /\ answer' = NoAnswer

\* back_up_live_history, with the ID of a review or without.
Start(withReview) ==
  /\ At("idle")
  /\ run # None => run.reviewed = withReview /\ run.phase # "cleanup_pending"
  /\ reviewed' = withReview
  /\ answer' = NoAnswer
  /\ Goto(IF run = None THEN (IF withReview THEN "approve" ELSE "check")
          ELSE IF run.phase = "reserving" THEN "reserve" ELSE "status")
  /\ UNCHANGED <<run, journalVars, hint, review, serviceVars, noted, todo, staged,
                 nonce, world>>

Approve ==
  /\ At("approve") /\ ApprovalStands
  /\ Goto("begin")
  /\ UNCHANGED <<run, journalVars, hint, review, serviceVars, memory, answer, world>>
-----------------------------------------------------------------------------
(* unchanged_published_history.                                            *)

Check ==
  /\ At("check")
  /\ noted' = head
  /\ Goto("compare")
  /\ UNCHANGED <<run, journalVars, hint, review, serviceVars, reviewed, todo, staged,
                 nonce, answer, world>>

\* Mutant: the hint's files are not compared.
HintFitsById == hint # None /\ hint.id = noted

\* The hint is of the noted version and of the files there are now; its
\* catalog is read while it still is the last one.
HintFits == hint # None /\ hint.id = noted /\ hint.files = source

Compare ==
  /\ At("compare")
  /\ IF HintFits THEN head = noted ELSE TRUE
  /\ Goto(IF HintFits THEN "recompare" ELSE "begin")
  /\ UNCHANGED <<run, journalVars, hint, review, serviceVars, memory, answer, world>>

\* Files and version are read once more, then the user is told.
Unchanged ==
  /\ At("recompare")
  /\ IF HintFits /\ head = noted
     THEN /\ answer' = [kind |-> "unchanged", id |-> noted,
                        risk |-> Risky(catalog[noted]), sizes |-> source]
          /\ Forget
     ELSE /\ Goto("begin")
          /\ UNCHANGED <<memory, answer>>
  /\ UNCHANGED <<run, journalVars, hint, review, serviceVars, world>>
-----------------------------------------------------------------------------
(* The reservation.                                                        *)

NewRun(r) == [id |-> r, phase |-> "reserving", base |-> None, reviewed |-> reviewed]

\* Mutant: the reservation is asked for before its ID is on the device.
BeginUnrecorded(r) ==
  /\ At("begin") /\ state[r] = "none"
  /\ state' = [state EXCEPT ![r] = "active"]
  /\ base' = [base EXCEPT ![r] = head]
  /\ Goto("reserve")
  /\ UNCHANGED <<run, journalVars, hint, review, head, catalog, object, granted,
                 memory, answer, world>>

\* The random IDs are on the device before the first request.
Begin(r) ==
  /\ At("begin") /\ state[r] = "none"
  /\ run' = NewRun(r)
  /\ Goto("reserve")
  /\ UNCHANGED <<journalVars, hint, review, serviceVars, memory, answer, world>>

\* reserve_upload: the same ID again reads what the first request wrote.
Reserve ==
  /\ At("reserve")
  /\ \/ /\ state[run.id] = "none"
        /\ state' = [state EXCEPT ![run.id] = "active"]
        /\ base' = [base EXCEPT ![run.id] = head]
        /\ granted' = {}
     \/ /\ state[run.id] = "active"
        /\ UNCHANGED <<state, base, granted>>
  /\ Goto("activate")
  /\ UNCHANGED <<run, journalVars, hint, review, head, catalog, object, memory,
                 answer, world>>

Activate ==
  /\ At("activate")
  /\ run.reviewed => base[run.id] = review.base
  /\ run' = [run EXCEPT !.phase = "active", !.base = base[run.id]]
  /\ Goto(IF run.reviewed THEN "resume" ELSE "open")
  /\ UNCHANGED <<journalVars, hint, review, serviceVars, memory, answer, world>>

\* reservation_receipt of a run that was active before.
Status ==
  /\ At("status")
  /\ state[run.id] \in {"active", "lapsed", "published"}
  /\ Goto(IF state[run.id] = "published" THEN "reopen" ELSE "again")
  /\ UNCHANGED <<run, journalVars, hint, review, serviceVars, memory, answer, world>>

\* prior_catalog opens the last version only.
Readable(s) == head = s

\* The reply to the publish request was lost: the version is opened again.
Reopen ==
  /\ At("reopen")
  /\ Readable(run.id) /\ Approved(catalog[run.id])
  /\ Goto(IF run.reviewed THEN "consume" ELSE "promote")
  /\ UNCHANGED <<run, journalVars, hint, review, serviceVars, memory, answer, world>>

ReserveAgain ==
  /\ At("again")
  /\ state[run.id] = "active" /\ base[run.id] = run.base
  /\ Goto(IF run.reviewed THEN "resume" ELSE "open")
  /\ UNCHANGED <<run, journalVars, hint, review, serviceVars, memory, answer, world>>

\* A consumed review and one that no longer fits end the attempt.
Resume ==
  /\ At("resume")
  /\ ApprovalStands
  /\ Goto("open")
  /\ UNCHANGED <<run, journalVars, hint, review, serviceVars, memory, answer, world>>
-----------------------------------------------------------------------------
(* Staging.                                                                *)

\* HostedChunkJournal.__enter__: a torn receipt is cut off, it has not
\* authorised anything.
Open ==
  /\ At("open")
  /\ dir' = TRUE
  /\ nonce' = 3 - nonce
  /\ Goto("prior")
  /\ UNCHANGED <<run, receipts, scratch, manifest, bound, candidate, hint,
                 review, serviceVars, reviewed, noted, todo, staged, answer, world>>

\* stage_reserved_hosted_snapshot and the first checks of stage_hosted_snapshot.
Prior ==
  /\ At("prior")
  /\ Readable(run.base)
  /\ Known(SizesOf(PriorOf(run.base))) # {} => Known(source) # {}
  /\ run.reviewed => source = review.source
  /\ todo' = Known(source)
  /\ Goto("stage")
  /\ UNCHANGED <<run, journalVars, hint, review, serviceVars, reviewed, noted, staged,
                 nonce, answer, world>>

Current == CHOOSE t \in todo : TRUE
Next1 == <<Current, source[Current]>>

Staged(t) == todo' = todo \ {t}

\* _reusable_chunks: a published chunk, or one with a receipt that the
\* service confirms, is not encrypted again; its old ciphertext goes.
Reuse ==
  /\ At("stage") /\ todo # {} /\ source[Current] > 0
  /\ \/ Next1 \in PublishedChunks /\ receipts[Next1] \in {0, object[Next1]}
     \/ receipts[Next1] # 0 /\ object[Next1] = receipts[Next1]
  /\ staged' = [staged EXCEPT ![Current] = source[Current]]
  /\ Staged(Current)
  /\ scratch' = IF receipts[Next1] # 0 THEN [scratch EXCEPT ![Next1] = 0] ELSE scratch
  /\ UNCHANGED <<run, dir, receipts, manifest, bound, candidate, hint, review,
                 serviceVars, pc, reviewed, noted, nonce, answer, world>>

\* store-chunks-with-known: ciphertext that is there is kept.
Encrypt ==
  /\ At("stage") /\ todo # {} /\ source[Current] > 0
  /\ Next1 \notin PublishedChunks /\ receipts[Next1] = 0
  /\ staged' = [staged EXCEPT ![Current] = source[Current]]
  /\ scratch' = [scratch EXCEPT ![Next1] = IF @ = 0 THEN nonce ELSE @]
  /\ Goto("put")
  /\ UNCHANGED <<run, dir, receipts, manifest, bound, candidate, hint, review,
                 serviceVars, reviewed, noted, todo, nonce, answer, world>>

\* stage_encrypted_object: nothing or the same bytes under the key.
Put ==
  /\ At("put")
  /\ state[run.id] = "active"
  /\ object[Chunk(Current)] \in {0, scratch[Chunk(Current)]}
  /\ object' = [object EXCEPT ![Chunk(Current)] = scratch[Chunk(Current)]]
  /\ granted' = granted \cup {Chunk(Current)}
  /\ Goto("record")
  /\ UNCHANGED <<run, journalVars, hint, review, state, base, head, catalog, memory,
                 answer, world>>

\* Mutant: the ciphertext goes before its receipt is on the device.
RecordLast ==
  /\ At("record")
  /\ scratch' = [scratch EXCEPT ![Chunk(Current)] = 0]
  /\ Goto("discard")
  /\ UNCHANGED <<run, dir, receipts, manifest, bound, candidate, hint, review,
                 serviceVars, memory, answer, world>>

\* HostedChunkJournal.record and its sync.
Record ==
  /\ At("record")
  /\ receipts' = [receipts EXCEPT ![Chunk(Current)] = object[Chunk(Current)]]
  /\ Goto("discard")
  /\ UNCHANGED <<run, dir, scratch, manifest, bound, candidate, hint, review,
                 serviceVars, memory, answer, world>>

\* _discard_journaled_scratch, of the chunks just recorded.
Discard ==
  /\ At("discard")
  /\ scratch' = [scratch EXCEPT ![Chunk(Current)] = 0]
  /\ Staged(Current)
  /\ Goto("stage")
  /\ UNCHANGED <<run, dir, receipts, manifest, bound, candidate, hint, review,
                 serviceVars, reviewed, noted, staged, nonce, answer, world>>

\* Mutant: a conversation that disappeared passes.
GuardsLossless(prior) == TRUE

\* The loss guards: what the base has and the source has not stops a run
\* without a review, any risk stops a run with one.
Guards(prior) ==
  IF run.reviewed
  THEN Deletable(prior, staged) /\ staged = review.source
  ELSE Missing(prior, staged) = {}

\* Every file is still what was staged.
Recheck ==
  /\ At("stage") /\ todo = {}
  /\ source = staged
  /\ Guards(PriorOf(run.base))
  /\ Goto("seal")
  /\ UNCHANGED <<run, journalVars, hint, review, serviceVars, memory, answer, world>>

\* stage_hosted_manifest: a manifest that was sealed is never sealed again.
Seal ==
  /\ At("seal")
  /\ LET rows == RowsOf(staged, PriorOf(run.base)) IN
     \/ manifest = None /\ ~bound /\ manifest' = rows
     \/ manifest = rows /\ UNCHANGED manifest
  /\ Goto("bind")
  /\ UNCHANGED <<run, dir, receipts, scratch, bound, candidate, hint, review,
                 serviceVars, memory, answer, world>>

Bind ==
  /\ At("bind")
  /\ bound' = TRUE
  /\ Goto("index")
  /\ UNCHANGED <<run, dir, receipts, scratch, manifest, candidate, hint, review,
                 serviceVars, memory, answer, world>>

\* Mutant: the facts of the source of now, not of what was staged.
IndexNow ==
  /\ At("index")
  /\ candidate' = source
  /\ Goto(IF run.reviewed THEN "final" ELSE "publish")
  /\ UNCHANGED <<run, dir, receipts, scratch, manifest, bound, hint, review,
                 serviceVars, memory, answer, world>>

\* record_source_facts.
Index ==
  /\ At("index")
  /\ candidate \in {None, staged}
  /\ candidate' = staged
  /\ Goto(IF run.reviewed THEN "final" ELSE "publish")
  /\ UNCHANGED <<run, dir, receipts, scratch, manifest, bound, hint, review,
                 serviceVars, memory, answer, world>>

\* check_current, the last look before an approved deletion is published.
Final ==
  /\ At("final")
  /\ source = review.source
  /\ Goto("publish")
  /\ UNCHANGED <<run, journalVars, hint, review, serviceVars, memory, answer, world>>
-----------------------------------------------------------------------------
(* Publication.                                                            *)

Publishable(r) == state[r] = "active" /\ base[r] = head

Published(r) ==
  /\ state' = [state EXCEPT ![r] = "published"]
  /\ head' = r
  /\ catalog' = [catalog EXCEPT ![r] = manifest]
  /\ UNCHANGED <<base, object, granted>>

\* publish_hosted_stage: the pages, their proofs and the publication.
Publish ==
  /\ At("publish")
  /\ \A t \in Known(staged) :
       object[Chunk(t)] # 0 /\ receipts[Chunk(t)] \in {0, object[Chunk(t)]}
  /\ Publishable(run.id)
  /\ Published(run.id)
  /\ Goto("confirm")
  /\ UNCHANGED <<run, journalVars, hint, review, memory, answer, world>>

Confirm ==
  /\ At("confirm")
  /\ run.reviewed => Readable(run.id) /\ Approved(catalog[run.id])
  /\ Goto(IF run.reviewed THEN "consume" ELSE "promote")
  /\ UNCHANGED <<run, journalVars, hint, review, serviceVars, memory, answer, world>>

\* consume_review: once with one outcome, then only that.
Consumed(outcome) ==
  IF run.reviewed
  THEN /\ review.outcome \in {"open", outcome}
       /\ review' = [review EXCEPT !.outcome = outcome, !.id = run.id]
  ELSE UNCHANGED review

Consume ==
  /\ At("consume")
  /\ Consumed("published")
  /\ Goto("promote")
  /\ UNCHANGED <<run, journalVars, hint, serviceVars, memory, answer, world>>

\* promote_source_facts.
Promote ==
  /\ At("promote")
  /\ hint' = IF dir /\ candidate # None
             THEN [id |-> run.id, files |-> candidate] ELSE hint
  /\ Goto("retire")
  /\ UNCHANGED <<run, journalVars, review, serviceVars, memory, answer, world>>

\* _retire_published_journal keeps ciphertext that has no receipt.
Retirable(released) == dir => released \/ scratch = NoBytes

Retired ==
  /\ dir' = FALSE /\ receipts' = NoBytes /\ scratch' = NoBytes
  /\ manifest' = None /\ bound' = FALSE /\ candidate' = None

Retire ==
  /\ At("retire") /\ Retirable(FALSE)
  /\ Retired
  /\ Goto("unlink")
  /\ UNCHANGED <<run, hint, review, serviceVars, memory, answer, world>>

\* The risk is what was staged or, after a lost reply, what was opened.
ReportedRisk ==
  IF staged = Empty THEN Risky(catalog[run.id])
  ELSE Shortened(PriorOf(run.base), staged)

\* run.json goes last; then the user is told.
Unlink ==
  /\ At("unlink")
  /\ run' = None
  /\ answer' = [kind |-> "published", id |-> run.id, risk |-> ReportedRisk,
                sizes |-> SizesOf(catalog[run.id])]
  /\ Forget
  /\ UNCHANGED <<journalVars, hint, review, serviceVars, world>>
-----------------------------------------------------------------------------
(* abandon_pending, for the exact reservation its user was shown.          *)

Abandon ==
  /\ At("idle") /\ run # None
  /\ answer' = NoAnswer
  /\ Goto("receipt")
  /\ UNCHANGED <<run, journalVars, hint, review, serviceVars, memory, world>>

Receipt ==
  /\ At("receipt")
  /\ \/ /\ state[run.id] \in {"active", "lapsed"} /\ run.phase # "cleanup_pending"
        /\ Goto("giveUp")
     \/ /\ state[run.id] \in {"cleanup_pending", "released"}
        /\ Goto("mark")
  /\ UNCHANGED <<run, journalVars, hint, review, serviceVars, memory, answer, world>>

\* The review is consumed first, so that a lost reply does not leave it open.
GiveUp ==
  /\ At("giveUp")
  /\ Consumed("abandoned")
  /\ Goto("quarantine")
  /\ UNCHANGED <<run, journalVars, hint, serviceVars, memory, answer, world>>

\* abandon_upload_reservation; when it fails the reservation is read again.
Quarantine ==
  /\ At("quarantine")
  /\ state[run.id] \in {"active", "lapsed", "cleanup_pending", "released"}
  /\ state' = IF state[run.id] = "released" THEN state
              ELSE [state EXCEPT ![run.id] = "cleanup_pending"]
  /\ Goto("mark")
  /\ UNCHANGED <<run, journalVars, hint, review, base, head, catalog, object, granted,
                 memory, answer, world>>

Mark ==
  /\ At("mark")
  /\ Consumed("abandoned")
  /\ run' = [run EXCEPT !.phase = "cleanup_pending"]
  /\ IF state[run.id] = "released"
     THEN Goto("clear") /\ UNCHANGED <<memory, answer>>
     ELSE Forget /\ UNCHANGED answer
  /\ UNCHANGED <<journalVars, hint, serviceVars, world>>

Clear ==
  /\ At("clear") /\ Retirable(TRUE)
  /\ Retired
  /\ Goto("unmark")
  /\ UNCHANGED <<run, hint, review, serviceVars, memory, answer, world>>

Unmark ==
  /\ At("unmark")
  /\ run' = None
  /\ answer' = [NoAnswer EXCEPT !.kind = "released", !.id = run.id]
  /\ Forget
  /\ UNCHANGED <<journalVars, hint, review, serviceVars, world>>
-----------------------------------------------------------------------------
(* What may happen at any time.                                            *)

Stop ==
  /\ pc # "idle"
  /\ Forget
  /\ late' \in IF At("publish") THEN {late, late \cup {run.id}} ELSE {late}
  /\ UNCHANGED <<run, journalVars, hint, review, serviceVars, answer, source, edits>>

\* A publish request that the process did not wait for.
Arrive(r) ==
  /\ r \in late
  /\ late' = late \ {r}
  /\ IF Publishable(r) THEN Published(r) ELSE UNCHANGED serviceVars
  /\ UNCHANGED <<run, journalVars, hint, review, pc, memory, source, edits>>
  /\ answer' = NoAnswer

\* Codex adds a message, rewrites a conversation, deletes or starts one.
Edit(t) ==
  /\ edits < MaxEdits
  /\ edits' = edits + 1
  /\ \E n \in 0..MaxSize \ {source[t]} : source' = [source EXCEPT ![t] = n]
  /\ UNCHANGED <<run, journalVars, hint, review, serviceVars, pc, memory, late>>
  /\ answer' = NoAnswer

\* Another Mac publishes the same history, or the first version of it.
PeerPublish(p) ==
  /\ catalog[p] = NoRows
  /\ LET rows == IF head = None THEN RowsOf(source, NoRows) ELSE catalog[head]
         chunks == {<<t, rows[t].size>> : t \in Known(SizesOf(rows))} IN
     /\ chunks # {}
     /\ \A c \in chunks : object[c] = 0 \/ c \in PublishedChunks
     /\ catalog' = [catalog EXCEPT ![p] = rows]
     /\ object' = [c \in Chunks |-> IF c \in chunks /\ object[c] = 0 THEN 1 ELSE object[c]]
  /\ head' = p
  /\ UNCHANGED <<run, journalVars, hint, review, state, base, granted, pc, memory,
                 world>>
  /\ answer' = NoAnswer

Lapse(r) ==
  /\ state[r] = "active"
  /\ state' = [state EXCEPT ![r] = "lapsed"]
  /\ UNCHANGED <<run, journalVars, hint, review, base, head, catalog, object, granted,
                 pc, memory, world>>
  /\ answer' = NoAnswer

ClaimCleanup(r) ==
  /\ state[r] = "lapsed"
  /\ state' = [state EXCEPT ![r] = "cleanup_pending"]
  /\ UNCHANGED <<run, journalVars, hint, review, base, head, catalog, object, granted,
                 pc, memory, world>>
  /\ answer' = NoAnswer

\* The cleanup of HostedService, as far as a client can see it.
Release(r) ==
  /\ state[r] = "cleanup_pending"
  /\ state' = [state EXCEPT ![r] = "released"]
  /\ object' = [c \in Chunks |->
                  IF c \in granted \ PublishedChunks THEN 0 ELSE object[c]]
  /\ granted' = {}
  /\ UNCHANGED <<run, journalVars, hint, review, base, head, catalog, pc, memory,
                 world>>
  /\ answer' = NoAnswer
-----------------------------------------------------------------------------
BackUp ==
  \/ \E withReview \in BOOLEAN : Start(withReview)
  \/ Approve \/ Check \/ Compare \/ Unchanged
  \/ \E r \in Runs : Begin(r)
  \/ Reserve \/ Activate \/ Status \/ Reopen \/ ReserveAgain \/ Resume
  \/ Open \/ Prior \/ Reuse \/ Encrypt \/ Put \/ Record \/ Discard
  \/ Recheck \/ Seal \/ Bind \/ Index \/ Final
  \/ Publish \/ Confirm \/ Consume \/ Promote \/ Retire \/ Unlink

AbandonPending ==
  \/ Abandon \/ Receipt \/ GiveUp \/ Quarantine \/ Mark \/ Clear \/ Unmark

World ==
  \/ \E r \in Runs : Arrive(r) \/ Lapse(r) \/ ClaimCleanup(r) \/ Release(r)
  \/ \E t \in Threads : Edit(t)
  \/ \E p \in Peers : PeerPublish(p)

Next == PrepareReview \/ BackUp \/ AbandonPending \/ Stop \/ World

Spec == Init /\ [][Next]_vars
-----------------------------------------------------------------------------
\* Whatever replies are lost, a reservation that holds quota is the one this
\* Mac has on record and can resume or abandon.
OneReservation ==
  \A r \in Runs : state[r] \in {"active", "lapsed", "cleanup_pending"} =>
    run # None /\ run.id = r

\* A version that has lost something says so: a conversation of the version
\* it replaced is missing only under the one review that names the run, one
\* that was shortened, then or earlier, is marked at risk.
NamesLoss(r) ==
  LET prior == PriorOf(base[r])
      rows == catalog[r] IN
  /\ \A t \in Known(SizesOf(prior)) \cap Known(SizesOf(rows)) :
       prior[t].risk \/ rows[t].size < prior[t].size => rows[t].risk
  /\ Missing(prior, SizesOf(rows)) # {} =>
       /\ review # None
       /\ review.base = base[r] /\ review.source = SizesOf(rows)
       /\ review.id = r \/ (run # None /\ run.id = r /\ run.reviewed)
LossIsKnown == \A r \in Runs : state[r] = "published" => NamesLoss(r)

\* The hint that lets a backup be skipped names a published version and the
\* very files that version was made of.
HintIsTrue ==
  hint # None => /\ state[hint.id] = "published"
                 /\ hint.files = SizesOf(catalog[hint.id])

\* What the user is told: a published version is one, at the risk it was told
\* to be at; an unchanged one holds the files that were there; a released
\* reservation holds nothing.
AnswersAreTrue ==
  /\ answer.kind \in {"published", "unchanged"} =>
       /\ state[answer.id] = "published"
       /\ answer.risk = Risky(catalog[answer.id])
       /\ answer.sizes = SizesOf(catalog[answer.id])
  /\ answer.kind = "released" => state[answer.id] = "released"

\* The bytes that are stored for an unfinished run are known to this Mac, by
\* a receipt or by the ciphertext itself: a retry can name them exactly.
RetryIsExact ==
  run # None /\ dir /\ state[run.id] \in {"active", "lapsed"} =>
    \A c \in granted : object[c] \in {receipts[c], scratch[c]}
=============================================================================
