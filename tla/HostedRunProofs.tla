--------------------------- MODULE HostedRunProofs ---------------------------
(***************************************************************************)
(* The hosted backup of a Mac's live history keeps its one reservation,    *)
(* names every loss, skips only what is published, answers truly and can   *)
(* retry exactly, for any number of runs, peers, conversations and edits.  *)
(*                                                                         *)
(* RunInv is inductive.  The process works on the run on record            *)
(* (ProcessInv), whose journal exists from its activation to its end       *)
(* (RecordInv); a review is for one run (ReviewInv); the sealed manifest   *)
(* is of files that passed the loss guards against the run's base, and the *)
(* base is a version that never changes (ManifestInv, VersionInv), so that *)
(* a publish request that arrives late publishes the same; and a chunk     *)
(* that was put has its bytes on the Mac (GrantInv).                       *)
(***************************************************************************)
EXTENDS HostedRun, TLAPS

Fresh == {"approve", "check", "compare", "recompare", "begin"}
Staging == {"stage", "put", "record", "discard"}
Sealed == {"bind", "index", "final", "publish"}
Finished == {"confirm", "consume", "promote", "retire", "unlink"}
Journalled == {"prior", "seal"} \cup Staging \cup Sealed
Active == {"status", "again", "resume", "open", "reopen"} \cup Journalled \cup Finished

Version(s) == IF s \in Runs THEN state[s] = "published" ELSE catalog[s] # NoRows
Holds(r) == state[r] \in {"active", "lapsed"}

\* A process works on the run on record, or looks whether it needs one.
ProcessInv ==
  /\ pc \in Fresh => run = None
  /\ pc \in {"check", "compare", "recompare"} => ~reviewed
  /\ pc \notin {"idle"} \cup Fresh => run # None
  /\ pc \in {"reserve", "activate"} => run.phase = "reserving"
  /\ pc = "activate" => state[run.id] # "none"
  /\ pc \in Active => run.phase = "active"
  /\ pc \in Finished \cup {"reopen"} => state[run.id] = "published"
  /\ pc \in {"clear", "unmark"} => state[run.id] = "released"
  /\ pc = "mark" => state[run.id] \in {"cleanup_pending", "released"}
  /\ pc \in Journalled => dir
  /\ pc \notin Journalled \cup Finished => staged = Empty

\* What the record says of its reservation, and that nothing else of a run is
\* on the Mac before it is active and when its record goes.
RecordInv ==
  /\ run = None \/ run.phase = "reserving" \/ pc \in {"unlink", "unmark"} =>
       /\ ~dir /\ receipts = NoBytes /\ scratch = NoBytes
       /\ manifest = None /\ ~bound /\ candidate = None
  /\ run # None =>
       /\ run.phase = "reserving" => state[run.id] # "published" /\ run.id \notin late
       /\ run.phase = "active" => base[run.id] = run.base /\ state[run.id] # "none"
       /\ run.phase = "cleanup_pending" => state[run.id] \in {"cleanup_pending", "released"}
  /\ \A r \in late : state[r] # "none"

\* A review is for one run.
ReviewInv ==
  /\ review # None /\ review.outcome = "open" => review.id = None
  /\ pc = "begin" /\ reviewed => review # None /\ review.outcome = "open"
  /\ run # None /\ run.reviewed =>
       /\ review # None /\ review.id \in {None, run.id}
       /\ run.phase = "active" => review.base = run.base
       /\ pc \in {"promote", "retire", "unlink"} => review.id = run.id

\* Files the run may publish as they are.
Passed(sizes) ==
  IF run.reviewed THEN sizes = review.source
                  ELSE Missing(PriorOf(run.base), sizes) = {}

\* The sealed manifest is of files that passed, and is what gets published.
ManifestInv ==
  /\ pc = "seal" => Passed(staged)
  /\ pc \in Sealed => manifest = RowsOf(staged, PriorOf(run.base))
  /\ manifest # None =>
       /\ run # None /\ run.phase # "reserving"
       /\ run.phase = "active" =>
            /\ Passed(SizesOf(manifest))
            /\ manifest = RowsOf(SizesOf(manifest), PriorOf(run.base))
            /\ state[run.id] = "published" => catalog[run.id] = manifest
  /\ pc \in {"again", "resume", "open"} \cup Journalled /\ state[run.id] = "published" =>
       manifest # None
  /\ candidate # None => manifest # None /\ candidate = SizesOf(manifest)
  /\ \A r \in late : state[r] = "active" => manifest # None
  /\ pc \in Finished =>
       staged = Empty \/ catalog[run.id] = RowsOf(staged, PriorOf(run.base))

\* Reservations and the head are based on versions, which never change.
VersionInv ==
  /\ head # None => Version(head)
  /\ \A r \in Runs : base[r] # None => Version(base[r])

\* A chunk that has been put is stored, under the run's journal.
GrantInv ==
  /\ run # None /\ Holds(run.id) =>
       /\ granted # {} => dir
       /\ \A c \in granted : object[c] # 0
       /\ pc \in {"record", "discard"} => Chunk(Current) \in granted
       /\ pc = "discard" => receipts[Chunk(Current)] = object[Chunk(Current)]
  /\ pc \in {"put", "record", "discard"} => todo # {} /\ Chunk(Current) \in Chunks
  /\ pc = "put" => scratch[Chunk(Current)] # 0

AnswerInv ==
  answer.kind \in {"published", "unchanged", "released"} => answer.id \in Runs

RunInv ==
  /\ TypeOK /\ ProcessInv /\ RecordInv /\ ReviewInv /\ ManifestInv
  /\ VersionInv /\ GrantInv /\ AnswerInv
  /\ OneReservation /\ LossIsKnown /\ HintIsTrue /\ AnswersAreTrue
  /\ RetryIsExact

-----------------------------------------------------------------------------
(* Facts about the model's operators. *)

\* The empty folder, catalog and store are of their kinds, and so are the
\* sizes, the losses and the knowledge taken from rows.
LEMMA Sized ==
  /\ Empty \in Sizes /\ NoRows \in Manifests /\ NoBytes \in Ciphertexts
  /\ \A rows \in Manifests : SizesOf(rows) \in Sizes /\ Risky(rows) \subseteq Threads
  /\ \A sizes \in Sizes : Known(sizes) \subseteq Threads
  /\ NoAnswer \in Answers
<1>1. Empty \in Sizes /\ NoRows \in Manifests
  BY BoundAssumption DEF Empty, Sizes, NoRows, Manifests, Rows
<1>2. NoBytes \in Ciphertexts
  BY DEF NoBytes, Ciphertexts
<1>3. \A rows \in Manifests : SizesOf(rows) \in Sizes /\ Risky(rows) \subseteq Threads
  BY DEF Manifests, Rows, SizesOf, Sizes, Risky
<1>4. \A sizes \in Sizes : Known(sizes) \subseteq Threads
  BY DEF Known
<1> QED BY <1>1, <1>2, <1>3, <1>4 DEF NoAnswer, Answers

\* The rows of staged files hold their sizes, and their risk is the loss.
LEMMA RowsFacts ==
  ASSUME NEW sizes \in Sizes, NEW prior \in Manifests
  PROVE  /\ RowsOf(sizes, prior) \in Manifests
         /\ SizesOf(RowsOf(sizes, prior)) = sizes
         /\ Risky(RowsOf(sizes, prior)) = Shortened(prior, sizes)
         /\ \A t \in Threads : RowsOf(sizes, prior)[t].size = sizes[t]
         /\ \A t \in Known(SizesOf(prior)) \cap Known(sizes) :
              prior[t].risk \/ sizes[t] < prior[t].size => RowsOf(sizes, prior)[t].risk
<1>1. RowsOf(sizes, prior) \in Manifests
  BY DEF RowsOf, Manifests, Rows, Sizes
<1>2. \A t \in Threads : /\ RowsOf(sizes, prior)[t].size = sizes[t]
                         /\ RowsOf(sizes, prior)[t].risk = (t \in Shortened(prior, sizes))
  BY DEF RowsOf
<1>3. SizesOf(RowsOf(sizes, prior)) = sizes
  BY <1>2 DEF SizesOf, Sizes
<1>4. Shortened(prior, sizes) \subseteq Threads
  BY DEF Shortened, Known
<1>5. Risky(RowsOf(sizes, prior)) = Shortened(prior, sizes)
  BY <1>2, <1>4 DEF Risky
<1>6. \A t \in Known(SizesOf(prior)) \cap Known(sizes) :
        prior[t].risk \/ sizes[t] < prior[t].size => RowsOf(sizes, prior)[t].risk
  BY <1>2 DEF Shortened, Known
<1> QED BY <1>1, <1>2, <1>3, <1>5, <1>6

\* The rows of a base, or of no base, are a manifest.
LEMMA PriorTyped ==
  ASSUME TypeOK, NEW s \in Snapshots \cup {None}
  PROVE  PriorOf(s) \in Manifests
BY Sized DEF PriorOf, TypeOK, Manifests

\* The file in hand is one still to do.
LEMMA CurrentIn == todo # {} => Current \in todo
BY DEF Current

\* A run on record, a review and a sealed manifest are no None.
LEMMA Somewhere ==
  /\ \A x \in RunRecords \cup Reviews \cup Manifests : x # None
  /\ None \notin Runs /\ None \notin Peers
  /\ \A r \in Runs : r \in Snapshots /\ r \notin Peers
  /\ \A p \in Peers : p \in Snapshots /\ p \notin Runs
BY NoneIsNoRecord, NoneAssumption, PeerAssumption DEF Snapshots

\* The run on record and the review.
LEMMA Recorded ==
  ASSUME TypeOK
  PROVE  /\ run # None => /\ run \in RunRecords /\ run.id \in Runs
                          /\ run.phase \in {"reserving", "active", "cleanup_pending"}
                          /\ run.base \in Snapshots \cup {None} /\ run.reviewed \in BOOLEAN
         /\ review # None => /\ review \in Reviews /\ review.base \in Snapshots
                             /\ review.source \in Sizes /\ review.id \in Runs \cup {None}
BY DEF TypeOK, RunRecords, Reviews

\* What a run is based on is there and does not change.
LEMMA BaseIsVersion ==
  ASSUME RunInv, run # None, run.phase = "active"
  PROVE  /\ run.id \in Runs /\ base[run.id] = run.base /\ run.base \in Snapshots \cup {None}
         /\ run.base # None => Version(run.base)
BY Recorded DEF RunInv, RecordInv, VersionInv

\* A reservation that holds quota is that of the run on record.
LEMMA HolderIsRecorded ==
  ASSUME RunInv, NEW r \in Runs, state[r] \in {"active", "lapsed", "cleanup_pending"}
  PROVE  run # None /\ run.id = r
BY DEF RunInv, OneReservation

\* A version goes on naming its losses while it and its base stay, and the
\* review that names it does.
LEMMA LossStays ==
  ASSUME NEW r \in Runs, NamesLoss(r), catalog'[r] = catalog[r], base'[r] = base[r],
         base[r] # None => catalog'[base[r]] = catalog[base[r]],
         review # None /\ (review.id = r \/ (run # None /\ run.id = r /\ run.reviewed)) =>
           /\ review' # None
           /\ review'.base = review.base /\ review'.source = review.source
           /\ review'.id = r \/ (run' # None /\ run'.id = r /\ run'.reviewed)
  PROVE  NamesLoss(r)'
<1>1. PriorOf(base[r])' = PriorOf(base[r])
  BY DEF PriorOf
<1> QED BY <1>1 DEF NamesLoss

\* A review that is consumed is of the run, and otherwise what it was.
LEMMA ConsumedFacts ==
  ASSUME RunInv, run # None, NEW outcome \in {"published", "abandoned"}, Consumed(outcome)
  PROVE  /\ review' \in {None} \cup Reviews
         /\ run.reviewed => /\ review # None /\ review' # None /\ review' \in Reviews
                            /\ review'.base = review.base /\ review'.source = review.source
                            /\ review'.id = run.id /\ review'.outcome = outcome
         /\ ~run.reviewed => review' = review
<1>1. TypeOK /\ (run.reviewed => review # None)
  BY DEF RunInv, ReviewInv
<1>2. CASE run.reviewed
  <2>1. review' = [review EXCEPT !.outcome = outcome, !.id = run.id]
    BY <1>2 DEF Consumed
  <2>2. review \in Reviews /\ run.id \in Runs
    BY <1>1, <1>2, Recorded
  <2>3. /\ review' \in Reviews /\ review'.base = review.base /\ review'.source = review.source
        /\ review'.id = run.id /\ review'.outcome = outcome
    BY <2>1, <2>2 DEF Reviews
  <2> QED BY <1>1, <1>2, <2>3, Somewhere
<1>3. CASE ~run.reviewed
  BY <1>1, <1>3 DEF Consumed, TypeOK
<1> QED BY <1>2, <1>3

\* The publication of the run's sealed manifest, now or late.
LEMMA PublicationKeeps ==
  ASSUME RunInv, run # None, run.phase = "active", manifest # None,
         Publishable(run.id), Published(run.id), UNCHANGED <<run, journalVars, hint, review>>
  PROVE  /\ state' \in [Runs -> {"none", "active", "lapsed", "published", "cleanup_pending",
                                 "released"}]
         /\ head' \in Snapshots /\ catalog' \in [Snapshots -> Manifests]
         /\ state'[run.id] = "published" /\ catalog'[run.id] = manifest
         /\ state[run.id] = "active" /\ run.id \in Runs
         /\ \A r \in Runs : r # run.id => state'[r] = state[r]
         /\ \A s \in Snapshots : s # run.id => catalog'[s] = catalog[s]
         /\ PriorOf(run.base)' = PriorOf(run.base)
         /\ VersionInv' /\ LossIsKnown' /\ HintIsTrue' /\ OneReservation'
<1>1. TypeOK /\ VersionInv /\ ManifestInv /\ LossIsKnown /\ HintIsTrue /\ OneReservation
  BY DEF RunInv
<1>2. /\ run.id \in Runs /\ run.id \in Snapshots /\ run.id # None
      /\ base[run.id] = run.base /\ run.base \in Snapshots \cup {None}
      /\ state[run.id] = "active"
      /\ run.base # None => Version(run.base) /\ run.base # run.id
  BY BaseIsVersion, Somewhere DEF Publishable, Version
<1>3. /\ state' = [state EXCEPT ![run.id] = "published"] /\ head' = run.id
      /\ catalog' = [catalog EXCEPT ![run.id] = manifest] /\ base' = base
  BY DEF Published
<1>4. manifest \in Manifests
  BY <1>1 DEF TypeOK
<1>5. /\ state' \in [Runs -> {"none", "active", "lapsed", "published", "cleanup_pending",
                              "released"}]
      /\ state'[run.id] = "published"
      /\ \A r \in Runs : r # run.id => state'[r] = state[r]
  BY <1>1, <1>2, <1>3 DEF TypeOK
<1>6. /\ catalog' \in [Snapshots -> Manifests] /\ catalog'[run.id] = manifest
      /\ \A s \in Snapshots : s # run.id => catalog'[s] = catalog[s]
  BY <1>1, <1>2, <1>3 DEF TypeOK, Manifests
<1>7. PriorOf(run.base)' = PriorOf(run.base)
  BY <1>2, <1>6 DEF PriorOf
<1>8. \A s \in Snapshots : Version(s) => Version(s)' /\ s # run.id /\ catalog'[s] = catalog[s]
  BY <1>2, <1>5, <1>6 DEF Version
<1>9. VersionInv'
  BY <1>1, <1>3, <1>5 DEF VersionInv, Version
<1>10. NamesLoss(run.id)'
  <2> DEFINE prior == PriorOf(run.base)
             sizes == SizesOf(manifest)
  <2>1. Passed(sizes) /\ manifest = RowsOf(sizes, prior)
    BY <1>1 DEF ManifestInv
  <2>2. sizes \in Sizes /\ prior \in Manifests
    BY <1>1, <1>2, <1>4, Sized, PriorTyped
  <2>3. \A t \in Known(SizesOf(prior)) \cap Known(sizes) :
          prior[t].risk \/ manifest[t].size < prior[t].size => manifest[t].risk
    <3> HIDE DEF prior, sizes
    <3> SUFFICES ASSUME NEW t \in Known(SizesOf(prior)) \cap Known(sizes),
                        prior[t].risk \/ manifest[t].size < prior[t].size
                 PROVE  manifest[t].risk
      OBVIOUS
    <3>1. t \in Threads
      BY DEF Known
    <3> QED BY <2>1, <2>2, <3>1, RowsFacts
  <2>4. Missing(prior, sizes) # {} =>
          /\ run.reviewed /\ sizes = review.source /\ review # None /\ review.base = run.base
    BY <2>1 DEF Passed, RunInv, ReviewInv
  <2>5. /\ PriorOf(base[run.id])' = prior /\ catalog'[run.id] = manifest
        /\ run' = run /\ review' = review /\ base'[run.id] = run.base
    BY <1>2, <1>3, <1>6, <1>7
  <2> HIDE DEF prior
  <2> QED BY <2>3, <2>4, <2>5 DEF NamesLoss
<1>11. LossIsKnown'
  <2> SUFFICES ASSUME NEW r \in Runs, state'[r] = "published" PROVE NamesLoss(r)'
    BY DEF LossIsKnown
  <2>1. CASE r # run.id
    <3>1. NamesLoss(r) /\ r \in Snapshots /\ base'[r] = base[r]
      BY <1>1, <1>3, <2>1, Somewhere DEF LossIsKnown
    <3>2. base[r] # None => catalog'[base[r]] = catalog[base[r]]
      BY <1>1, <1>8 DEF VersionInv, TypeOK
    <3>3. catalog'[r] = catalog[r]
      BY <1>6, <2>1, <3>1
    <3> QED BY <3>1, <3>2, <3>3, LossStays
  <2> QED BY <1>10, <2>1
<1>12. HintIsTrue'
  BY <1>1, <1>2, <1>5, <1>6, Somewhere DEF HintIsTrue, TypeOK
<1>13. OneReservation'
  BY <1>1, <1>5 DEF OneReservation
<1> QED BY <1>2, <1>3, <1>5, <1>6, <1>7, <1>9, <1>11, <1>12, <1>13

-----------------------------------------------------------------------------
(* A request: the review, and what a run looks at before it reserves. *)

LEMMA StartKeeps ==
    ASSUME RunInv, NEW withReview \in BOOLEAN, Start(withReview)
    PROVE  RunInv'
<1>1. /\ TypeOK /\ ProcessInv /\ RecordInv /\ ReviewInv /\ ManifestInv
      /\ VersionInv /\ GrantInv /\ AnswerInv /\ OneReservation /\ LossIsKnown
      /\ HintIsTrue /\ AnswersAreTrue /\ RetryIsExact
  BY DEF RunInv
<1>2. VersionInv' /\ OneReservation' /\ LossIsKnown' /\ HintIsTrue' /\ RetryIsExact'
  BY <1>1 DEF Start, journalVars, serviceVars, VersionInv, Version, OneReservation,
     LossIsKnown, NamesLoss, PriorOf, HintIsTrue, RetryIsExact
<1>3. TypeOK'
  BY <1>1, Sized, Recorded, Somewhere DEF Start, Goto, journalVars, serviceVars, world,
     TypeOK, Backup
<1>4. ProcessInv'
  BY <1>1, Sized, Recorded, Somewhere DEF Start, At, Goto, ProcessInv, Fresh, Staging,
     Sealed, Finished, Journalled, Active, TypeOK
<1>5. RecordInv'
  BY <1>1 DEF Start, Goto, journalVars, serviceVars, world, RecordInv
<1>6. ReviewInv'
  BY <1>1 DEF Start, Goto, ReviewInv
<1>7. ManifestInv'
  BY <1>1, Sized, Recorded, Somewhere DEF Start, Goto, journalVars, serviceVars, world,
     ManifestInv, Passed, PriorOf, Sealed, Finished, ProcessInv, Staging, Journalled,
     Active, TypeOK
<1>8. GrantInv'
  BY <1>1 DEF Start, Goto, journalVars, serviceVars, GrantInv, Holds
<1>9. AnswerInv'
  BY DEF Start, NoAnswer, AnswerInv
<1>10. AnswersAreTrue'
  BY DEF Start, NoAnswer, AnswersAreTrue
<1> QED BY <1>2, <1>3, <1>4, <1>5, <1>6, <1>7, <1>8, <1>9, <1>10 DEF RunInv

LEMMA PrepareReviewKeeps == ASSUME RunInv, PrepareReview PROVE RunInv'
<1>1. /\ TypeOK /\ ProcessInv /\ RecordInv /\ ReviewInv /\ ManifestInv
      /\ VersionInv /\ GrantInv /\ AnswerInv /\ OneReservation /\ LossIsKnown
      /\ HintIsTrue /\ AnswersAreTrue /\ RetryIsExact
  BY DEF RunInv
<1>2. run # None => ~run.reviewed
  BY <1>1 DEF PrepareReview, ReviewInv
<1>3. review' \in Reviews /\ review' # None /\ review'.id = None /\ review'.outcome = "open"
  BY <1>1, Somewhere DEF PrepareReview, TypeOK, Reviews
<1>4. /\ ProcessInv' /\ RecordInv' /\ VersionInv' /\ GrantInv' /\ OneReservation'
      /\ HintIsTrue' /\ RetryIsExact'
  BY <1>1 DEF PrepareReview, journalVars, serviceVars, memory, world, ProcessInv, RecordInv,
     VersionInv, Version, GrantInv, Holds, Chunk, Current, OneReservation, HintIsTrue,
     RetryIsExact
<1>5. TypeOK'
  BY <1>1, <1>3, Sized, Recorded, Somewhere DEF PrepareReview, journalVars, serviceVars,
     memory, world, TypeOK
<1>6. ReviewInv'
  BY <1>2, <1>3 DEF PrepareReview, ReviewInv
<1>7. ManifestInv'
  BY <1>1, <1>2, <1>3, Sized, Recorded, Somewhere DEF PrepareReview, At, journalVars,
     serviceVars, world, ManifestInv, Passed, PriorOf, Sealed, Finished, ProcessInv,
     Staging, Journalled, Active, TypeOK
<1>8. AnswerInv'
  BY DEF PrepareReview, NoAnswer, AnswerInv
<1>9. LossIsKnown'
  BY <1>1, <1>2, <1>3, Sized, Recorded, Somewhere DEF PrepareReview, serviceVars,
     LossIsKnown, NamesLoss, PriorOf
<1>10. AnswersAreTrue'
  BY DEF PrepareReview, NoAnswer, AnswersAreTrue
<1> QED BY <1>4, <1>5, <1>6, <1>7, <1>8, <1>9, <1>10 DEF RunInv

LEMMA ApproveKeeps == ASSUME RunInv, Approve PROVE RunInv'
<1>1. /\ TypeOK /\ ProcessInv /\ RecordInv /\ ReviewInv /\ ManifestInv
      /\ VersionInv /\ GrantInv /\ AnswerInv /\ OneReservation /\ LossIsKnown
      /\ HintIsTrue /\ AnswersAreTrue /\ RetryIsExact
  BY DEF RunInv
<1>2. review # None /\ review.outcome = "open"
  BY DEF Approve, ApprovalStands
<1>3. /\ VersionInv' /\ AnswerInv' /\ OneReservation' /\ LossIsKnown' /\ HintIsTrue'
      /\ AnswersAreTrue' /\ RetryIsExact'
  BY <1>1 DEF Approve, journalVars, serviceVars, VersionInv, Version, AnswerInv,
     OneReservation, LossIsKnown, NamesLoss, PriorOf, HintIsTrue, AnswersAreTrue,
     RetryIsExact
<1>4. TypeOK'
  BY <1>1 DEF Approve, Goto, journalVars, serviceVars, memory, world, TypeOK, Backup
<1>5. ProcessInv'
  BY <1>1, <1>2, Sized, Recorded, Somewhere DEF Approve, At, Goto, memory, ProcessInv,
     Fresh, Staging, Sealed, Finished, Journalled, Active, TypeOK
<1>6. RecordInv'
  BY <1>1 DEF Approve, Goto, journalVars, serviceVars, world, RecordInv
<1>7. ReviewInv'
  BY <1>1, <1>2 DEF Approve, Goto, ReviewInv
<1>8. ManifestInv'
  BY <1>1, <1>2, Sized, Recorded, Somewhere DEF Approve, Goto, journalVars, serviceVars,
     world, ManifestInv, Passed, PriorOf, Sealed, Finished, ProcessInv, Staging, Journalled,
     Active, TypeOK
<1>9. GrantInv'
  BY <1>1 DEF Approve, Goto, journalVars, serviceVars, GrantInv, Holds
<1> QED BY <1>3, <1>4, <1>5, <1>6, <1>7, <1>8, <1>9 DEF RunInv

LEMMA CheckKeeps == ASSUME RunInv, Check PROVE RunInv'
<1>1. /\ TypeOK /\ ProcessInv /\ RecordInv /\ ReviewInv /\ ManifestInv
      /\ VersionInv /\ GrantInv /\ AnswerInv /\ OneReservation /\ LossIsKnown
      /\ HintIsTrue /\ AnswersAreTrue /\ RetryIsExact
  BY DEF RunInv
<1>2. /\ VersionInv' /\ AnswerInv' /\ OneReservation' /\ LossIsKnown' /\ HintIsTrue'
      /\ AnswersAreTrue' /\ RetryIsExact'
  BY <1>1 DEF Check, journalVars, serviceVars, VersionInv, Version, AnswerInv,
     OneReservation, LossIsKnown, NamesLoss, PriorOf, HintIsTrue, AnswersAreTrue,
     RetryIsExact
<1>3. TypeOK'
  BY <1>1 DEF Check, Goto, journalVars, serviceVars, world, TypeOK, Backup
<1>4. ProcessInv'
  BY <1>1, Sized, Recorded, Somewhere DEF Check, At, Goto, ProcessInv, Fresh, Staging,
     Sealed, Finished, Journalled, Active, TypeOK
<1>5. RecordInv'
  BY <1>1 DEF Check, Goto, journalVars, serviceVars, world, RecordInv
<1>6. ReviewInv'
  BY <1>1 DEF Check, Goto, ReviewInv
<1>7. ManifestInv'
  BY <1>1, Sized, Recorded, Somewhere DEF Check, Goto, journalVars, serviceVars, world,
     ManifestInv, Passed, PriorOf, Sealed, Finished, ProcessInv, Staging, Journalled,
     Active, TypeOK
<1>8. GrantInv'
  BY <1>1 DEF Check, Goto, journalVars, serviceVars, GrantInv, Holds
<1> QED BY <1>2, <1>3, <1>4, <1>5, <1>6, <1>7, <1>8 DEF RunInv

LEMMA CompareKeeps == ASSUME RunInv, Compare PROVE RunInv'
<1>1. /\ TypeOK /\ ProcessInv /\ RecordInv /\ ReviewInv /\ ManifestInv
      /\ VersionInv /\ GrantInv /\ AnswerInv /\ OneReservation /\ LossIsKnown
      /\ HintIsTrue /\ AnswersAreTrue /\ RetryIsExact
  BY DEF RunInv
<1>2. /\ VersionInv' /\ AnswerInv' /\ OneReservation' /\ LossIsKnown' /\ HintIsTrue'
      /\ AnswersAreTrue' /\ RetryIsExact'
  BY <1>1 DEF Compare, journalVars, serviceVars, VersionInv, Version, AnswerInv,
     OneReservation, LossIsKnown, NamesLoss, PriorOf, HintIsTrue, AnswersAreTrue,
     RetryIsExact
<1>3. TypeOK'
  BY <1>1, Sized, Recorded, Somewhere DEF Compare, Goto, journalVars, serviceVars, memory,
     world, TypeOK, Backup
<1>4. ProcessInv'
  BY <1>1, Sized, Recorded, Somewhere DEF Compare, At, Goto, memory, ProcessInv, Fresh,
     Staging, Sealed, Finished, Journalled, Active, TypeOK
<1>5. RecordInv'
  BY <1>1 DEF Compare, Goto, journalVars, serviceVars, world, RecordInv
<1>6. ReviewInv'
  BY <1>1 DEF Compare, At, Goto, memory, ReviewInv, ProcessInv
<1>7. ManifestInv'
  BY <1>1, Sized, Recorded, Somewhere DEF Compare, Goto, journalVars, serviceVars, world,
     ManifestInv, Passed, PriorOf, Sealed, Finished, ProcessInv, Staging, Journalled,
     Active, TypeOK
<1>8. GrantInv'
  BY <1>1 DEF Compare, Goto, journalVars, serviceVars, GrantInv, Holds
<1> QED BY <1>2, <1>3, <1>4, <1>5, <1>6, <1>7, <1>8 DEF RunInv

LEMMA UnchangedKeeps == ASSUME RunInv, Unchanged PROVE RunInv'
<1>1. /\ TypeOK /\ ProcessInv /\ RecordInv /\ ReviewInv /\ ManifestInv
      /\ VersionInv /\ GrantInv /\ AnswerInv /\ OneReservation /\ LossIsKnown
      /\ HintIsTrue /\ AnswersAreTrue /\ RetryIsExact
  BY DEF RunInv
<1>2. pc = "recompare" /\ run = None /\ ~reviewed /\ staged = Empty
  BY <1>1 DEF Unchanged, At, ProcessInv, Fresh, Journalled, Staging, Sealed, Finished
<1>3. HintFits =>
        /\ noted \in Runs /\ noted \in Snapshots /\ state[noted] = "published"
        /\ catalog[noted] \in Manifests /\ source = SizesOf(catalog[noted])
  BY <1>1, Somewhere DEF HintFits, HintIsTrue, TypeOK, Manifests
<1>4. \/ /\ HintFits /\ pc' = "idle" /\ reviewed' = FALSE /\ noted' = None /\ todo' = {}
         /\ staged' = Empty /\ nonce' = nonce
         /\ answer' = [kind |-> "unchanged", id |-> noted,
                       risk |-> Risky(catalog[noted]), sizes |-> source]
      \/ pc' = "begin" /\ UNCHANGED <<memory, answer>>
  BY DEF Unchanged, Forget, Goto
<1>5. UNCHANGED <<run, journalVars, hint, review, serviceVars, world>>
  BY DEF Unchanged
<1>6. /\ answer' \in Answers /\ staged' \in Sizes /\ todo' \subseteq Threads
      /\ noted' \in Snapshots \cup {None}
      /\ reviewed' \in BOOLEAN /\ nonce' \in 1..2
  <2>1. CASE pc' = "begin"
    BY <1>1, <1>4, <2>1 DEF TypeOK, memory
  <2>2. CASE pc' = "idle"
    <3>1. HintFits /\ staged' = Empty /\ todo' = {} /\ noted' = None /\ reviewed' = FALSE
          /\ nonce' = nonce
          /\ answer' = [kind |-> "unchanged", id |-> noted,
                        risk |-> Risky(catalog[noted]), sizes |-> source]
      BY <1>4, <2>2
    <3>2. noted \in Snapshots /\ Risky(catalog[noted]) \in SUBSET Threads /\ source \in Sizes
      BY <1>3, <3>1, Sized
    <3>3. answer' \in Answers
      BY <3>1, <3>2 DEF Answers
    <3> QED BY <1>1, <3>1, <3>3, Sized DEF TypeOK
  <2> QED BY <1>4, <2>1, <2>2
<1>7. VersionInv' /\ OneReservation' /\ LossIsKnown' /\ HintIsTrue' /\ RetryIsExact'
  BY <1>1 DEF Unchanged, journalVars, serviceVars, VersionInv, Version, OneReservation,
     LossIsKnown, NamesLoss, PriorOf, HintIsTrue, RetryIsExact
<1>8. TypeOK'
  BY <1>1, <1>4, <1>5, <1>6, Sized, Recorded, Somewhere DEF journalVars, serviceVars, world,
     TypeOK, Backup
<1>9. ProcessInv'
  BY <1>2, <1>3, <1>4, <1>5, <1>6, Sized, Recorded, Somewhere DEF memory, ProcessInv, Fresh,
     Staging, Sealed, Finished, Journalled, Active
<1>10. RecordInv'
  BY <1>1, <1>4, <1>5 DEF journalVars, serviceVars, world, RecordInv
<1>11. ReviewInv'
  BY <1>1, <1>2, <1>4, <1>5 DEF memory, ReviewInv
<1>12. ManifestInv'
  BY <1>1, <1>2, <1>3, <1>4, <1>5, <1>6, Sized, Recorded, Somewhere DEF journalVars,
     serviceVars, world, ManifestInv, Sealed, Finished, Staging, Journalled, TypeOK
<1>13. GrantInv'
  BY <1>2, <1>4, <1>5 DEF GrantInv
<1>14. AnswerInv'
  BY <1>1, <1>3, <1>4 DEF AnswerInv
<1>15. AnswersAreTrue'
  BY <1>1, <1>3, <1>4, <1>5 DEF serviceVars, AnswersAreTrue
<1> QED BY <1>7, <1>8, <1>9, <1>10, <1>11, <1>12, <1>13, <1>14, <1>15 DEF RunInv

-----------------------------------------------------------------------------
(* The reservation is recorded, asked for and activated. *)

LEMMA BeginKeeps == ASSUME RunInv, NEW r \in Runs, Begin(r) PROVE RunInv'
<1>1. /\ TypeOK /\ ProcessInv /\ RecordInv /\ ReviewInv /\ ManifestInv
      /\ VersionInv /\ GrantInv /\ AnswerInv /\ OneReservation /\ LossIsKnown
      /\ HintIsTrue /\ AnswersAreTrue /\ RetryIsExact
  BY DEF RunInv
<1>2. /\ run = None /\ r \in Runs /\ state[r] = "none" /\ r \notin late /\ pc = "begin"
      /\ reviewed => review # None /\ review.outcome = "open" /\ review.id = None
  BY <1>1 DEF Begin, At, ProcessInv, Fresh, RecordInv, ReviewInv
<1>3. /\ run' = [id |-> r, phase |-> "reserving", base |-> None, reviewed |-> reviewed]
      /\ pc' = "reserve"
      /\ UNCHANGED <<journalVars, hint, review, serviceVars, memory, answer, world>>
  BY DEF Begin, NewRun, Goto
<1>4. /\ run' \in RunRecords /\ run' # None
      /\ run'.id = r /\ run'.phase = "reserving" /\ run'.reviewed = reviewed
  BY <1>1, <1>3, Somewhere DEF TypeOK, RunRecords
<1>5. VersionInv' /\ AnswerInv' /\ HintIsTrue' /\ AnswersAreTrue'
  BY <1>1 DEF Begin, serviceVars, VersionInv, Version, AnswerInv, HintIsTrue, AnswersAreTrue
<1>6. TypeOK'
  BY <1>1, <1>3, <1>4, Sized, Recorded, Somewhere DEF journalVars, serviceVars, memory,
     world, TypeOK, Backup
<1>7. ProcessInv'
  BY <1>1, <1>2, <1>3, <1>4, Sized, Recorded, Somewhere DEF memory, ProcessInv, Fresh,
     Staging, Sealed, Finished, Journalled, Active
<1>8. RecordInv'
  BY <1>1, <1>2, <1>3 DEF journalVars, serviceVars, world, RecordInv
<1>9. ReviewInv'
  BY <1>1, <1>2, <1>3 DEF ReviewInv
<1>10. ManifestInv'
  BY <1>1, <1>2, <1>3, <1>4, Sized, Recorded, Somewhere DEF journalVars, serviceVars, world,
     ManifestInv, Sealed, Finished
<1>11. GrantInv'
  BY <1>2, <1>3 DEF serviceVars, GrantInv, Holds
<1>12. OneReservation'
  BY <1>1, <1>2, <1>3 DEF serviceVars, OneReservation
<1>13. LossIsKnown'
  BY <1>1, <1>2, <1>3, Recorded, Somewhere DEF serviceVars, LossIsKnown, NamesLoss, PriorOf
<1>14. RetryIsExact'
  BY <1>2, <1>3 DEF serviceVars, RetryIsExact
<1> QED BY <1>5, <1>6, <1>7, <1>8, <1>9, <1>10, <1>11, <1>12, <1>13, <1>14 DEF RunInv

LEMMA ReserveKeeps == ASSUME RunInv, Reserve PROVE RunInv'
<1>1. /\ TypeOK /\ ProcessInv /\ RecordInv /\ ReviewInv /\ ManifestInv
      /\ VersionInv /\ GrantInv /\ AnswerInv /\ OneReservation /\ LossIsKnown
      /\ HintIsTrue /\ AnswersAreTrue /\ RetryIsExact
  BY DEF RunInv
<1>2. /\ run # None /\ run.id \in Runs /\ run.phase = "reserving"
      /\ state[run.id] \in {"none", "active"} /\ pc' = "activate" /\ pc = "reserve"
  BY <1>1, Recorded DEF Reserve, At, Goto, ProcessInv, Fresh
<1>3. /\ state' = [state EXCEPT ![run.id] = "active"]
      /\ \/ state[run.id] = "none" /\ base' = [base EXCEPT ![run.id] = head] /\ granted' = {}
         \/ state[run.id] = "active" /\ UNCHANGED <<base, granted>>
  BY <1>1 DEF Reserve, TypeOK
<1>4. UNCHANGED <<run, journalVars, hint, review, head, catalog, object, memory,
                  answer, world>>
  BY DEF Reserve
<1>5. /\ \A r \in Runs : r # run.id => state'[r] = state[r] /\ base'[r] = base[r]
      /\ state'[run.id] = "active" /\ base'[run.id] \in {base[run.id], head}
  BY <1>1, <1>2, <1>3 DEF TypeOK
<1>6. AnswerInv'
  BY <1>1 DEF Reserve, AnswerInv
<1>7. TypeOK'
  BY <1>1, <1>2, <1>3, <1>4 DEF journalVars, memory, world, TypeOK, Backup
<1>8. ProcessInv'
  BY <1>1, <1>2, <1>3, <1>4, <1>5, Sized, Recorded, Somewhere DEF memory, ProcessInv, Fresh,
     Staging, Sealed, Finished, Journalled, Active
<1>9. RecordInv'
  BY <1>1, <1>2, <1>3, <1>4 DEF journalVars, world, RecordInv
<1>10. ReviewInv'
  BY <1>1, <1>2, <1>4 DEF ReviewInv
<1>11. ManifestInv'
  <2>1. manifest = None /\ candidate = None /\ run.id \notin late
    BY <1>1, <1>2 DEF RecordInv
  <2>2. \A r \in late : state'[r] = state[r]
    BY <1>1, <1>5, <2>1 DEF TypeOK
  <2>3. \A r \in late : state'[r] # "active"
    BY <1>1, <2>1, <2>2 DEF ManifestInv
  <2> QED BY <1>2, <1>4, <2>1, <2>3 DEF ManifestInv, Sealed, Finished, Journalled, Staging,
       journalVars, world
<1>12. VersionInv'
  BY <1>1, <1>3, <1>4, <1>5 DEF VersionInv, Version
<1>13. GrantInv'
  BY <1>1, <1>2, <1>3, <1>4 DEF journalVars, GrantInv, Holds
<1>14. OneReservation'
  BY <1>1, <1>2, <1>4, <1>5 DEF OneReservation
<1>15. LossIsKnown'
  <2> SUFFICES ASSUME NEW r \in Runs, state'[r] = "published" PROVE NamesLoss(r)'
    BY DEF LossIsKnown
  <2> QED BY <1>1, <1>4, <1>5, LossStays DEF LossIsKnown
<1>16. HintIsTrue'
  BY <1>1, <1>3, <1>4 DEF HintIsTrue
<1>17. AnswersAreTrue'
  BY <1>1, <1>3, <1>4 DEF AnswersAreTrue
<1>18. RetryIsExact'
  BY <1>1, <1>3, <1>4 DEF journalVars, RetryIsExact
<1> QED
  BY <1>6, <1>7, <1>8, <1>9, <1>10, <1>11, <1>12, <1>13, <1>14, <1>15, <1>16, <1>17, <1>18
     DEF RunInv

LEMMA ActivateKeeps == ASSUME RunInv, Activate PROVE RunInv'
<1>1. /\ TypeOK /\ ProcessInv /\ RecordInv /\ ReviewInv /\ ManifestInv
      /\ VersionInv /\ GrantInv /\ AnswerInv /\ OneReservation /\ LossIsKnown
      /\ HintIsTrue /\ AnswersAreTrue /\ RetryIsExact
  BY DEF RunInv
<1>2. /\ run # None /\ run \in RunRecords /\ run.id \in Runs /\ run.phase = "reserving"
      /\ state[run.id] # "none" /\ pc = "activate" /\ pc' \in {"resume", "open"}
      /\ run.reviewed => base[run.id] = review.base
  BY <1>1, Recorded DEF Activate, At, Goto, ProcessInv, Fresh
<1>3. run' = [run EXCEPT !.phase = "active", !.base = base[run.id]]
  BY DEF Activate
<1>4. /\ run' \in RunRecords /\ run' # None /\ run'.id = run.id /\ run'.phase = "active"
      /\ run'.base = base[run.id] /\ run'.reviewed = run.reviewed
  BY <1>1, <1>2, <1>3, Somewhere DEF TypeOK, RunRecords
<1>5. UNCHANGED <<journalVars, hint, review, serviceVars, memory, answer, world>>
  BY DEF Activate
<1>6. manifest = None /\ candidate = None /\ state[run.id] # "published" /\ staged = Empty
  BY <1>1, <1>2 DEF RecordInv, ProcessInv
<1>7. VersionInv' /\ AnswerInv' /\ HintIsTrue' /\ AnswersAreTrue'
  BY <1>1 DEF Activate, serviceVars, VersionInv, Version, AnswerInv, HintIsTrue,
     AnswersAreTrue
<1>8. TypeOK'
  BY <1>1, <1>2, <1>4, <1>5, <1>6, Sized, Recorded, Somewhere DEF journalVars, serviceVars,
     memory, world, TypeOK, Backup
<1>9. ProcessInv'
  BY <1>2, <1>3, <1>4, <1>5, <1>6, Sized, Recorded, Somewhere DEF memory, ProcessInv, Fresh,
     Staging, Sealed, Finished, Journalled
<1>10. RecordInv'
  BY <1>1, <1>2, <1>4, <1>5 DEF serviceVars, world, RecordInv
<1>11. ReviewInv'
  BY <1>1, <1>2, <1>4, <1>5 DEF ReviewInv
<1>12. ManifestInv'
  BY <1>1, <1>2, <1>3, <1>4, <1>5, <1>6, Sized, Recorded, Somewhere DEF journalVars,
     serviceVars, world, ManifestInv, Sealed, Finished
<1>13. GrantInv'
  BY <1>1, <1>2, <1>4, <1>5, <1>6, Sized, Recorded, Somewhere DEF journalVars, serviceVars,
     GrantInv, Holds
<1>14. OneReservation'
  BY <1>1, <1>4, <1>5 DEF serviceVars, OneReservation
<1>15. LossIsKnown'
  BY <1>1, <1>5, <1>6, Sized, Recorded, Somewhere DEF serviceVars, LossIsKnown, NamesLoss,
     PriorOf
<1>16. RetryIsExact'
  BY <1>1, <1>2, <1>4, <1>5 DEF journalVars, serviceVars, RetryIsExact
<1> QED BY <1>7, <1>8, <1>9, <1>10, <1>11, <1>12, <1>13, <1>14, <1>15, <1>16 DEF RunInv

-----------------------------------------------------------------------------
(* A run on record is taken up again. *)

LEMMA StatusKeeps == ASSUME RunInv, Status PROVE RunInv'
<1>1. /\ TypeOK /\ ProcessInv /\ RecordInv /\ ReviewInv /\ ManifestInv
      /\ VersionInv /\ GrantInv /\ AnswerInv /\ OneReservation /\ LossIsKnown
      /\ HintIsTrue /\ AnswersAreTrue /\ RetryIsExact
  BY DEF RunInv
<1>2. /\ VersionInv' /\ AnswerInv' /\ OneReservation' /\ LossIsKnown' /\ HintIsTrue'
      /\ AnswersAreTrue' /\ RetryIsExact'
  BY <1>1 DEF Status, journalVars, serviceVars, VersionInv, Version, AnswerInv,
     OneReservation, LossIsKnown, NamesLoss, PriorOf, HintIsTrue, AnswersAreTrue,
     RetryIsExact
<1>3. TypeOK'
  BY <1>1, Sized, Recorded, Somewhere DEF Status, Goto, journalVars, serviceVars, memory,
     world, TypeOK, Backup
<1>4. ProcessInv'
  BY <1>1, Sized, Recorded, Somewhere DEF Status, At, Goto, serviceVars, memory, ProcessInv,
     Fresh, Staging, Sealed, Finished, Journalled, Active, TypeOK
<1>5. RecordInv'
  BY <1>1 DEF Status, Goto, journalVars, serviceVars, world, RecordInv
<1>6. ReviewInv'
  BY <1>1 DEF Status, Goto, ReviewInv
<1>7. ManifestInv'
  BY <1>1, Sized, Recorded, Somewhere DEF Status, Goto, journalVars, serviceVars, world,
     ManifestInv, Passed, PriorOf, Sealed, Finished, ProcessInv, Staging, Journalled,
     Active, TypeOK
<1>8. GrantInv'
  BY <1>1 DEF Status, Goto, journalVars, serviceVars, GrantInv, Holds
<1> QED BY <1>2, <1>3, <1>4, <1>5, <1>6, <1>7, <1>8 DEF RunInv

LEMMA ReopenKeeps == ASSUME RunInv, Reopen PROVE RunInv'
<1>1. /\ TypeOK /\ ProcessInv /\ RecordInv /\ ReviewInv /\ ManifestInv
      /\ VersionInv /\ GrantInv /\ AnswerInv /\ OneReservation /\ LossIsKnown
      /\ HintIsTrue /\ AnswersAreTrue /\ RetryIsExact
  BY DEF RunInv
<1>2. /\ VersionInv' /\ AnswerInv' /\ OneReservation' /\ LossIsKnown' /\ HintIsTrue'
      /\ AnswersAreTrue' /\ RetryIsExact'
  BY <1>1 DEF Reopen, journalVars, serviceVars, VersionInv, Version, AnswerInv,
     OneReservation, LossIsKnown, NamesLoss, PriorOf, HintIsTrue, AnswersAreTrue,
     RetryIsExact
<1>3. TypeOK'
  BY <1>1, Sized, Recorded, Somewhere DEF Reopen, Goto, journalVars, serviceVars, memory,
     world, TypeOK, Backup
<1>4. ProcessInv'
  BY <1>1, Sized, Recorded, Somewhere DEF Reopen, At, Goto, serviceVars, ProcessInv, Fresh,
     Staging, Sealed, Finished, Journalled, Active, TypeOK
<1>5. RecordInv'
  BY <1>1 DEF Reopen, Goto, journalVars, serviceVars, world, RecordInv
<1>6. ReviewInv'
  BY <1>1 DEF Reopen, Goto, ReviewInv
<1>7. ManifestInv'
  BY <1>1, Sized, Recorded, Somewhere DEF Reopen, At, Goto, journalVars, serviceVars,
     memory, world, ManifestInv, Passed, PriorOf, Sealed, Finished, ProcessInv, Staging,
     Journalled, Active, TypeOK
<1>8. GrantInv'
  BY <1>1 DEF Reopen, Goto, journalVars, serviceVars, GrantInv, Holds
<1> QED BY <1>2, <1>3, <1>4, <1>5, <1>6, <1>7, <1>8 DEF RunInv

LEMMA ReserveAgainKeeps == ASSUME RunInv, ReserveAgain PROVE RunInv'
<1>1. /\ TypeOK /\ ProcessInv /\ RecordInv /\ ReviewInv /\ ManifestInv
      /\ VersionInv /\ GrantInv /\ AnswerInv /\ OneReservation /\ LossIsKnown
      /\ HintIsTrue /\ AnswersAreTrue /\ RetryIsExact
  BY DEF RunInv
<1>2. /\ VersionInv' /\ AnswerInv' /\ OneReservation' /\ LossIsKnown' /\ HintIsTrue'
      /\ AnswersAreTrue' /\ RetryIsExact'
  BY <1>1 DEF ReserveAgain, journalVars, serviceVars, VersionInv, Version, AnswerInv,
     OneReservation, LossIsKnown, NamesLoss, PriorOf, HintIsTrue, AnswersAreTrue,
     RetryIsExact
<1>3. TypeOK'
  BY <1>1, Sized, Recorded, Somewhere DEF ReserveAgain, Goto, journalVars, serviceVars,
     memory, world, TypeOK, Backup
<1>4. ProcessInv'
  BY <1>1, Sized, Recorded, Somewhere DEF ReserveAgain, At, Goto, memory, ProcessInv, Fresh,
     Staging, Sealed, Finished, Journalled, Active, TypeOK
<1>5. RecordInv'
  BY <1>1 DEF ReserveAgain, Goto, journalVars, serviceVars, world, RecordInv
<1>6. ReviewInv'
  BY <1>1 DEF ReserveAgain, Goto, ReviewInv
<1>7. ManifestInv'
  BY <1>1, Sized, Recorded, Somewhere DEF ReserveAgain, Goto, journalVars, serviceVars,
     world, ManifestInv, Passed, PriorOf, Sealed, Finished, ProcessInv, Staging, Journalled,
     Active, TypeOK
<1>8. GrantInv'
  BY <1>1 DEF ReserveAgain, Goto, journalVars, serviceVars, GrantInv, Holds
<1> QED BY <1>2, <1>3, <1>4, <1>5, <1>6, <1>7, <1>8 DEF RunInv

LEMMA ResumeKeeps == ASSUME RunInv, Resume PROVE RunInv'
<1>1. /\ TypeOK /\ ProcessInv /\ RecordInv /\ ReviewInv /\ ManifestInv
      /\ VersionInv /\ GrantInv /\ AnswerInv /\ OneReservation /\ LossIsKnown
      /\ HintIsTrue /\ AnswersAreTrue /\ RetryIsExact
  BY DEF RunInv
<1>2. /\ VersionInv' /\ AnswerInv' /\ OneReservation' /\ LossIsKnown' /\ HintIsTrue'
      /\ AnswersAreTrue' /\ RetryIsExact'
  BY <1>1 DEF Resume, journalVars, serviceVars, VersionInv, Version, AnswerInv,
     OneReservation, LossIsKnown, NamesLoss, PriorOf, HintIsTrue, AnswersAreTrue,
     RetryIsExact
<1>3. TypeOK'
  BY <1>1, Sized, Recorded, Somewhere DEF Resume, Goto, journalVars, serviceVars, memory,
     world, TypeOK, Backup
<1>4. ProcessInv'
  BY <1>1, Sized, Recorded, Somewhere DEF Resume, At, Goto, memory, ProcessInv, Fresh,
     Staging, Sealed, Finished, Journalled, Active, TypeOK
<1>5. RecordInv'
  BY <1>1 DEF Resume, Goto, journalVars, serviceVars, world, RecordInv
<1>6. ReviewInv'
  BY <1>1 DEF Resume, Goto, ReviewInv
<1>7. ManifestInv'
  BY <1>1, Sized, Recorded, Somewhere DEF Resume, At, Goto, journalVars, serviceVars, world,
     ManifestInv, Passed, PriorOf, Sealed, Finished, ProcessInv, Staging, Journalled,
     Active, TypeOK
<1>8. GrantInv'
  BY <1>1 DEF Resume, Goto, journalVars, serviceVars, GrantInv, Holds
<1> QED BY <1>2, <1>3, <1>4, <1>5, <1>6, <1>7, <1>8 DEF RunInv

LEMMA OpenKeeps == ASSUME RunInv, Open PROVE RunInv'
<1>1. /\ TypeOK /\ ProcessInv /\ RecordInv /\ ReviewInv /\ ManifestInv
      /\ VersionInv /\ GrantInv /\ AnswerInv /\ OneReservation /\ LossIsKnown
      /\ HintIsTrue /\ AnswersAreTrue /\ RetryIsExact
  BY DEF RunInv
<1>2. pc = "open" /\ pc' = "prior" /\ run # None /\ run.phase = "active"
  BY <1>1 DEF Open, At, Goto, ProcessInv, Fresh, Active
<1>3. /\ VersionInv' /\ AnswerInv' /\ OneReservation' /\ LossIsKnown' /\ HintIsTrue'
      /\ AnswersAreTrue'
  BY <1>1 DEF Open, serviceVars, VersionInv, Version, AnswerInv, OneReservation,
     LossIsKnown, NamesLoss, PriorOf, HintIsTrue, AnswersAreTrue
<1>4. TypeOK'
  BY <1>1, <1>2 DEF Open, serviceVars, world, TypeOK, Backup
<1>5. ProcessInv'
  BY <1>2 DEF Open, ProcessInv, Fresh, Finished, Journalled
<1>6. RecordInv'
  BY <1>1, <1>2 DEF Open, serviceVars, world, RecordInv
<1>7. ReviewInv'
  BY <1>1, <1>2 DEF Open, ReviewInv
<1>8. ManifestInv'
  BY <1>1, <1>2, Sized, Recorded, Somewhere DEF Open, serviceVars, world, ManifestInv,
     Passed, PriorOf, Sealed, ProcessInv, Staging, Journalled, Active, TypeOK
<1>9. GrantInv'
  BY <1>1, <1>2 DEF Open, serviceVars, GrantInv, Holds
<1>10. RetryIsExact'
  BY <1>1 DEF Open, serviceVars, RetryIsExact, GrantInv, Holds
<1> QED BY <1>3, <1>4, <1>5, <1>6, <1>7, <1>8, <1>9, <1>10 DEF RunInv

-----------------------------------------------------------------------------
(* Staging: the base's rows, and one file after the other. *)

LEMMA PriorKeeps == ASSUME RunInv, Prior PROVE RunInv'
<1>1. /\ TypeOK /\ ProcessInv /\ RecordInv /\ ReviewInv /\ ManifestInv
      /\ VersionInv /\ GrantInv /\ AnswerInv /\ OneReservation /\ LossIsKnown
      /\ HintIsTrue /\ AnswersAreTrue /\ RetryIsExact
  BY DEF RunInv
<1>2. /\ VersionInv' /\ AnswerInv' /\ OneReservation' /\ LossIsKnown' /\ HintIsTrue'
      /\ AnswersAreTrue' /\ RetryIsExact'
  BY <1>1 DEF Prior, journalVars, serviceVars, VersionInv, Version, AnswerInv,
     OneReservation, LossIsKnown, NamesLoss, PriorOf, HintIsTrue, AnswersAreTrue,
     RetryIsExact
<1>3. TypeOK'
  BY <1>1, Sized, Recorded, Somewhere DEF Prior, Goto, journalVars, serviceVars, world,
     TypeOK, Backup
<1>4. ProcessInv'
  BY <1>1, Sized, Recorded, Somewhere DEF Prior, At, Goto, journalVars, ProcessInv, Fresh,
     Staging, Finished, Journalled, Active, TypeOK
<1>5. RecordInv'
  BY <1>1 DEF Prior, Goto, journalVars, serviceVars, world, RecordInv
<1>6. ReviewInv'
  BY <1>1 DEF Prior, Goto, ReviewInv
<1>7. ManifestInv'
  BY <1>1, Sized, Recorded, Somewhere DEF Prior, At, Goto, journalVars, serviceVars, world,
     ManifestInv, Passed, PriorOf, Sealed, Finished, ProcessInv, Staging, Journalled,
     Active, TypeOK
<1>8. GrantInv'
  BY <1>1 DEF Prior, Goto, journalVars, serviceVars, GrantInv, Holds
<1> QED BY <1>2, <1>3, <1>4, <1>5, <1>6, <1>7, <1>8 DEF RunInv

LEMMA ReuseKeeps == ASSUME RunInv, Reuse PROVE RunInv'
<1>1. /\ TypeOK /\ ProcessInv /\ RecordInv /\ ReviewInv /\ ManifestInv
      /\ VersionInv /\ GrantInv /\ AnswerInv /\ OneReservation /\ LossIsKnown
      /\ HintIsTrue /\ AnswersAreTrue /\ RetryIsExact
  BY DEF RunInv
<1>2. /\ todo # {} /\ Current \in Threads /\ source[Current] \in 1..MaxSize
      /\ Next1 \in Chunks /\ pc = "stage" /\ pc' = pc
  BY <1>1, CurrentIn DEF Reuse, At, TypeOK, Sizes, Next1, Chunks
<1>3. receipts[Next1] # 0 => receipts[Next1] = object[Next1]
  BY DEF Reuse
<1>4. /\ staged' = [staged EXCEPT ![Current] = source[Current]]
      /\ todo' = todo \ {Current}
      /\ scratch' \in {scratch, [scratch EXCEPT ![Next1] = 0]}
      /\ scratch' # scratch => receipts[Next1] # 0
  BY DEF Reuse, Staged
<1>5. UNCHANGED <<run, dir, receipts, manifest, bound, candidate, hint, review,
                  serviceVars, pc, reviewed, noted, nonce, answer, world>>
  BY DEF Reuse
<1>6. staged' \in Sizes /\ todo' \subseteq Threads /\ scratch' \in Ciphertexts
  BY <1>1, <1>2, <1>4 DEF TypeOK, Sizes, Ciphertexts
<1>7. /\ ReviewInv' /\ VersionInv' /\ AnswerInv' /\ OneReservation' /\ LossIsKnown'
      /\ HintIsTrue' /\ AnswersAreTrue'
  BY <1>1 DEF Reuse, serviceVars, ReviewInv, VersionInv, Version, AnswerInv, OneReservation,
     LossIsKnown, NamesLoss, PriorOf, HintIsTrue, AnswersAreTrue
<1>8. TypeOK'
  BY <1>1, <1>5, <1>6 DEF serviceVars, world, TypeOK
<1>9. ProcessInv'
  BY <1>1, <1>2, <1>5 DEF ProcessInv, Staging, Finished, Journalled
<1>10. RecordInv'
  BY <1>1, <1>2, <1>3, <1>4, <1>5, <1>6, Sized, Recorded, Somewhere DEF serviceVars, world,
     RecordInv, ProcessInv, Staging, Journalled, TypeOK
<1>11. ManifestInv'
  BY <1>1, <1>2, <1>3, <1>4, <1>5, <1>6, Sized, Recorded, Somewhere DEF serviceVars, world,
     ManifestInv, Passed, PriorOf, Sealed, Finished
<1>12. GrantInv'
  BY <1>1, <1>2, <1>5 DEF serviceVars, GrantInv, Holds
<1>13. RetryIsExact'
  <2> SUFFICES ASSUME run # None, dir, state[run.id] \in {"active", "lapsed"},
                      NEW c \in granted
               PROVE  object[c] \in {receipts[c], scratch'[c]}
    BY <1>5 DEF RetryIsExact, serviceVars
  <2>1. c \in Chunks /\ object[c] \in {receipts[c], scratch[c]}
    BY <1>1 DEF RetryIsExact, TypeOK
  <2>2. CASE scratch' = scratch
    BY <2>1, <2>2
  <2>3. CASE scratch' # scratch /\ c = Next1
    BY <1>3, <1>4, <2>3
  <2>4. CASE scratch' # scratch /\ c # Next1
    <3>1. scratch'[c] = scratch[c]
      BY <1>1, <1>4, <2>4 DEF TypeOK, Ciphertexts
    <3> QED BY <2>1, <3>1
  <2> QED BY <2>2, <2>3, <2>4
<1> QED BY <1>7, <1>8, <1>9, <1>10, <1>11, <1>12, <1>13 DEF RunInv

LEMMA EncryptKeeps == ASSUME RunInv, Encrypt PROVE RunInv'
<1>1. /\ TypeOK /\ ProcessInv /\ RecordInv /\ ReviewInv /\ ManifestInv
      /\ VersionInv /\ GrantInv /\ AnswerInv /\ OneReservation /\ LossIsKnown
      /\ HintIsTrue /\ AnswersAreTrue /\ RetryIsExact
  BY DEF RunInv
<1>2. /\ todo # {} /\ Current \in Threads /\ source[Current] \in 1..MaxSize
      /\ Next1 \in Chunks /\ pc = "stage" /\ pc' = "put" /\ receipts[Next1] = 0
  BY <1>1, CurrentIn DEF Encrypt, At, Goto, TypeOK, Sizes, Next1, Chunks
<1>3. /\ staged' = [staged EXCEPT ![Current] = source[Current]]
      /\ scratch' = [scratch EXCEPT ![Next1] = IF @ = 0 THEN nonce ELSE @]
  BY DEF Encrypt
<1>4. UNCHANGED <<run, dir, receipts, manifest, bound, candidate, hint, review,
                  serviceVars, reviewed, noted, todo, nonce, answer, world>>
  BY DEF Encrypt
<1>5. Current' = Current
  BY <1>4 DEF Current
<1>6. Chunk(Current)' = Next1
  BY <1>1, <1>2, <1>3, <1>5 DEF Chunk, Next1, TypeOK, Sizes
<1>7. scratch'[Next1] \in {1, 2} /\ \A c \in Chunks : c # Next1 => scratch'[c] = scratch[c]
  BY <1>1, <1>2, <1>3 DEF TypeOK, Ciphertexts
<1>8. scratch' \in Ciphertexts
  BY <1>1, <1>2, <1>3 DEF TypeOK, Ciphertexts
<1>9. staged' \in Sizes /\ dir
  BY <1>1, <1>2, <1>3 DEF TypeOK, Sizes, ProcessInv, Journalled, Staging
<1>10. /\ VersionInv' /\ AnswerInv' /\ OneReservation' /\ LossIsKnown' /\ HintIsTrue'
       /\ AnswersAreTrue'
  BY <1>1 DEF Encrypt, serviceVars, VersionInv, Version, AnswerInv, OneReservation,
     LossIsKnown, NamesLoss, PriorOf, HintIsTrue, AnswersAreTrue
<1>11. TypeOK'
  BY <1>1, <1>2, <1>4, <1>5, <1>6, <1>7, <1>8, <1>9, Sized, Recorded, Somewhere DEF
     serviceVars, world, TypeOK, Backup
<1>12. ProcessInv'
  BY <1>1, <1>2, <1>3, <1>4, <1>5, <1>6, <1>7, <1>8, <1>9, Sized, Recorded, Somewhere DEF
     ProcessInv, Fresh, Staging, Finished, Journalled, Active
<1>13. RecordInv'
  BY <1>1, <1>2, <1>4, <1>7, <1>8, <1>9, Sized, Recorded, Somewhere DEF serviceVars, world,
     RecordInv
<1>14. ReviewInv'
  BY <1>1, <1>2, <1>4 DEF ReviewInv
<1>15. ManifestInv'
  BY <1>1, <1>2, <1>3, <1>4, <1>5, <1>6, <1>7, <1>8, <1>9, Sized, Recorded, Somewhere DEF
     serviceVars, world, ManifestInv, Passed, PriorOf, Sealed, Finished, Staging,
     Journalled, TypeOK
<1>16. GrantInv'
  BY <1>1, <1>2, <1>4, <1>6, <1>7, <1>8, <1>9, Sized, Recorded, Somewhere DEF serviceVars,
     GrantInv, Holds
<1>17. RetryIsExact'
  BY <1>1, <1>2, <1>3, <1>4 DEF serviceVars, RetryIsExact
<1> QED BY <1>10, <1>11, <1>12, <1>13, <1>14, <1>15, <1>16, <1>17 DEF RunInv

LEMMA PutKeeps == ASSUME RunInv, Put PROVE RunInv'
<1>1. /\ TypeOK /\ ProcessInv /\ RecordInv /\ ReviewInv /\ ManifestInv
      /\ VersionInv /\ GrantInv /\ AnswerInv /\ OneReservation /\ LossIsKnown
      /\ HintIsTrue /\ AnswersAreTrue /\ RetryIsExact
  BY DEF RunInv
<1>2. /\ pc = "put" /\ pc' = "record" /\ Chunk(Current) \in Chunks /\ todo # {}
      /\ state[run.id] = "active" /\ object[Chunk(Current)] \in {0, scratch[Chunk(Current)]}
      /\ scratch[Chunk(Current)] \in {1, 2}
  BY <1>1 DEF Put, At, Goto, GrantInv, TypeOK, Ciphertexts
<1>3. /\ object' = [object EXCEPT ![Chunk(Current)] = scratch[Chunk(Current)]]
      /\ granted' = granted \cup {Chunk(Current)}
  BY DEF Put
<1>4. UNCHANGED <<run, journalVars, hint, review, state, base, head, catalog, memory,
                  answer, world>>
  BY DEF Put
<1>5. Chunk(Current)' = Chunk(Current)
  BY <1>4 DEF Chunk, Current, memory
<1>6. /\ object' \in Ciphertexts /\ object'[Chunk(Current)] = scratch[Chunk(Current)]
      /\ \A c \in Chunks : c # Chunk(Current) => object'[c] = object[c]
  BY <1>1, <1>2, <1>3 DEF TypeOK, Ciphertexts
<1>7. dir
  BY <1>1, <1>2 DEF ProcessInv, Journalled, Staging
<1>8. /\ VersionInv' /\ AnswerInv' /\ OneReservation' /\ LossIsKnown' /\ HintIsTrue'
      /\ AnswersAreTrue'
  BY <1>1 DEF Put, VersionInv, Version, AnswerInv, OneReservation, LossIsKnown, NamesLoss,
     PriorOf, HintIsTrue, AnswersAreTrue
<1>9. TypeOK'
  BY <1>1, <1>2, <1>3, <1>4, <1>5, <1>6, <1>7, Sized, Recorded, Somewhere DEF journalVars,
     memory, world, TypeOK, Backup
<1>10. ProcessInv'
  BY <1>1, <1>2, <1>3, <1>4, <1>5, <1>6, <1>7, Sized, Recorded, Somewhere DEF journalVars,
     ProcessInv, Fresh, Staging, Finished, Journalled, Active, TypeOK
<1>11. RecordInv'
  BY <1>1, <1>2, <1>4, <1>7 DEF world, RecordInv
<1>12. ReviewInv'
  BY <1>1, <1>2, <1>4 DEF ReviewInv
<1>13. ManifestInv'
  BY <1>1, <1>2, <1>3, <1>4, <1>5, <1>6, <1>7, Sized, Recorded, Somewhere DEF journalVars,
     world, ManifestInv, Passed, PriorOf, Sealed, Finished, TypeOK
<1>14. GrantInv'
  BY <1>1, <1>2, <1>3, <1>4, <1>5, <1>6, <1>7, Sized, Recorded, Somewhere DEF journalVars,
     memory, GrantInv, Holds
<1>15. RetryIsExact'
  BY <1>1, <1>3, <1>4, <1>6 DEF journalVars, RetryIsExact
<1> QED BY <1>8, <1>9, <1>10, <1>11, <1>12, <1>13, <1>14, <1>15 DEF RunInv

LEMMA RecordKeeps == ASSUME RunInv, Record PROVE RunInv'
<1>1. /\ TypeOK /\ ProcessInv /\ RecordInv /\ ReviewInv /\ ManifestInv
      /\ VersionInv /\ GrantInv /\ AnswerInv /\ OneReservation /\ LossIsKnown
      /\ HintIsTrue /\ AnswersAreTrue /\ RetryIsExact
  BY DEF RunInv
<1>2. /\ pc = "record" /\ pc' = "discard" /\ Chunk(Current) \in Chunks /\ todo # {}
  BY <1>1 DEF Record, At, Goto, GrantInv
<1>3. receipts' = [receipts EXCEPT ![Chunk(Current)] = object[Chunk(Current)]]
  BY DEF Record
<1>4. UNCHANGED <<run, dir, scratch, manifest, bound, candidate, hint, review,
                  serviceVars, memory, answer, world>>
  BY DEF Record
<1>5. Chunk(Current)' = Chunk(Current)
  BY <1>4 DEF Chunk, Current, memory
<1>6. /\ receipts' \in Ciphertexts /\ receipts'[Chunk(Current)] = object[Chunk(Current)]
      /\ \A c \in Chunks : c # Chunk(Current) => receipts'[c] = receipts[c]
  BY <1>1, <1>2, <1>3 DEF TypeOK, Ciphertexts
<1>7. /\ VersionInv' /\ AnswerInv' /\ OneReservation' /\ LossIsKnown' /\ HintIsTrue'
      /\ AnswersAreTrue'
  BY <1>1 DEF Record, serviceVars, VersionInv, Version, AnswerInv, OneReservation,
     LossIsKnown, NamesLoss, PriorOf, HintIsTrue, AnswersAreTrue
<1>8. TypeOK'
  BY <1>1, <1>2, <1>4, <1>5, <1>6, Sized, Recorded, Somewhere DEF serviceVars, memory,
     world, TypeOK, Backup
<1>9. ProcessInv'
  BY <1>1, <1>2, <1>3, <1>4, <1>5, <1>6, Sized, Recorded, Somewhere DEF ProcessInv, Fresh,
     Staging, Finished, Journalled, Active
<1>10. RecordInv'
  BY <1>1, <1>2, <1>3, <1>4, <1>5, <1>6, Sized, Recorded, Somewhere DEF serviceVars, world,
     RecordInv, ProcessInv, Staging, Journalled
<1>11. ReviewInv'
  BY <1>1, <1>2, <1>4 DEF ReviewInv
<1>12. ManifestInv'
  BY <1>1, <1>2, <1>3, <1>4, <1>5, <1>6, Sized, Recorded, Somewhere DEF serviceVars, world,
     ManifestInv, Passed, PriorOf, Sealed, Finished, Staging, Journalled, TypeOK
<1>13. GrantInv'
  BY <1>1, <1>2, <1>4, <1>5, <1>6, Sized, Recorded, Somewhere DEF serviceVars, memory,
     GrantInv, Holds
<1>14. RetryIsExact'
  BY <1>1, <1>3, <1>4 DEF serviceVars, RetryIsExact
<1> QED BY <1>7, <1>8, <1>9, <1>10, <1>11, <1>12, <1>13, <1>14 DEF RunInv

LEMMA DiscardKeeps == ASSUME RunInv, Discard PROVE RunInv'
<1>1. /\ TypeOK /\ ProcessInv /\ RecordInv /\ ReviewInv /\ ManifestInv
      /\ VersionInv /\ GrantInv /\ AnswerInv /\ OneReservation /\ LossIsKnown
      /\ HintIsTrue /\ AnswersAreTrue /\ RetryIsExact
  BY DEF RunInv
<1>2. /\ pc = "discard" /\ pc' = "stage" /\ Chunk(Current) \in Chunks /\ todo # {}
  BY <1>1 DEF Discard, At, Goto, GrantInv
<1>3. scratch' = [scratch EXCEPT ![Chunk(Current)] = 0] /\ todo' = todo \ {Current}
  BY DEF Discard, Staged
<1>4. UNCHANGED <<run, dir, receipts, manifest, bound, candidate, hint, review,
                  serviceVars, reviewed, noted, staged, nonce, answer, world>>
  BY DEF Discard
<1>5. /\ scratch' \in Ciphertexts
      /\ \A c \in Chunks : c # Chunk(Current) => scratch'[c] = scratch[c]
  BY <1>1, <1>2, <1>3 DEF TypeOK, Ciphertexts
<1>6. /\ VersionInv' /\ AnswerInv' /\ OneReservation' /\ LossIsKnown' /\ HintIsTrue'
      /\ AnswersAreTrue'
  BY <1>1 DEF Discard, serviceVars, VersionInv, Version, AnswerInv, OneReservation,
     LossIsKnown, NamesLoss, PriorOf, HintIsTrue, AnswersAreTrue
<1>7. TypeOK'
  BY <1>1, <1>2, <1>3, <1>4, <1>5, Sized, Recorded, Somewhere DEF serviceVars, world,
     TypeOK, Backup
<1>8. ProcessInv'
  BY <1>1, <1>2, <1>4, <1>5, Sized, Recorded, Somewhere DEF ProcessInv, Fresh, Staging,
     Finished, Journalled, Active
<1>9. RecordInv'
  BY <1>1, <1>2, <1>3, <1>4, <1>5, Sized, Recorded, Somewhere DEF serviceVars, world,
     RecordInv, ProcessInv, Staging, Journalled
<1>10. ReviewInv'
  BY <1>1, <1>2, <1>4 DEF ReviewInv
<1>11. ManifestInv'
  BY <1>1, <1>2, <1>3, <1>4, <1>5, Sized, Recorded, Somewhere DEF serviceVars, world,
     ManifestInv, Passed, PriorOf, Sealed, Finished, Staging, Journalled, TypeOK
<1>12. GrantInv'
  BY <1>1, <1>2, <1>4 DEF serviceVars, GrantInv, Holds
<1>13. RetryIsExact'
  BY <1>1, <1>2, <1>3, <1>4 DEF serviceVars, RetryIsExact, GrantInv, Holds
<1> QED BY <1>6, <1>7, <1>8, <1>9, <1>10, <1>11, <1>12, <1>13 DEF RunInv

-----------------------------------------------------------------------------
(* The manifest is sealed behind the loss guards, bound and indexed. *)

LEMMA RecheckKeeps == ASSUME RunInv, Recheck PROVE RunInv'
<1>1. /\ TypeOK /\ ProcessInv /\ RecordInv /\ ReviewInv /\ ManifestInv
      /\ VersionInv /\ GrantInv /\ AnswerInv /\ OneReservation /\ LossIsKnown
      /\ HintIsTrue /\ AnswersAreTrue /\ RetryIsExact
  BY DEF RunInv
<1>2. pc = "stage" /\ pc' = "seal" /\ Guards(PriorOf(run.base)) /\ run.phase = "active"
  BY <1>1 DEF Recheck, At, Goto, ProcessInv, Active, Journalled, Staging
<1>3. Passed(staged)
  BY <1>2 DEF Guards, Passed
<1>4. /\ VersionInv' /\ AnswerInv' /\ OneReservation' /\ LossIsKnown' /\ HintIsTrue'
      /\ AnswersAreTrue' /\ RetryIsExact'
  BY <1>1 DEF Recheck, journalVars, serviceVars, VersionInv, Version, AnswerInv,
     OneReservation, LossIsKnown, NamesLoss, PriorOf, HintIsTrue, AnswersAreTrue,
     RetryIsExact
<1>5. TypeOK'
  BY <1>1, <1>2, <1>3, Sized, Recorded, Somewhere DEF Recheck, journalVars, serviceVars,
     memory, world, TypeOK, Backup
<1>6. ProcessInv'
  BY <1>1, <1>2, <1>3, Sized, Recorded, Somewhere DEF Recheck, journalVars, ProcessInv,
     Fresh, Staging, Finished, Journalled, TypeOK
<1>7. RecordInv'
  BY <1>1, <1>2, <1>3, Sized, Recorded, Somewhere DEF Recheck, serviceVars, world,
     RecordInv, ProcessInv, Staging, Journalled, Active, TypeOK
<1>8. ReviewInv'
  BY <1>1, <1>2 DEF Recheck, ReviewInv
<1>9. ManifestInv'
  BY <1>1, <1>2, <1>3, Sized, Recorded, Somewhere DEF Recheck, journalVars, serviceVars,
     memory, world, ManifestInv, Passed, PriorOf, Sealed, Finished, ProcessInv, Staging,
     Journalled, Active, TypeOK
<1>10. GrantInv'
  BY <1>1, <1>2 DEF Recheck, journalVars, serviceVars, GrantInv, Holds
<1> QED BY <1>4, <1>5, <1>6, <1>7, <1>8, <1>9, <1>10 DEF RunInv

LEMMA SealKeeps == ASSUME RunInv, Seal PROVE RunInv'
<1>1. /\ TypeOK /\ ProcessInv /\ RecordInv /\ ReviewInv /\ ManifestInv
      /\ VersionInv /\ GrantInv /\ AnswerInv /\ OneReservation /\ LossIsKnown
      /\ HintIsTrue /\ AnswersAreTrue /\ RetryIsExact
  BY DEF RunInv
<1>2. /\ pc = "seal" /\ pc' = "bind" /\ run # None /\ run.phase = "active" /\ Passed(staged)
      /\ run.base \in Snapshots \cup {None}
  BY <1>1, Recorded DEF Seal, At, Goto, ProcessInv, Active, Journalled, ManifestInv, Fresh
<1>3. manifest' = RowsOf(staged, PriorOf(run.base))
  BY DEF Seal
<1>4. manifest = None \/ manifest' = manifest
  BY DEF Seal
<1>5. UNCHANGED <<run, dir, receipts, scratch, bound, candidate, hint, review,
                  serviceVars, memory, answer, world>>
  BY DEF Seal
<1>6. manifest' \in Manifests /\ manifest' # None /\ SizesOf(manifest') = staged
  BY <1>1, <1>2, <1>3, PriorTyped, RowsFacts, Somewhere DEF TypeOK
<1>7. PriorOf(run.base)' = PriorOf(run.base) /\ Passed(staged)' = Passed(staged)
  BY <1>5 DEF PriorOf, Passed, serviceVars, memory
<1>8. state[run.id] = "published" => manifest # None /\ catalog[run.id] = manifest
  BY <1>1, <1>2 DEF ManifestInv, Journalled
<1>9. /\ VersionInv' /\ AnswerInv' /\ OneReservation' /\ LossIsKnown' /\ HintIsTrue'
      /\ AnswersAreTrue' /\ RetryIsExact'
  BY <1>1 DEF Seal, serviceVars, VersionInv, Version, AnswerInv, OneReservation,
     LossIsKnown, NamesLoss, PriorOf, HintIsTrue, AnswersAreTrue, RetryIsExact
<1>10. TypeOK'
  BY <1>1, <1>2, <1>5, <1>6, <1>7, <1>8, Sized, Recorded, Somewhere DEF serviceVars, memory,
     world, TypeOK, Backup
<1>11. ProcessInv'
  BY <1>1, <1>2, <1>4, <1>5, <1>6, <1>7, <1>8, Sized, Recorded, Somewhere DEF ProcessInv,
     Fresh, Sealed, Finished, Journalled
<1>12. RecordInv'
  BY <1>1, <1>2, <1>5 DEF serviceVars, world, RecordInv
<1>13. ReviewInv'
  BY <1>1, <1>2, <1>5 DEF ReviewInv
<1>14. ManifestInv'
  <2>1. /\ Passed(SizesOf(manifest))'
        /\ manifest' = RowsOf(SizesOf(manifest'), PriorOf(run.base)')
    BY <1>2, <1>3, <1>5, <1>6, <1>7 DEF Passed, PriorOf
  <2>2. state'[run.id] = "published" => catalog'[run.id] = manifest'
    BY <1>4, <1>5, <1>8 DEF serviceVars
  <2>3. candidate # None => candidate = SizesOf(manifest')
    BY <1>1, <1>4 DEF ManifestInv
  <2> QED BY <1>2, <1>5, <1>6, <2>1, <2>2, <2>3 DEF ManifestInv, Finished, memory
<1>15. GrantInv'
  BY <1>1, <1>2, <1>5 DEF serviceVars, GrantInv, Holds
<1> QED BY <1>9, <1>10, <1>11, <1>12, <1>13, <1>14, <1>15 DEF RunInv

LEMMA BindKeeps == ASSUME RunInv, Bind PROVE RunInv'
<1>1. /\ TypeOK /\ ProcessInv /\ RecordInv /\ ReviewInv /\ ManifestInv
      /\ VersionInv /\ GrantInv /\ AnswerInv /\ OneReservation /\ LossIsKnown
      /\ HintIsTrue /\ AnswersAreTrue /\ RetryIsExact
  BY DEF RunInv
<1>2. /\ VersionInv' /\ AnswerInv' /\ OneReservation' /\ LossIsKnown' /\ HintIsTrue'
      /\ AnswersAreTrue' /\ RetryIsExact'
  BY <1>1 DEF Bind, serviceVars, VersionInv, Version, AnswerInv, OneReservation,
     LossIsKnown, NamesLoss, PriorOf, HintIsTrue, AnswersAreTrue, RetryIsExact
<1>3. TypeOK'
  BY <1>1 DEF Bind, Goto, serviceVars, memory, world, TypeOK, Backup
<1>4. ProcessInv'
  BY <1>1, Sized, Recorded, Somewhere DEF Bind, At, Goto, ProcessInv, Fresh, Sealed,
     Finished, Journalled, Active, TypeOK
<1>5. RecordInv'
  BY <1>1, Sized, Recorded, Somewhere DEF Bind, At, Goto, serviceVars, world, RecordInv,
     ProcessInv, Sealed, Journalled, Active, TypeOK
<1>6. ReviewInv'
  BY <1>1 DEF Bind, Goto, ReviewInv
<1>7. ManifestInv'
  BY <1>1, Sized, Recorded, Somewhere DEF Bind, At, Goto, serviceVars, memory, world,
     ManifestInv, Passed, PriorOf, Sealed, Finished, ProcessInv, Staging, Journalled,
     Active, TypeOK
<1>8. GrantInv'
  BY <1>1 DEF Bind, Goto, serviceVars, GrantInv, Holds
<1> QED BY <1>2, <1>3, <1>4, <1>5, <1>6, <1>7, <1>8 DEF RunInv

LEMMA IndexKeeps == ASSUME RunInv, Index PROVE RunInv'
<1>1. /\ TypeOK /\ ProcessInv /\ RecordInv /\ ReviewInv /\ ManifestInv
      /\ VersionInv /\ GrantInv /\ AnswerInv /\ OneReservation /\ LossIsKnown
      /\ HintIsTrue /\ AnswersAreTrue /\ RetryIsExact
  BY DEF RunInv
<1>2. staged = SizesOf(manifest) /\ manifest # None
  BY <1>1, Recorded, PriorTyped, RowsFacts, Somewhere DEF Index, At, ManifestInv, Sealed,
     TypeOK, ProcessInv, Fresh
<1>3. /\ VersionInv' /\ AnswerInv' /\ OneReservation' /\ LossIsKnown' /\ HintIsTrue'
      /\ AnswersAreTrue' /\ RetryIsExact'
  BY <1>1 DEF Index, serviceVars, VersionInv, Version, AnswerInv, OneReservation,
     LossIsKnown, NamesLoss, PriorOf, HintIsTrue, AnswersAreTrue, RetryIsExact
<1>4. TypeOK'
  BY <1>1 DEF Index, Goto, serviceVars, memory, world, TypeOK, Backup
<1>5. ProcessInv'
  BY <1>1, <1>2, Sized, Recorded, Somewhere DEF Index, At, Goto, ProcessInv, Fresh, Sealed,
     Finished, Journalled, Active, TypeOK
<1>6. RecordInv'
  BY <1>1, <1>2 DEF Index, Goto, serviceVars, world, RecordInv
<1>7. ReviewInv'
  BY <1>1 DEF Index, Goto, ReviewInv
<1>8. ManifestInv'
  BY <1>1, <1>2, Sized, Recorded, Somewhere DEF Index, At, Goto, serviceVars, memory,
     ManifestInv, Passed, PriorOf, Sealed, Finished, ProcessInv, Staging, Journalled,
     Active, TypeOK
<1>9. GrantInv'
  BY <1>1 DEF Index, Goto, serviceVars, GrantInv, Holds
<1> QED BY <1>3, <1>4, <1>5, <1>6, <1>7, <1>8, <1>9 DEF RunInv

-----------------------------------------------------------------------------
(* Publication, and what is told and forgotten after it. *)

LEMMA FinalKeeps == ASSUME RunInv, Final PROVE RunInv'
<1>1. /\ TypeOK /\ ProcessInv /\ RecordInv /\ ReviewInv /\ ManifestInv
      /\ VersionInv /\ GrantInv /\ AnswerInv /\ OneReservation /\ LossIsKnown
      /\ HintIsTrue /\ AnswersAreTrue /\ RetryIsExact
  BY DEF RunInv
<1>2. /\ VersionInv' /\ AnswerInv' /\ OneReservation' /\ LossIsKnown' /\ HintIsTrue'
      /\ AnswersAreTrue' /\ RetryIsExact'
  BY <1>1 DEF Final, journalVars, serviceVars, VersionInv, Version, AnswerInv,
     OneReservation, LossIsKnown, NamesLoss, PriorOf, HintIsTrue, AnswersAreTrue,
     RetryIsExact
<1>3. TypeOK'
  BY <1>1, Sized, Recorded, Somewhere DEF Final, Goto, journalVars, serviceVars, memory,
     world, TypeOK, Backup
<1>4. ProcessInv'
  BY <1>1, Sized, Recorded, Somewhere DEF Final, At, Goto, journalVars, ProcessInv, Fresh,
     Sealed, Finished, Journalled, Active, TypeOK
<1>5. RecordInv'
  BY <1>1 DEF Final, Goto, journalVars, serviceVars, world, RecordInv
<1>6. ReviewInv'
  BY <1>1 DEF Final, Goto, ReviewInv
<1>7. ManifestInv'
  BY <1>1, Sized, Recorded, Somewhere DEF Final, At, Goto, journalVars, serviceVars, memory,
     world, ManifestInv, Passed, PriorOf, Sealed, Finished, ProcessInv, Staging, Journalled,
     Active, TypeOK
<1>8. GrantInv'
  BY <1>1 DEF Final, Goto, journalVars, serviceVars, GrantInv, Holds
<1> QED BY <1>2, <1>3, <1>4, <1>5, <1>6, <1>7, <1>8 DEF RunInv

LEMMA PublishKeeps == ASSUME RunInv, Publish PROVE RunInv'
<1>1. /\ TypeOK /\ ProcessInv /\ RecordInv /\ ReviewInv /\ ManifestInv
      /\ VersionInv /\ GrantInv /\ AnswerInv /\ OneReservation /\ LossIsKnown
      /\ HintIsTrue /\ AnswersAreTrue /\ RetryIsExact
  BY DEF RunInv
<1>2. /\ pc = "publish" /\ pc' = "confirm" /\ run # None /\ run.phase = "active"
      /\ Publishable(run.id) /\ Published(run.id)
  BY <1>1 DEF Publish, At, Goto, ProcessInv, Fresh, Active, Journalled, Sealed
<1>3. UNCHANGED <<run, journalVars, hint, review, memory, answer, world>>
  BY DEF Publish
<1>4. manifest = RowsOf(staged, PriorOf(run.base)) /\ manifest # None
  BY <1>1, <1>2, Recorded, PriorTyped, RowsFacts, Somewhere DEF ManifestInv, Sealed, TypeOK
<1>5. /\ state' \in [Runs -> {"none", "active", "lapsed", "published", "cleanup_pending",
                              "released"}]
      /\ head' \in Snapshots /\ catalog' \in [Snapshots -> Manifests]
      /\ state'[run.id] = "published" /\ catalog'[run.id] = manifest
      /\ state[run.id] = "active" /\ run.id \in Runs
      /\ \A r \in Runs : r # run.id => state'[r] = state[r]
      /\ \A s \in Snapshots : s # run.id => catalog'[s] = catalog[s]
      /\ PriorOf(run.base)' = PriorOf(run.base)
      /\ VersionInv' /\ LossIsKnown' /\ HintIsTrue' /\ OneReservation'
  BY <1>2, <1>3, <1>4, PublicationKeeps
<1>6. UNCHANGED <<base, object, granted>>
  BY <1>2 DEF Published
<1>7. AnswerInv'
  BY <1>1 DEF Publish, AnswerInv
<1>8. TypeOK'
  BY <1>1, <1>2, <1>3, <1>5, <1>6, Sized, Recorded, Somewhere DEF journalVars, memory,
     world, TypeOK, Backup
<1>9. ProcessInv'
  BY <1>2, <1>3, <1>4, <1>5, <1>6, Sized, Recorded, Somewhere DEF ProcessInv, Fresh,
     Staging, Sealed, Finished, Journalled
<1>10. RecordInv'
  BY <1>1, <1>2, <1>3, <1>5, <1>6 DEF world, RecordInv, TypeOK
<1>11. ReviewInv'
  BY <1>1, <1>2, <1>3 DEF ReviewInv
<1>12. ManifestInv'
  <2>1. \A r \in late : state'[r] = "active" => manifest # None
    BY <1>4
  <2>2. Passed(SizesOf(manifest))' = Passed(SizesOf(manifest))
    BY <1>3, <1>5 DEF Passed, journalVars
  <2> QED BY <1>1, <1>2, <1>3, <1>4, <1>5, <2>1, <2>2 DEF ManifestInv, journalVars, memory
<1>13. VersionInv'
  BY <1>5
<1>14. GrantInv'
  BY <1>2, <1>3, <1>5 DEF GrantInv, Holds
<1>15. OneReservation'
  BY <1>5
<1>16. LossIsKnown'
  BY <1>5
<1>17. HintIsTrue'
  BY <1>5
<1>18. AnswersAreTrue'
  BY <1>1, <1>3, <1>5, Somewhere DEF AnswersAreTrue, AnswerInv
<1>19. RetryIsExact'
  BY <1>3, <1>5 DEF RetryIsExact
<1> QED
  BY <1>7, <1>8, <1>9, <1>10, <1>11, <1>12, <1>13, <1>14, <1>15, <1>16, <1>17, <1>18, <1>19
     DEF RunInv

LEMMA ConfirmKeeps == ASSUME RunInv, Confirm PROVE RunInv'
<1>1. /\ TypeOK /\ ProcessInv /\ RecordInv /\ ReviewInv /\ ManifestInv
      /\ VersionInv /\ GrantInv /\ AnswerInv /\ OneReservation /\ LossIsKnown
      /\ HintIsTrue /\ AnswersAreTrue /\ RetryIsExact
  BY DEF RunInv
<1>2. /\ VersionInv' /\ AnswerInv' /\ OneReservation' /\ LossIsKnown' /\ HintIsTrue'
      /\ AnswersAreTrue' /\ RetryIsExact'
  BY <1>1 DEF Confirm, journalVars, serviceVars, VersionInv, Version, AnswerInv,
     OneReservation, LossIsKnown, NamesLoss, PriorOf, HintIsTrue, AnswersAreTrue,
     RetryIsExact
<1>3. TypeOK'
  BY <1>1, Sized, Recorded, Somewhere DEF Confirm, Goto, journalVars, serviceVars, memory,
     world, TypeOK, Backup
<1>4. ProcessInv'
  BY <1>1, Sized, Recorded, Somewhere DEF Confirm, At, Goto, serviceVars, ProcessInv, Fresh,
     Staging, Sealed, Finished, Journalled, Active, TypeOK
<1>5. RecordInv'
  BY <1>1 DEF Confirm, Goto, journalVars, serviceVars, world, RecordInv
<1>6. ReviewInv'
  BY <1>1 DEF Confirm, Goto, ReviewInv
<1>7. ManifestInv'
  BY <1>1, Sized, Recorded, Somewhere DEF Confirm, At, Goto, journalVars, serviceVars,
     memory, world, ManifestInv, Passed, PriorOf, Sealed, Finished, ProcessInv, Staging,
     Journalled, Active, TypeOK
<1>8. GrantInv'
  BY <1>1 DEF Confirm, Goto, journalVars, serviceVars, GrantInv, Holds
<1> QED BY <1>2, <1>3, <1>4, <1>5, <1>6, <1>7, <1>8 DEF RunInv

LEMMA ConsumeKeeps == ASSUME RunInv, Consume PROVE RunInv'
<1>1. /\ TypeOK /\ ProcessInv /\ RecordInv /\ ReviewInv /\ ManifestInv
      /\ VersionInv /\ GrantInv /\ AnswerInv /\ OneReservation /\ LossIsKnown
      /\ HintIsTrue /\ AnswersAreTrue /\ RetryIsExact
  BY DEF RunInv
<1>2. /\ pc = "consume" /\ pc' = "promote" /\ run # None /\ run.id \in Runs
      /\ Consumed("published")
  BY <1>1, Recorded DEF Consume, At, Goto, ProcessInv, Fresh
<1>3. UNCHANGED <<run, journalVars, hint, serviceVars, memory, answer, world>>
  BY DEF Consume
<1>4. /\ review' \in {None} \cup Reviews
      /\ run.reviewed => /\ review # None /\ review' # None
                         /\ review'.base = review.base /\ review'.source = review.source
                         /\ review'.id = run.id /\ review'.outcome = "published"
      /\ ~run.reviewed => review' = review
  BY <1>2, ConsumedFacts
<1>5. /\ VersionInv' /\ AnswerInv' /\ OneReservation' /\ HintIsTrue' /\ AnswersAreTrue'
      /\ RetryIsExact'
  BY <1>1 DEF Consume, journalVars, serviceVars, VersionInv, Version, AnswerInv,
     OneReservation, HintIsTrue, AnswersAreTrue, RetryIsExact
<1>6. TypeOK'
  BY <1>1, <1>2, <1>3, <1>4, Sized, Recorded, Somewhere DEF journalVars, serviceVars,
     memory, world, TypeOK, Backup
<1>7. ProcessInv'
  BY <1>1, <1>2, <1>3, <1>4, Sized, Recorded, Somewhere DEF serviceVars, ProcessInv, Fresh,
     Staging, Sealed, Finished, Journalled, Active
<1>8. RecordInv'
  BY <1>1, <1>2, <1>3, <1>4, Sized, Recorded, Somewhere DEF serviceVars, world, RecordInv,
     ProcessInv, Finished
<1>9. ReviewInv'
  BY <1>1, <1>2, <1>3, <1>4 DEF ReviewInv
<1>10. ManifestInv'
  <2>1. \A sizes : Passed(sizes)' = Passed(sizes)
    BY <1>3, <1>4 DEF Passed, PriorOf, serviceVars
  <2>2. PriorOf(run.base)' = PriorOf(run.base)
    BY <1>3 DEF PriorOf, serviceVars
  <2> QED
    BY <1>1, <1>2, <1>3, <2>1, <2>2 DEF ManifestInv, Sealed, Finished, Journalled, Staging,
       serviceVars, journalVars, memory, world
<1>11. GrantInv'
  BY <1>1, <1>2, <1>3 DEF journalVars, serviceVars, GrantInv, Holds
<1>12. LossIsKnown'
  <2> SUFFICES ASSUME NEW r \in Runs, state[r] = "published" PROVE NamesLoss(r)'
    BY <1>3 DEF LossIsKnown, serviceVars
  <2>1. run.reviewed => review.id \in {None, run.id}
    BY <1>1, <1>2 DEF ReviewInv
  <2> QED BY <1>1, <1>3, <1>4, <2>1, LossStays, Somewhere DEF LossIsKnown, serviceVars
<1> QED BY <1>5, <1>6, <1>7, <1>8, <1>9, <1>10, <1>11, <1>12 DEF RunInv

LEMMA PromoteKeeps == ASSUME RunInv, Promote PROVE RunInv'
<1>1. /\ TypeOK /\ ProcessInv /\ RecordInv /\ ReviewInv /\ ManifestInv
      /\ VersionInv /\ GrantInv /\ AnswerInv /\ OneReservation /\ LossIsKnown
      /\ HintIsTrue /\ AnswersAreTrue /\ RetryIsExact
  BY DEF RunInv
<1>2. /\ run # None /\ run.id \in Runs /\ pc = "promote" /\ run.phase = "active"
      /\ state[run.id] = "published"
  BY <1>1, Recorded DEF Promote, At, ProcessInv, Fresh, Active, Finished
<1>3. candidate # None => candidate = SizesOf(catalog[run.id]) /\ candidate \in Sizes
  BY <1>1, <1>2 DEF ManifestInv, TypeOK
<1>4. \/ hint' = hint
      \/ candidate # None /\ hint' = [id |-> run.id, files |-> candidate]
  BY DEF Promote
<1>5. /\ UNCHANGED <<run, journalVars, review, serviceVars, memory, answer, world>>
      /\ pc' = "retire"
  BY DEF Promote, Goto
<1>6. /\ VersionInv' /\ AnswerInv' /\ OneReservation' /\ LossIsKnown' /\ AnswersAreTrue'
      /\ RetryIsExact'
  BY <1>1 DEF Promote, journalVars, serviceVars, VersionInv, Version, AnswerInv,
     OneReservation, LossIsKnown, NamesLoss, PriorOf, AnswersAreTrue, RetryIsExact
<1>7. TypeOK'
  BY <1>1, <1>2, <1>4, <1>5, Sized, Recorded, Somewhere DEF journalVars, serviceVars,
     memory, world, TypeOK, Backup
<1>8. ProcessInv'
  BY <1>2, <1>3, <1>4, <1>5, Sized, Recorded, Somewhere DEF serviceVars, ProcessInv, Fresh,
     Staging, Sealed, Finished, Journalled
<1>9. RecordInv'
  BY <1>1, <1>2, <1>5 DEF serviceVars, world, RecordInv
<1>10. ReviewInv'
  BY <1>1, <1>2, <1>5 DEF ReviewInv
<1>11. ManifestInv'
  BY <1>1, <1>2, <1>3, <1>4, <1>5, Sized, Recorded, Somewhere DEF journalVars, serviceVars,
     memory, world, ManifestInv, Passed, PriorOf, Sealed, ProcessInv, Staging, Journalled,
     Active, TypeOK
<1>12. GrantInv'
  BY <1>2, <1>5 DEF serviceVars, GrantInv, Holds
<1>13. HintIsTrue'
  BY <1>1, <1>2, <1>3, <1>4, <1>5 DEF serviceVars, HintIsTrue
<1> QED BY <1>6, <1>7, <1>8, <1>9, <1>10, <1>11, <1>12, <1>13 DEF RunInv

LEMMA RetireKeeps == ASSUME RunInv, Retire PROVE RunInv'
<1>1. /\ TypeOK /\ ProcessInv /\ RecordInv /\ ReviewInv /\ ManifestInv
      /\ VersionInv /\ GrantInv /\ AnswerInv /\ OneReservation /\ LossIsKnown
      /\ HintIsTrue /\ AnswersAreTrue /\ RetryIsExact
  BY DEF RunInv
<1>2. /\ pc = "retire" /\ pc' = "unlink" /\ run # None /\ run.id \in Runs
      /\ state[run.id] = "published"
  BY <1>1, Recorded DEF Retire, At, Goto, ProcessInv, Fresh, Finished
<1>3. /\ dir' = FALSE /\ receipts' = NoBytes /\ scratch' = NoBytes
      /\ manifest' = None /\ bound' = FALSE /\ candidate' = None
  BY DEF Retire, Retired
<1>4. UNCHANGED <<run, hint, review, serviceVars, memory, answer, world>>
  BY DEF Retire
<1>5. \A r \in late : state[r] # "active"
  BY <1>1, <1>2 DEF OneReservation, TypeOK
<1>6. /\ VersionInv' /\ AnswerInv' /\ OneReservation' /\ LossIsKnown' /\ HintIsTrue'
      /\ AnswersAreTrue'
  BY <1>1 DEF Retire, serviceVars, VersionInv, Version, AnswerInv, OneReservation,
     LossIsKnown, NamesLoss, PriorOf, HintIsTrue, AnswersAreTrue
<1>7. TypeOK'
  BY <1>1, <1>2, <1>3, <1>4, <1>5, Sized, Recorded, Somewhere DEF serviceVars, memory,
     world, TypeOK, Snapshots, Backup, Abandoning
<1>8. ProcessInv'
  BY <1>1, <1>2, <1>3, <1>4, <1>5, Sized, Recorded, Somewhere DEF serviceVars, ProcessInv,
     Fresh, Staging, Sealed, Finished, Journalled, Active
<1>9. RecordInv'
  BY <1>1, <1>3, <1>4 DEF serviceVars, world, RecordInv
<1>10. ReviewInv'
  BY <1>1, <1>2, <1>4 DEF ReviewInv
<1>11. ManifestInv'
  BY <1>1, <1>2, <1>3, <1>4, <1>5, Sized, Recorded, Somewhere DEF serviceVars, memory,
     world, ManifestInv, PriorOf, Sealed, ProcessInv, Staging, Journalled, Active, TypeOK
<1>12. GrantInv'
  BY <1>2, <1>4 DEF serviceVars, GrantInv, Holds
<1>13. RetryIsExact'
  BY <1>3 DEF RetryIsExact
<1> QED BY <1>6, <1>7, <1>8, <1>9, <1>10, <1>11, <1>12, <1>13 DEF RunInv

LEMMA UnlinkKeeps == ASSUME RunInv, Unlink PROVE RunInv'
<1>1. /\ TypeOK /\ ProcessInv /\ RecordInv /\ ReviewInv /\ ManifestInv
      /\ VersionInv /\ GrantInv /\ AnswerInv /\ OneReservation /\ LossIsKnown
      /\ HintIsTrue /\ AnswersAreTrue /\ RetryIsExact
  BY DEF RunInv
<1>2. /\ pc = "unlink" /\ pc' = "idle" /\ run # None /\ run.id \in Runs
      /\ state[run.id] = "published"
  BY <1>1, Recorded DEF Unlink, At, Goto, Forget, ProcessInv, Fresh, Finished
<1>3. /\ run' = None /\ reviewed' = FALSE /\ noted' = None /\ todo' = {} /\ staged' = Empty
      /\ UNCHANGED <<nonce, journalVars, hint, review, serviceVars, world>>
  BY DEF Unlink, Forget
<1>4. \A r \in Runs : state[r] \notin {"active", "lapsed", "cleanup_pending"}
  BY <1>1, <1>2 DEF OneReservation
<1>5. /\ ~dir /\ receipts = NoBytes /\ scratch = NoBytes
      /\ manifest = None /\ ~bound /\ candidate = None
  BY <1>1, <1>2 DEF RecordInv
<1>6. /\ answer' \in Answers /\ answer'.id = run.id /\ answer'.kind = "published"
      /\ answer'.risk = Risky(catalog[run.id]) /\ answer'.sizes = SizesOf(catalog[run.id])
  <2>1. catalog[run.id] \in Manifests /\ run.id \in Snapshots
    BY <1>1, <1>2, Somewhere DEF TypeOK, Manifests
  <2>2. ReportedRisk = Risky(catalog[run.id])
    <3>1. staged = Empty \/ catalog[run.id] = RowsOf(staged, PriorOf(run.base))
      BY <1>1, <1>2 DEF ManifestInv, Finished
    <3>2. staged \in Sizes /\ PriorOf(run.base) \in Manifests
      BY <1>1, <1>2, Recorded, PriorTyped DEF TypeOK
    <3> QED BY <3>1, <3>2, RowsFacts DEF ReportedRisk
  <2>3. answer' = [kind |-> "published", id |-> run.id, risk |-> Risky(catalog[run.id]),
                   sizes |-> SizesOf(catalog[run.id])]
    BY <2>2 DEF Unlink
  <2> QED BY <2>1, <2>3, Sized DEF Answers
<1>7. VersionInv' /\ HintIsTrue'
  BY <1>1 DEF Unlink, serviceVars, VersionInv, Version, HintIsTrue
<1>8. TypeOK'
  BY <1>1, <1>2, <1>3, <1>4, <1>5, <1>6, Sized, Recorded, Somewhere DEF journalVars,
     serviceVars, world, TypeOK, Snapshots, Backup, Abandoning
<1>9. ProcessInv'
  BY <1>2, <1>3 DEF ProcessInv, Staging, Sealed, Finished, Journalled, Active
<1>10. RecordInv'
  BY <1>1, <1>3, <1>5, <1>6, Sized, Recorded, Somewhere DEF journalVars, serviceVars, world,
     RecordInv
<1>11. ReviewInv'
  BY <1>1, <1>3 DEF ReviewInv
<1>12. ManifestInv'
  BY <1>1, <1>2, <1>3, <1>4, <1>5, <1>6, Sized, Recorded, Somewhere DEF journalVars,
     serviceVars, world, ManifestInv, Sealed, Staging, Journalled, TypeOK
<1>13. GrantInv'
  BY <1>2, <1>3 DEF GrantInv
<1>14. AnswerInv'
  BY <1>2, <1>6 DEF AnswerInv
<1>15. OneReservation'
  BY <1>3, <1>4 DEF serviceVars, OneReservation
<1>16. LossIsKnown'
  <2> SUFFICES ASSUME NEW r \in Runs, state[r] = "published" PROVE NamesLoss(r)'
    BY <1>3 DEF LossIsKnown, serviceVars
  <2>1. run.id = r /\ run.reviewed => review.id = r
    BY <1>1, <1>2 DEF ReviewInv
  <2> QED BY <1>1, <1>3, <2>1, LossStays DEF LossIsKnown, serviceVars
<1>17. AnswersAreTrue'
  BY <1>2, <1>3, <1>6 DEF serviceVars, AnswersAreTrue
<1>18. RetryIsExact'
  BY <1>3 DEF RetryIsExact
<1> QED
  BY <1>7, <1>8, <1>9, <1>10, <1>11, <1>12, <1>13, <1>14, <1>15, <1>16, <1>17, <1>18 DEF
     RunInv

-----------------------------------------------------------------------------
(* A run is given up: its receipt is dropped, its reservation cancelled. *)

LEMMA AbandonKeeps == ASSUME RunInv, Abandon PROVE RunInv'
<1>1. /\ TypeOK /\ ProcessInv /\ RecordInv /\ ReviewInv /\ ManifestInv
      /\ VersionInv /\ GrantInv /\ AnswerInv /\ OneReservation /\ LossIsKnown
      /\ HintIsTrue /\ AnswersAreTrue /\ RetryIsExact
  BY DEF RunInv
<1>2. VersionInv' /\ OneReservation' /\ LossIsKnown' /\ HintIsTrue' /\ RetryIsExact'
  BY <1>1 DEF Abandon, journalVars, serviceVars, VersionInv, Version, OneReservation,
     LossIsKnown, NamesLoss, PriorOf, HintIsTrue, RetryIsExact
<1>3. TypeOK'
  BY <1>1, Sized, Recorded, Somewhere DEF Abandon, Goto, journalVars, serviceVars, memory,
     world, TypeOK, Abandoning
<1>4. ProcessInv'
  BY <1>1, Sized, Recorded, Somewhere DEF Abandon, At, Goto, memory, ProcessInv, Fresh,
     Staging, Sealed, Finished, Journalled, Active, TypeOK
<1>5. RecordInv'
  BY <1>1 DEF Abandon, Goto, journalVars, serviceVars, world, RecordInv
<1>6. ReviewInv'
  BY <1>1 DEF Abandon, Goto, ReviewInv
<1>7. ManifestInv'
  BY <1>1, Sized, Recorded, Somewhere DEF Abandon, Goto, journalVars, serviceVars, world,
     ManifestInv, Passed, PriorOf, Sealed, Finished, ProcessInv, Staging, Journalled,
     Active, TypeOK
<1>8. GrantInv'
  BY <1>1 DEF Abandon, Goto, journalVars, serviceVars, GrantInv, Holds
<1>9. AnswerInv'
  BY DEF Abandon, NoAnswer, AnswerInv
<1>10. AnswersAreTrue'
  BY DEF Abandon, NoAnswer, AnswersAreTrue
<1> QED BY <1>2, <1>3, <1>4, <1>5, <1>6, <1>7, <1>8, <1>9, <1>10 DEF RunInv

LEMMA ReceiptKeeps == ASSUME RunInv, Receipt PROVE RunInv'
<1>1. /\ TypeOK /\ ProcessInv /\ RecordInv /\ ReviewInv /\ ManifestInv
      /\ VersionInv /\ GrantInv /\ AnswerInv /\ OneReservation /\ LossIsKnown
      /\ HintIsTrue /\ AnswersAreTrue /\ RetryIsExact
  BY DEF RunInv
<1>2. /\ VersionInv' /\ AnswerInv' /\ OneReservation' /\ LossIsKnown' /\ HintIsTrue'
      /\ AnswersAreTrue' /\ RetryIsExact'
  BY <1>1 DEF Receipt, journalVars, serviceVars, VersionInv, Version, AnswerInv,
     OneReservation, LossIsKnown, NamesLoss, PriorOf, HintIsTrue, AnswersAreTrue,
     RetryIsExact, GrantInv
<1>3. TypeOK'
  BY <1>1, Sized, Recorded, Somewhere DEF Receipt, Goto, journalVars, serviceVars, memory,
     world, TypeOK, Abandoning
<1>4. ProcessInv'
  BY <1>1, Sized, Recorded, Somewhere DEF Receipt, At, Goto, serviceVars, memory,
     ProcessInv, Fresh, Staging, Sealed, Finished, Journalled, Active, TypeOK
<1>5. RecordInv'
  BY <1>1 DEF Receipt, Goto, journalVars, serviceVars, world, RecordInv
<1>6. ReviewInv'
  BY <1>1 DEF Receipt, Goto, ReviewInv
<1>7. ManifestInv'
  BY <1>1, Sized, Recorded, Somewhere DEF Receipt, Goto, journalVars, serviceVars, world,
     ManifestInv, Passed, PriorOf, Sealed, Finished, ProcessInv, Staging, Journalled,
     Active, TypeOK
<1>8. GrantInv'
  BY <1>1 DEF Receipt, Goto, journalVars, serviceVars, GrantInv, Holds
<1> QED BY <1>2, <1>3, <1>4, <1>5, <1>6, <1>7, <1>8 DEF RunInv

LEMMA GiveUpKeeps == ASSUME RunInv, GiveUp PROVE RunInv'
<1>1. /\ TypeOK /\ ProcessInv /\ RecordInv /\ ReviewInv /\ ManifestInv
      /\ VersionInv /\ GrantInv /\ AnswerInv /\ OneReservation /\ LossIsKnown
      /\ HintIsTrue /\ AnswersAreTrue /\ RetryIsExact
  BY DEF RunInv
<1>2. /\ pc = "giveUp" /\ pc' = "quarantine" /\ run # None /\ run.id \in Runs
      /\ Consumed("abandoned")
  BY <1>1, Recorded DEF GiveUp, At, Goto, ProcessInv, Fresh
<1>3. UNCHANGED <<run, journalVars, hint, serviceVars, memory, answer, world>>
  BY DEF GiveUp
<1>4. /\ review' \in {None} \cup Reviews
      /\ run.reviewed => /\ review # None /\ review' # None
                         /\ review'.base = review.base /\ review'.source = review.source
                         /\ review'.id = run.id /\ review'.outcome = "abandoned"
      /\ ~run.reviewed => review' = review
  BY <1>2, ConsumedFacts
<1>5. /\ VersionInv' /\ AnswerInv' /\ OneReservation' /\ HintIsTrue' /\ AnswersAreTrue'
      /\ RetryIsExact'
  BY <1>1 DEF GiveUp, journalVars, serviceVars, VersionInv, Version, AnswerInv,
     OneReservation, HintIsTrue, AnswersAreTrue, RetryIsExact
<1>6. TypeOK'
  BY <1>1, <1>2, <1>3, <1>4, Sized, Recorded, Somewhere DEF journalVars, serviceVars,
     memory, world, TypeOK, Abandoning
<1>7. ProcessInv'
  BY <1>1, <1>2, <1>3, <1>4, Sized, Recorded, Somewhere DEF memory, ProcessInv, Fresh,
     Staging, Sealed, Finished, Journalled, Active
<1>8. RecordInv'
  BY <1>1, <1>2, <1>3 DEF journalVars, serviceVars, world, RecordInv
<1>9. ReviewInv'
  BY <1>1, <1>2, <1>3, <1>4 DEF ReviewInv
<1>10. ManifestInv'
  <2>1. \A sizes : Passed(sizes)' = Passed(sizes)
    BY <1>3, <1>4 DEF Passed, PriorOf, serviceVars
  <2>2. PriorOf(run.base)' = PriorOf(run.base)
    BY <1>3 DEF PriorOf, serviceVars
  <2> QED
    BY <1>1, <1>2, <1>3, <2>1, <2>2 DEF ManifestInv, Sealed, Finished, Journalled, Staging,
       serviceVars, journalVars, world
<1>11. GrantInv'
  BY <1>1, <1>2, <1>3 DEF journalVars, serviceVars, GrantInv, Holds
<1>12. LossIsKnown'
  <2> SUFFICES ASSUME NEW r \in Runs, state[r] = "published" PROVE NamesLoss(r)'
    BY <1>3 DEF LossIsKnown, serviceVars
  <2>1. run.reviewed => review.id \in {None, run.id}
    BY <1>1, <1>2 DEF ReviewInv
  <2> QED BY <1>1, <1>3, <1>4, <2>1, LossStays, Somewhere DEF LossIsKnown, serviceVars
<1> QED BY <1>5, <1>6, <1>7, <1>8, <1>9, <1>10, <1>11, <1>12 DEF RunInv

LEMMA QuarantineKeeps == ASSUME RunInv, Quarantine PROVE RunInv'
<1>1. /\ TypeOK /\ ProcessInv /\ RecordInv /\ ReviewInv /\ ManifestInv
      /\ VersionInv /\ GrantInv /\ AnswerInv /\ OneReservation /\ LossIsKnown
      /\ HintIsTrue /\ AnswersAreTrue /\ RetryIsExact
  BY DEF RunInv
<1>2. /\ run # None /\ run.id \in Runs
      /\ state' \in {state, [state EXCEPT ![run.id] = "cleanup_pending"]}
  BY <1>1, Recorded DEF Quarantine, At, ProcessInv, Fresh
<1>3. AnswerInv'
  BY <1>1 DEF Quarantine, AnswerInv
<1>4. TypeOK'
  BY <1>1, <1>2, Sized, Recorded, Somewhere DEF Quarantine, Goto, journalVars, memory,
     world, TypeOK, Abandoning
<1>5. ProcessInv'
  BY <1>1, <1>2, Sized, Recorded, Somewhere DEF Quarantine, At, Goto, memory, ProcessInv,
     Fresh, Staging, Sealed, Finished, Journalled, Active, TypeOK
<1>6. RecordInv'
  BY <1>1 DEF Quarantine, Goto, journalVars, world, RecordInv
<1>7. ReviewInv'
  BY <1>1 DEF Quarantine, Goto, ReviewInv
<1>8. ManifestInv'
  BY <1>1, <1>2, Sized, Recorded, Somewhere DEF Quarantine, Goto, journalVars, world,
     ManifestInv, Passed, PriorOf, Sealed, Finished, ProcessInv, Staging, Journalled,
     Active, TypeOK
<1>9. VersionInv'
  BY <1>1 DEF Quarantine, VersionInv, Version
<1>10. GrantInv'
  BY <1>1, Recorded DEF Quarantine, Goto, GrantInv, Holds, TypeOK
<1>11. OneReservation'
  BY <1>1 DEF Quarantine, OneReservation
<1>12. LossIsKnown'
  BY <1>1 DEF Quarantine, At, LossIsKnown, NamesLoss, PriorOf
<1>13. HintIsTrue'
  BY <1>1 DEF Quarantine, HintIsTrue
<1>14. AnswersAreTrue'
  BY <1>1 DEF Quarantine, AnswersAreTrue
<1>15. RetryIsExact'
  BY <1>1, Recorded DEF Quarantine, RetryIsExact, TypeOK
<1> QED
  BY <1>3, <1>4, <1>5, <1>6, <1>7, <1>8, <1>9, <1>10, <1>11, <1>12, <1>13, <1>14, <1>15 DEF
     RunInv

LEMMA MarkKeeps == ASSUME RunInv, Mark PROVE RunInv'
<1>1. /\ TypeOK /\ ProcessInv /\ RecordInv /\ ReviewInv /\ ManifestInv
      /\ VersionInv /\ GrantInv /\ AnswerInv /\ OneReservation /\ LossIsKnown
      /\ HintIsTrue /\ AnswersAreTrue /\ RetryIsExact
  BY DEF RunInv
<1>2. /\ pc = "mark" /\ run # None /\ run \in RunRecords /\ run.id \in Runs
      /\ state[run.id] \in {"cleanup_pending", "released"} /\ Consumed("abandoned")
  BY <1>1, Recorded DEF Mark, At, ProcessInv, Fresh
<1>3. /\ run' = [run EXCEPT !.phase = "cleanup_pending"]
      /\ UNCHANGED <<journalVars, hint, serviceVars, world, answer>>
  BY DEF Mark
<1>4. /\ run' \in RunRecords /\ run' # None /\ run'.id = run.id
      /\ run'.phase = "cleanup_pending"
      /\ run'.reviewed = run.reviewed
  BY <1>2, <1>3, Somewhere DEF RunRecords
<1>5. /\ review' \in {None} \cup Reviews
      /\ run.reviewed => /\ review # None /\ review' # None
                         /\ review'.base = review.base /\ review'.source = review.source
                         /\ review'.id = run.id /\ review'.outcome = "abandoned"
      /\ ~run.reviewed => review' = review
  BY <1>2, ConsumedFacts
<1>6. \/ state[run.id] = "released" /\ pc' = "clear" /\ UNCHANGED memory
      \/ /\ pc' = "idle" /\ reviewed' = FALSE /\ noted' = None /\ todo' = {} /\ staged' = Empty
         /\ nonce' = nonce
  BY DEF Mark, Goto, Forget
<1>7. staged = Empty /\ staged' = Empty
  BY <1>1, <1>2, <1>6 DEF ProcessInv, memory, Journalled, Staging, Sealed
<1>8. VersionInv' /\ HintIsTrue'
  BY <1>1 DEF Mark, serviceVars, VersionInv, Version, HintIsTrue
<1>9. TypeOK'
  <2>1. /\ pc' \in {"idle"} \cup Backup \cup Abandoning /\ reviewed' \in BOOLEAN
        /\ noted' \in Snapshots \cup {None} /\ todo' \subseteq Threads
        /\ staged' \in Sizes /\ nonce' \in 1..2
    BY <1>1, <1>6, <1>7, Sized DEF memory, TypeOK, Abandoning
  <2> QED BY <1>1, <1>3, <1>4, <1>5, <2>1 DEF journalVars, serviceVars, world, TypeOK
<1>10. ProcessInv'
  BY <1>2, <1>3, <1>4, <1>5, <1>6, <1>7, Sized, Recorded, Somewhere DEF serviceVars,
     ProcessInv, Fresh, Staging, Sealed, Finished, Journalled, Active
<1>11. RecordInv'
  BY <1>1, <1>2, <1>3, <1>4, <1>6, <1>7, Sized, Recorded, Somewhere DEF serviceVars, world,
     RecordInv
<1>12. ReviewInv'
  BY <1>1, <1>4, <1>5, <1>6 DEF ReviewInv
<1>13. ManifestInv'
  BY <1>1, <1>2, <1>3, <1>4, <1>5, <1>6, <1>7, Sized, Recorded, Somewhere DEF journalVars,
     serviceVars, world, ManifestInv, Sealed
<1>14. GrantInv'
  BY <1>2, <1>3, <1>6 DEF serviceVars, GrantInv, Holds
<1>15. AnswerInv'
  BY <1>1, <1>3 DEF AnswerInv
<1>16. OneReservation'
  BY <1>1, <1>3, <1>4 DEF serviceVars, OneReservation
<1>17. LossIsKnown'
  <2> SUFFICES ASSUME NEW r \in Runs, state[r] = "published" PROVE NamesLoss(r)'
    BY <1>3 DEF LossIsKnown, serviceVars
  <2>1. run.reviewed => review.id \in {None, run.id}
    BY <1>1, <1>2 DEF ReviewInv
  <2> QED BY <1>1, <1>3, <1>5, <2>1, LossStays, Somewhere DEF LossIsKnown, serviceVars
<1>18. AnswersAreTrue'
  BY <1>1, <1>3 DEF serviceVars, AnswersAreTrue
<1>19. RetryIsExact'
  BY <1>2, <1>3 DEF serviceVars, RetryIsExact
<1> QED
  BY <1>8, <1>9, <1>10, <1>11, <1>12, <1>13, <1>14, <1>15, <1>16, <1>17, <1>18, <1>19 DEF
     RunInv

LEMMA ClearKeeps == ASSUME RunInv, Clear PROVE RunInv'
<1>1. /\ TypeOK /\ ProcessInv /\ RecordInv /\ ReviewInv /\ ManifestInv
      /\ VersionInv /\ GrantInv /\ AnswerInv /\ OneReservation /\ LossIsKnown
      /\ HintIsTrue /\ AnswersAreTrue /\ RetryIsExact
  BY DEF RunInv
<1>2. /\ pc = "clear" /\ pc' = "unmark" /\ run # None /\ run.id \in Runs
      /\ state[run.id] = "released"
  BY <1>1, Recorded DEF Clear, At, Goto, ProcessInv, Fresh
<1>3. /\ dir' = FALSE /\ receipts' = NoBytes /\ scratch' = NoBytes
      /\ manifest' = None /\ bound' = FALSE /\ candidate' = None
  BY DEF Clear, Retired
<1>4. UNCHANGED <<run, hint, review, serviceVars, memory, answer, world>>
  BY DEF Clear
<1>5. \A r \in late : state[r] # "active"
  BY <1>1, <1>2 DEF OneReservation, TypeOK
<1>6. /\ VersionInv' /\ AnswerInv' /\ OneReservation' /\ LossIsKnown' /\ HintIsTrue'
      /\ AnswersAreTrue'
  BY <1>1 DEF Clear, serviceVars, VersionInv, Version, AnswerInv, OneReservation,
     LossIsKnown, NamesLoss, PriorOf, HintIsTrue, AnswersAreTrue
<1>7. TypeOK'
  BY <1>1, <1>2, <1>3, <1>4, <1>5, Sized, Recorded, Somewhere DEF serviceVars, memory,
     world, TypeOK, Snapshots, Backup, Abandoning
<1>8. ProcessInv'
  BY <1>1, <1>2, <1>3, <1>4, <1>5, Sized, Recorded, Somewhere DEF serviceVars, memory,
     ProcessInv, Fresh, Staging, Sealed, Finished, Journalled, Active
<1>9. RecordInv'
  BY <1>1, <1>3, <1>4 DEF serviceVars, world, RecordInv
<1>10. ReviewInv'
  BY <1>1, <1>2, <1>4 DEF ReviewInv
<1>11. ManifestInv'
  BY <1>2, <1>3, <1>4, <1>5, Sized, Recorded, Somewhere DEF serviceVars, world, ManifestInv,
     Sealed, Finished
<1>12. GrantInv'
  BY <1>2, <1>4 DEF serviceVars, GrantInv, Holds
<1>13. RetryIsExact'
  BY <1>3 DEF RetryIsExact
<1> QED BY <1>6, <1>7, <1>8, <1>9, <1>10, <1>11, <1>12, <1>13 DEF RunInv

LEMMA UnmarkKeeps == ASSUME RunInv, Unmark PROVE RunInv'
<1>1. /\ TypeOK /\ ProcessInv /\ RecordInv /\ ReviewInv /\ ManifestInv
      /\ VersionInv /\ GrantInv /\ AnswerInv /\ OneReservation /\ LossIsKnown
      /\ HintIsTrue /\ AnswersAreTrue /\ RetryIsExact
  BY DEF RunInv
<1>2. /\ pc = "unmark" /\ pc' = "idle" /\ run # None /\ run.id \in Runs
      /\ state[run.id] = "released"
  BY <1>1, Recorded DEF Unmark, At, Goto, Forget, ProcessInv, Fresh
<1>3. /\ run' = None /\ reviewed' = FALSE /\ noted' = None /\ todo' = {} /\ staged' = Empty
      /\ UNCHANGED <<nonce, journalVars, hint, review, serviceVars, world>>
  BY DEF Unmark, Forget
<1>4. \A r \in Runs : state[r] \notin {"active", "lapsed", "cleanup_pending"}
  BY <1>1, <1>2 DEF OneReservation
<1>5. /\ ~dir /\ receipts = NoBytes /\ scratch = NoBytes
      /\ manifest = None /\ ~bound /\ candidate = None
  BY <1>1, <1>2 DEF RecordInv
<1>6. answer' \in Answers /\ answer'.id = run.id /\ answer'.kind = "released"
  BY <1>2, Sized, Somewhere DEF Unmark, NoAnswer, Answers
<1>7. VersionInv' /\ HintIsTrue'
  BY <1>1 DEF Unmark, serviceVars, VersionInv, Version, HintIsTrue
<1>8. TypeOK'
  BY <1>1, <1>2, <1>3, <1>4, <1>5, <1>6, Sized, Recorded, Somewhere DEF journalVars,
     serviceVars, world, TypeOK, Snapshots, Backup, Abandoning
<1>9. ProcessInv'
  BY <1>2, <1>3 DEF ProcessInv, Staging, Sealed, Finished, Journalled, Active
<1>10. RecordInv'
  BY <1>1, <1>3, <1>5, <1>6, Sized, Recorded, Somewhere DEF journalVars, serviceVars, world,
     RecordInv
<1>11. ReviewInv'
  BY <1>1, <1>3 DEF ReviewInv
<1>12. ManifestInv'
  BY <1>1, <1>2, <1>3, <1>4, <1>5, <1>6, Sized, Recorded, Somewhere DEF journalVars,
     serviceVars, world, ManifestInv, Sealed, Staging, Journalled, TypeOK
<1>13. GrantInv'
  BY <1>2, <1>3 DEF GrantInv
<1>14. AnswerInv'
  BY <1>2, <1>6 DEF AnswerInv
<1>15. OneReservation'
  BY <1>3, <1>4 DEF serviceVars, OneReservation
<1>16. LossIsKnown'
  <2> SUFFICES ASSUME NEW r \in Runs, state[r] = "published" PROVE NamesLoss(r)'
    BY <1>3 DEF LossIsKnown, serviceVars
  <2>1. run.id = r /\ run.reviewed => review.id = r
    BY <1>2
  <2> QED BY <1>1, <1>3, <2>1, LossStays DEF LossIsKnown, serviceVars
<1>17. AnswersAreTrue'
  BY <1>2, <1>3, <1>6 DEF serviceVars, AnswersAreTrue
<1>18. RetryIsExact'
  BY <1>3 DEF RetryIsExact
<1> QED
  BY <1>7, <1>8, <1>9, <1>10, <1>11, <1>12, <1>13, <1>14, <1>15, <1>16, <1>17, <1>18 DEF
     RunInv

-----------------------------------------------------------------------------
(* The process stops at any step, and a request arrives late. *)

LEMMA StopKeeps == ASSUME RunInv, Stop PROVE RunInv'
<1>1. /\ TypeOK /\ ProcessInv /\ RecordInv /\ ReviewInv /\ ManifestInv
      /\ VersionInv /\ GrantInv /\ AnswerInv /\ OneReservation /\ LossIsKnown
      /\ HintIsTrue /\ AnswersAreTrue /\ RetryIsExact
  BY DEF RunInv
<1>2. /\ pc' = "idle" /\ reviewed' = FALSE /\ noted' = None /\ todo' = {} /\ staged' = Empty
      /\ UNCHANGED <<nonce, run, journalVars, hint, review, serviceVars, answer, source, edits>>
  BY DEF Stop, Forget, Goto
<1>3. \/ late' = late
      \/ /\ pc = "publish" /\ late' = late \cup {run.id} /\ run # None /\ run.id \in Runs
         /\ run.phase = "active" /\ state[run.id] # "none" /\ manifest # None
  <2>1. late' = late \/ (pc = "publish" /\ late' = late \cup {run.id})
    BY DEF Stop, At
  <2>2. ASSUME pc = "publish"
        PROVE  run # None /\ run.id \in Runs /\ run.phase = "active" /\ state[run.id] # "none"
    BY <1>1, <2>2, Recorded DEF ProcessInv, RecordInv, Active, Journalled, Sealed
  <2>3. ASSUME pc = "publish" PROVE manifest # None
    BY <1>1, <2>2, <2>3, Recorded, PriorTyped, RowsFacts, Somewhere DEF ManifestInv, Sealed,
       TypeOK
  <2> QED BY <2>1, <2>2, <2>3
<1>4. /\ VersionInv' /\ AnswerInv' /\ OneReservation' /\ LossIsKnown' /\ HintIsTrue'
      /\ AnswersAreTrue' /\ RetryIsExact'
  BY <1>1 DEF Stop, journalVars, serviceVars, VersionInv, Version, AnswerInv,
     OneReservation, LossIsKnown, NamesLoss, PriorOf, HintIsTrue, AnswersAreTrue,
     RetryIsExact
<1>5. TypeOK'
  <2>1. /\ pc' \in {"idle"} \cup Backup \cup Abandoning /\ reviewed' \in BOOLEAN
        /\ noted' \in Snapshots \cup {None} /\ todo' \subseteq Threads
        /\ staged' \in Sizes /\ nonce' \in 1..2
    BY <1>1, <1>2, Sized DEF TypeOK
  <2>2. late' \subseteq Runs
    BY <1>1, <1>3 DEF TypeOK
  <2> QED BY <1>1, <1>2, <2>1, <2>2 DEF journalVars, serviceVars, TypeOK
<1>6. ProcessInv'
  BY <1>2 DEF ProcessInv, Fresh, Staging, Sealed, Finished, Journalled, Active
<1>7. RecordInv'
  BY <1>1, <1>2, <1>3 DEF journalVars, serviceVars, RecordInv
<1>8. ReviewInv'
  BY <1>1, <1>2 DEF ReviewInv
<1>9. ManifestInv'
  BY <1>1, <1>2, <1>3, Sized, Recorded, Somewhere DEF journalVars, serviceVars, ManifestInv,
     Passed, PriorOf, Sealed, Staging, Journalled, TypeOK
<1>10. GrantInv'
  BY <1>1, <1>2 DEF journalVars, serviceVars, GrantInv, Holds
<1> QED BY <1>4, <1>5, <1>6, <1>7, <1>8, <1>9, <1>10 DEF RunInv

LEMMA ArriveKeeps == ASSUME RunInv, NEW r \in Runs, Arrive(r) PROVE RunInv'
<1>1. /\ TypeOK /\ ProcessInv /\ RecordInv /\ ReviewInv /\ ManifestInv
      /\ VersionInv /\ GrantInv /\ AnswerInv /\ OneReservation /\ LossIsKnown
      /\ HintIsTrue /\ AnswersAreTrue /\ RetryIsExact
  BY DEF RunInv
<1>2. /\ r \in late /\ late' = late \ {r} /\ answer' = NoAnswer
      /\ UNCHANGED <<run, journalVars, hint, review, pc, memory, source, edits>>
  BY DEF Arrive
<1>3. Publishable(r) => run # None /\ run.id = r /\ run.phase = "active" /\ manifest # None
  BY <1>1, <1>2, HolderIsRecorded, Recorded DEF Publishable, RecordInv, ManifestInv
<1>4. \/ UNCHANGED serviceVars
      \/ Publishable(r) /\ Published(r)
  BY DEF Arrive
<1>5. \/ UNCHANGED serviceVars
      \/ /\ run # None /\ run.id = r /\ run.phase = "active" /\ manifest # None
         /\ state' \in [Runs -> {"none", "active", "lapsed", "published", "cleanup_pending",
                                 "released"}]
         /\ head' \in Snapshots /\ catalog' \in [Snapshots -> Manifests]
         /\ state'[run.id] = "published" /\ catalog'[run.id] = manifest
         /\ state[run.id] = "active" /\ run.id \in Runs
         /\ \A s \in Runs : s # run.id => state'[s] = state[s]
         /\ \A s \in Snapshots : s # run.id => catalog'[s] = catalog[s]
         /\ PriorOf(run.base)' = PriorOf(run.base)
         /\ VersionInv' /\ LossIsKnown' /\ HintIsTrue' /\ OneReservation'
         /\ UNCHANGED <<base, object, granted>>
  <2>1. CASE Publishable(r) /\ Published(r)
    BY <1>2, <1>3, <2>1, PublicationKeeps DEF Published
  <2> QED BY <1>4, <2>1
<1>6. ReviewInv'
  BY <1>1 DEF Arrive, memory, ReviewInv
<1>7. TypeOK'
  BY <1>1, <1>2, <1>5, Sized DEF journalVars, serviceVars, memory, TypeOK
<1>8. ProcessInv'
  BY <1>1, <1>2, <1>5 DEF journalVars, serviceVars, memory, ProcessInv
<1>9. RecordInv'
  BY <1>1, <1>2, <1>5 DEF journalVars, serviceVars, RecordInv, TypeOK
<1>10. ManifestInv'
  <2>1. CASE UNCHANGED serviceVars
    BY <1>1, <1>2, <2>1 DEF serviceVars, journalVars, memory, ManifestInv, Passed, PriorOf
  <2>2. CASE ~UNCHANGED serviceVars
    <3>1. \A sizes : Passed(sizes)' = Passed(sizes)
      BY <1>2, <1>5, <2>2 DEF Passed
    <3>2. pc \notin Finished
      BY <1>1, <1>5, <2>2 DEF ProcessInv
    <3>3. \A s \in late' : state'[s] = "active" => manifest # None
      BY <1>5, <2>2
    <3> QED BY <1>1, <1>2, <1>5, <2>2, <3>1, <3>2 DEF ManifestInv, journalVars, memory
  <2> QED BY <2>1, <2>2
<1>11. VersionInv'
  <2>1. CASE UNCHANGED serviceVars
    BY <1>1, <2>1 DEF serviceVars, VersionInv, Version
  <2> QED BY <1>5, <2>1
<1>12. GrantInv'
  BY <1>1, <1>2, <1>5, Sized, Recorded, Somewhere DEF journalVars, serviceVars, memory,
     GrantInv, Holds, Chunk, Current
<1>13. AnswerInv'
  BY <1>2 DEF NoAnswer, AnswerInv
<1>14. OneReservation'
  <2>1. CASE UNCHANGED serviceVars
    BY <1>1, <1>2, <2>1 DEF serviceVars, OneReservation
  <2> QED BY <1>5, <2>1
<1>15. LossIsKnown'
  <2>1. CASE UNCHANGED serviceVars
    BY <1>1, <1>2, <2>1 DEF serviceVars, LossIsKnown, NamesLoss, PriorOf
  <2> QED BY <1>5, <2>1
<1>16. HintIsTrue'
  <2>1. CASE UNCHANGED serviceVars
    BY <1>1, <1>2, <2>1 DEF serviceVars, HintIsTrue
  <2> QED BY <1>5, <2>1
<1>17. AnswersAreTrue'
  BY <1>2 DEF NoAnswer, AnswersAreTrue
<1>18. RetryIsExact'
  BY <1>1, <1>2, <1>5 DEF journalVars, serviceVars, RetryIsExact
<1> QED
  BY <1>6, <1>7, <1>8, <1>9, <1>10, <1>11, <1>12, <1>13, <1>14, <1>15, <1>16, <1>17, <1>18
     DEF RunInv

-----------------------------------------------------------------------------
(* The service's clock and cleanup, the Mac's user and its peers. *)

LEMMA LapseKeeps == ASSUME RunInv, NEW r \in Runs, Lapse(r) PROVE RunInv'
<1>1. /\ TypeOK /\ ProcessInv /\ RecordInv /\ ReviewInv /\ ManifestInv
      /\ VersionInv /\ GrantInv /\ AnswerInv /\ OneReservation /\ LossIsKnown
      /\ HintIsTrue /\ AnswersAreTrue /\ RetryIsExact
  BY DEF RunInv
<1>2. ReviewInv'
  BY <1>1 DEF Lapse, memory, ReviewInv
<1>3. TypeOK'
  BY <1>1, Sized DEF Lapse, journalVars, memory, world, TypeOK
<1>4. ProcessInv'
  BY <1>1 DEF Lapse, journalVars, memory, ProcessInv
<1>5. RecordInv'
  BY <1>1 DEF Lapse, journalVars, world, RecordInv
<1>6. ManifestInv'
  BY <1>1, Sized, Recorded, Somewhere DEF Lapse, journalVars, memory, world, ManifestInv,
     Passed, PriorOf, TypeOK
<1>7. VersionInv'
  BY <1>1 DEF Lapse, VersionInv, Version
<1>8. GrantInv'
  BY <1>1, Sized, Recorded, Somewhere DEF Lapse, journalVars, memory, GrantInv, Holds,
     Chunk, Current
<1>9. AnswerInv'
  BY DEF Lapse, NoAnswer, AnswerInv
<1>10. OneReservation'
  BY <1>1 DEF Lapse, OneReservation
<1>11. LossIsKnown'
  <2>1. \A q \in Runs : state'[q] = "published" => state[q] = "published"
    BY <1>1 DEF Lapse, TypeOK
  <2>2. UNCHANGED <<run, review, base, catalog>>
    BY DEF Lapse
  <2> QED BY <1>1, <2>1, <2>2 DEF LossIsKnown, NamesLoss, PriorOf
<1>12. HintIsTrue'
  BY <1>1 DEF Lapse, HintIsTrue
<1>13. AnswersAreTrue'
  BY DEF Lapse, NoAnswer, AnswersAreTrue
<1>14. RetryIsExact'
  BY <1>1 DEF Lapse, journalVars, RetryIsExact
<1> QED
  BY <1>2, <1>3, <1>4, <1>5, <1>6, <1>7, <1>8, <1>9, <1>10, <1>11, <1>12, <1>13, <1>14 DEF
     RunInv

LEMMA ClaimCleanupKeeps == ASSUME RunInv, NEW r \in Runs, ClaimCleanup(r) PROVE RunInv'
<1>1. /\ TypeOK /\ ProcessInv /\ RecordInv /\ ReviewInv /\ ManifestInv
      /\ VersionInv /\ GrantInv /\ AnswerInv /\ OneReservation /\ LossIsKnown
      /\ HintIsTrue /\ AnswersAreTrue /\ RetryIsExact
  BY DEF RunInv
<1>2. ReviewInv'
  BY <1>1 DEF ClaimCleanup, memory, ReviewInv
<1>3. TypeOK'
  BY <1>1, Sized DEF ClaimCleanup, journalVars, memory, world, TypeOK
<1>4. ProcessInv'
  BY <1>1 DEF ClaimCleanup, journalVars, memory, ProcessInv
<1>5. RecordInv'
  BY <1>1 DEF ClaimCleanup, journalVars, world, RecordInv
<1>6. ManifestInv'
  BY <1>1, Sized, Recorded, Somewhere DEF ClaimCleanup, journalVars, memory, world,
     ManifestInv, Passed, PriorOf, TypeOK
<1>7. VersionInv'
  BY <1>1 DEF ClaimCleanup, VersionInv, Version
<1>8. GrantInv'
  BY <1>1, Sized, Recorded, Somewhere DEF ClaimCleanup, journalVars, memory, GrantInv,
     Holds, Chunk, Current
<1>9. AnswerInv'
  BY DEF ClaimCleanup, NoAnswer, AnswerInv
<1>10. OneReservation'
  BY <1>1 DEF ClaimCleanup, OneReservation
<1>11. LossIsKnown'
  BY <1>1, Sized, Recorded, Somewhere DEF ClaimCleanup, journalVars, memory, world,
     LossIsKnown, NamesLoss, PriorOf, TypeOK
<1>12. HintIsTrue'
  BY <1>1 DEF ClaimCleanup, HintIsTrue
<1>13. AnswersAreTrue'
  BY DEF ClaimCleanup, NoAnswer, AnswersAreTrue
<1>14. RetryIsExact'
  BY <1>1 DEF ClaimCleanup, journalVars, RetryIsExact
<1> QED
  BY <1>2, <1>3, <1>4, <1>5, <1>6, <1>7, <1>8, <1>9, <1>10, <1>11, <1>12, <1>13, <1>14 DEF
     RunInv

LEMMA ReleaseKeeps == ASSUME RunInv, NEW r \in Runs, Release(r) PROVE RunInv'
<1>1. /\ TypeOK /\ ProcessInv /\ RecordInv /\ ReviewInv /\ ManifestInv
      /\ VersionInv /\ GrantInv /\ AnswerInv /\ OneReservation /\ LossIsKnown
      /\ HintIsTrue /\ AnswersAreTrue /\ RetryIsExact
  BY DEF RunInv
<1>2. state[r] = "cleanup_pending" /\ run # None /\ run.id = r
  BY HolderIsRecorded DEF Release
<1>3. object' \in Ciphertexts
  BY <1>1 DEF Release, TypeOK, Ciphertexts
<1>4. ReviewInv'
  BY <1>1 DEF Release, memory, ReviewInv
<1>5. TypeOK'
  BY <1>1, <1>3, Sized, Recorded, Somewhere DEF Release, journalVars, memory, world, TypeOK
<1>6. ProcessInv'
  BY <1>1 DEF Release, journalVars, memory, ProcessInv
<1>7. RecordInv'
  BY <1>1 DEF Release, journalVars, world, RecordInv
<1>8. ManifestInv'
  BY <1>1, <1>2, <1>3, Sized, Recorded, Somewhere DEF Release, journalVars, memory, world,
     ManifestInv, Passed, PriorOf
<1>9. VersionInv'
  BY <1>1 DEF Release, VersionInv, Version
<1>10. GrantInv'
  BY <1>1, <1>2, <1>3, Sized, Recorded, Somewhere DEF Release, journalVars, memory,
     GrantInv, Holds, Chunk, Current
<1>11. AnswerInv'
  BY DEF Release, NoAnswer, AnswerInv
<1>12. OneReservation'
  BY <1>1 DEF Release, OneReservation
<1>13. LossIsKnown'
  BY <1>1, <1>2, <1>3, Sized, Recorded, Somewhere DEF Release, world, LossIsKnown,
     NamesLoss, PriorOf
<1>14. HintIsTrue'
  BY <1>1 DEF Release, HintIsTrue
<1>15. AnswersAreTrue'
  BY DEF Release, NoAnswer, AnswersAreTrue
<1>16. RetryIsExact'
  BY DEF Release, RetryIsExact
<1> QED
  BY <1>4, <1>5, <1>6, <1>7, <1>8, <1>9, <1>10, <1>11, <1>12, <1>13, <1>14, <1>15, <1>16 DEF
     RunInv

LEMMA EditKeeps == ASSUME RunInv, NEW t \in Threads, Edit(t) PROVE RunInv'
<1>1. /\ TypeOK /\ ProcessInv /\ RecordInv /\ ReviewInv /\ ManifestInv
      /\ VersionInv /\ GrantInv /\ AnswerInv /\ OneReservation /\ LossIsKnown
      /\ HintIsTrue /\ AnswersAreTrue /\ RetryIsExact
  BY DEF RunInv
<1>2. source' \in Sizes
  BY <1>1 DEF Edit, TypeOK, Sizes
<1>3. edits' \in 0..MaxEdits
  BY <1>1, BoundAssumption DEF Edit, TypeOK
<1>4. /\ ProcessInv' /\ RecordInv' /\ ReviewInv' /\ ManifestInv' /\ VersionInv' /\ GrantInv'
      /\ OneReservation' /\ LossIsKnown' /\ HintIsTrue' /\ RetryIsExact'
  BY <1>1 DEF Edit, journalVars, serviceVars, memory, ProcessInv, RecordInv, ReviewInv,
     ManifestInv, Passed, PriorOf, VersionInv, Version, GrantInv, Holds, Chunk, Current,
     OneReservation, LossIsKnown, NamesLoss, HintIsTrue, RetryIsExact
<1>5. TypeOK'
  BY <1>1, <1>2, <1>3, Sized, Recorded, Somewhere DEF Edit, journalVars, serviceVars,
     memory, TypeOK
<1>6. AnswerInv'
  BY DEF Edit, NoAnswer, AnswerInv
<1>7. AnswersAreTrue'
  BY DEF Edit, NoAnswer, AnswersAreTrue
<1> QED BY <1>4, <1>5, <1>6, <1>7 DEF RunInv

LEMMA PeerPublishKeeps == ASSUME RunInv, NEW p \in Peers, PeerPublish(p) PROVE RunInv'
<1>1. /\ TypeOK /\ ProcessInv /\ RecordInv /\ ReviewInv /\ ManifestInv
      /\ VersionInv /\ GrantInv /\ AnswerInv /\ OneReservation /\ LossIsKnown
      /\ HintIsTrue /\ AnswersAreTrue /\ RetryIsExact
  BY DEF RunInv
<1>2. /\ p \in Snapshots /\ p \notin Runs /\ p # None /\ catalog[p] = NoRows /\ head' = p
      /\ answer' = NoAnswer
      /\ UNCHANGED <<run, journalVars, hint, review, state, base, granted, pc, memory, world>>
  BY Somewhere DEF PeerPublish
<1>3. \E rows \in Manifests :
        /\ rows # NoRows /\ catalog' = [catalog EXCEPT ![p] = rows]
  <2> DEFINE rows == IF head = None THEN RowsOf(source, NoRows) ELSE catalog[head]
  <2>1. rows \in Manifests
    BY <1>1, Sized, RowsFacts DEF TypeOK, Manifests
  <2>2. \E t \in Threads : rows[t].size > 0
    BY DEF PeerPublish, Known, SizesOf
  <2>3. rows # NoRows
    BY <2>2 DEF NoRows
  <2>4. catalog' = [catalog EXCEPT ![p] = rows]
    BY DEF PeerPublish
  <2> QED BY <2>1, <2>3, <2>4
<1>4. /\ catalog' \in [Snapshots -> Manifests] /\ Version(p)'
      /\ \A s \in Snapshots : s # p => catalog'[s] = catalog[s]
  BY <1>1, <1>2, <1>3 DEF TypeOK, Version, Manifests
<1>5. /\ object' \in Ciphertexts
      /\ \A c \in Chunks : object[c] # 0 => object'[c] = object[c]
  BY <1>1 DEF PeerPublish, TypeOK, Ciphertexts
<1>6. \A s \in Snapshots : Version(s) => s # p /\ catalog'[s] = catalog[s] /\ Version(s)'
  BY <1>2, <1>4 DEF Version
<1>7. run # None /\ run.phase = "active" =>
        /\ PriorOf(run.base)' = PriorOf(run.base) /\ catalog'[run.id] = catalog[run.id]
  BY <1>2, <1>4, <1>6, BaseIsVersion, Somewhere DEF PriorOf
<1>8. Chunk(Current)' = Chunk(Current)
  BY <1>2 DEF Chunk, Current, memory
<1>9. ProcessInv' /\ RecordInv' /\ ReviewInv' /\ OneReservation'
  BY <1>1 DEF PeerPublish, journalVars, memory, world, ProcessInv, RecordInv, ReviewInv,
     OneReservation
<1>10. TypeOK'
  BY <1>1, <1>2, <1>4, <1>5, <1>6, <1>7, <1>8, Sized, Recorded, Somewhere DEF journalVars,
     memory, world, TypeOK
<1>11. ManifestInv'
  <2>1. run # None /\ run.phase = "active" => \A sizes : Passed(sizes)' = Passed(sizes)
    BY <1>2, <1>7 DEF Passed
  <2>2. pc \in {"seal"} \cup Sealed \cup Finished => run # None /\ run.phase = "active"
    BY <1>1 DEF ProcessInv, Fresh, Active, Journalled, Sealed, Finished
  <2> QED BY <1>1, <1>2, <1>7, <2>1, <2>2 DEF ManifestInv, journalVars, memory, world
<1>12. VersionInv'
  BY <1>1, <1>2, <1>4, <1>6 DEF VersionInv, TypeOK
<1>13. GrantInv'
  BY <1>1, <1>2, <1>5, <1>7, <1>8, Sized, Recorded, Somewhere DEF journalVars, memory,
     GrantInv, Holds, TypeOK
<1>14. AnswerInv'
  BY <1>2 DEF NoAnswer, AnswerInv
<1>15. LossIsKnown'
  <2> SUFFICES ASSUME NEW r \in Runs, state[r] = "published" PROVE NamesLoss(r)'
    BY <1>2 DEF LossIsKnown
  <2>1. base[r] # None => catalog'[base[r]] = catalog[base[r]]
    BY <1>1, <1>6 DEF VersionInv, TypeOK
  <2> QED BY <1>1, <1>2, <1>4, <2>1, LossStays, Somewhere DEF LossIsKnown
<1>16. HintIsTrue'
  BY <1>1, <1>2, <1>4, Somewhere DEF HintIsTrue, TypeOK
<1>17. AnswersAreTrue'
  BY <1>2 DEF NoAnswer, AnswersAreTrue
<1>18. RetryIsExact'
  BY <1>1, <1>2, <1>5 DEF journalVars, RetryIsExact, GrantInv, Holds, TypeOK
<1> QED BY <1>9, <1>10, <1>11, <1>12, <1>13, <1>14, <1>15, <1>16, <1>17, <1>18 DEF RunInv

-----------------------------------------------------------------------------
(* The invariant, and what it says of every behaviour. *)

\* The first state: nothing is reserved, recorded or published.
LEMMA RunInit == Init => RunInv
<1> SUFFICES ASSUME Init PROVE RunInv
  OBVIOUS
<1>1. TypeOK
  <2>1. source \in Sizes /\ edits \in 0..MaxEdits /\ nonce \in 1..2
    BY BoundAssumption DEF Init, Sizes
  <2>2. /\ state \in [Runs -> {"none", "active", "lapsed", "published", "cleanup_pending",
                               "released"}]
        /\ base \in [Runs -> Snapshots \cup {None}] /\ head \in Snapshots \cup {None}
        /\ catalog \in [Snapshots -> Manifests]
    BY Sized DEF Init
  <2> QED BY <2>1, <2>2, Sized DEF Init, TypeOK
<1>2. /\ ProcessInv /\ RecordInv /\ ReviewInv
  BY DEF Init, ProcessInv, RecordInv, ReviewInv, Active, Journalled, Staging, Sealed,
     Finished
<1>3. ManifestInv /\ VersionInv /\ GrantInv /\ AnswerInv
  BY DEF Init, ManifestInv, VersionInv, GrantInv, AnswerInv, NoAnswer, Journalled, Staging,
     Sealed
<1>4. OneReservation /\ LossIsKnown /\ HintIsTrue /\ AnswersAreTrue /\ RetryIsExact
  BY DEF Init, OneReservation, LossIsKnown, HintIsTrue, AnswersAreTrue, NoAnswer,
     RetryIsExact
<1> QED BY <1>1, <1>2, <1>3, <1>4 DEF RunInv

\* A stutter keeps everything.
LEMMA RunStutters == ASSUME RunInv, UNCHANGED vars PROVE RunInv'
<1>1. UNCHANGED <<source, run, dir, receipts, scratch, manifest, bound, candidate, hint,
                  review, state, base, head, catalog, object, granted, late, pc, reviewed,
                  noted, todo, staged, nonce, answer, edits>>
  BY DEF vars, journalVars, serviceVars, memory, world
<1>2. TypeOK' /\ ProcessInv' /\ RecordInv' /\ ReviewInv'
  BY <1>1 DEF RunInv, TypeOK, ProcessInv, RecordInv, ReviewInv
<1>3. ManifestInv' /\ VersionInv' /\ GrantInv' /\ AnswerInv'
  BY <1>1 DEF RunInv, ManifestInv, Passed, PriorOf, VersionInv, Version, GrantInv, Holds,
     Chunk, Current, AnswerInv
<1>4. OneReservation' /\ LossIsKnown' /\ HintIsTrue' /\ AnswersAreTrue' /\ RetryIsExact'
  BY <1>1 DEF RunInv, OneReservation, LossIsKnown, NamesLoss, PriorOf, HintIsTrue,
     AnswersAreTrue, RetryIsExact
<1> QED BY <1>2, <1>3, <1>4 DEF RunInv

\* Every step keeps RunInv, one lemma for each action.
LEMMA RunSteps == RunInv /\ [Next]_vars => RunInv'
<1> SUFFICES ASSUME RunInv, [Next]_vars PROVE RunInv'
  OBVIOUS
<1>1. CASE PrepareReview
  BY <1>1, PrepareReviewKeeps
<1>2. CASE BackUp
  BY <1>2, StartKeeps, ApproveKeeps, CheckKeeps, CompareKeeps, UnchangedKeeps, BeginKeeps,
     ReserveKeeps, ActivateKeeps, StatusKeeps, ReopenKeeps, ReserveAgainKeeps, ResumeKeeps,
     OpenKeeps, PriorKeeps, ReuseKeeps, EncryptKeeps, PutKeeps, RecordKeeps, DiscardKeeps,
     RecheckKeeps, SealKeeps, BindKeeps, IndexKeeps, FinalKeeps, PublishKeeps, ConfirmKeeps,
     ConsumeKeeps, PromoteKeeps, RetireKeeps, UnlinkKeeps DEF BackUp
<1>3. CASE AbandonPending
  BY <1>3, AbandonKeeps, ReceiptKeeps, GiveUpKeeps, QuarantineKeeps, MarkKeeps, ClearKeeps,
     UnmarkKeeps DEF AbandonPending
<1>4. CASE Stop
  BY <1>4, StopKeeps
<1>5. CASE World
  BY <1>5, ArriveKeeps, LapseKeeps, ClaimCleanupKeeps, ReleaseKeeps, EditKeeps,
     PeerPublishKeeps DEF World
<1>6. CASE UNCHANGED vars
  BY <1>6, RunStutters
<1> QED BY <1>1, <1>2, <1>3, <1>4, <1>5, <1>6 DEF Next

-----------------------------------------------------------------------------
\* The inductive invariant holds of every behaviour of HostedLiveBackupRun and
\* the service it calls, wherever its process ends.
THEOREM RunInvariance == Spec => []RunInv
<1>1. Init => RunInv
  BY RunInit
<1>2. RunInv /\ [Next]_vars => RunInv'
  BY RunSteps
<1> QED BY <1>1, <1>2, PTL DEF Spec

\* A reservation that holds quota is the one run.json names, so that the Mac
\* can resume or abandon it (_begin, _resume, abandon_pending).
THEOREM QuotaIsOnRecord == Spec => []OneReservation
<1>1. RunInv => OneReservation
  BY DEF RunInv
<1> QED BY <1>1, RunInvariance, PTL

\* A published version that has lost a conversation or a part of one says so, or
\* the approved review of that run does (_loss_guards, consume_review).
THEOREM LossIsNeverSilent == Spec => []LossIsKnown
<1>1. RunInv => LossIsKnown
  BY DEF RunInv
<1> QED BY <1>1, RunInvariance, PTL

\* The hint that lets a backup be skipped is of a published version and of the
\* files that version was made of (promote_source_facts).
THEOREM SkippedIsPublished == Spec => []HintIsTrue
<1>1. RunInv => HintIsTrue
  BY DEF RunInv
<1> QED BY <1>1, RunInvariance, PTL

\* What a backup or an abandonment answers is so (HostedLiveBackupRun).
THEOREM UserIsToldTheTruth == Spec => []AnswersAreTrue
<1>1. RunInv => AnswersAreTrue
  BY DEF RunInv
<1> QED BY <1>1, RunInvariance, PTL

\* The stored bytes of an unfinished run are known to the Mac, so a retry sends
\* the same (HostedChunkJournal, stage_encrypted_object).
THEOREM RetryNamesItsBytes == Spec => []RetryIsExact
<1>1. RunInv => RetryIsExact
  BY DEF RunInv
<1> QED BY <1>1, RunInvariance, PTL
=============================================================================
