----------------------------- MODULE HostedSetup -----------------------------
(***************************************************************************)
(* The hosted backup of a Mac that is paired (HostedPairing): its key      *)
(* (vault_hosted_key_setup.py), the first and later backups by hand        *)
(* (vault_hosted_manual.py), and the review of an unfinished upload        *)
(* (vault_hosted_pending.py) or of deletions, one step at a time           *)
(* (vault_hosted_setup_flow.py).                                           *)
(*                                                                         *)
(* What an upload does is HostedRun's: here it is the number of its        *)
(* reservation and how the service answers for it.  A review of deletions  *)
(* is the number it was given.  Subscriptions are left out.                *)
(***************************************************************************)
EXTENDS HostedPairing

CONSTANTS MaxKeys,     \* bound: key IDs drawn
          MaxUploads,  \* bound: reservations, made here or by the scheduled job
          MaxReviews   \* bound: deletion reviews

ASSUME SetupAssumption == /\ MaxKeys \in Nat
                          /\ MaxUploads \in Nat /\ MaxReviews \in Nat

VARIABLES drawn,      \* key IDs drawn so far
          keyfile,    \* hosted-key.json: the key ID in it
          keychain,   \* keys of the Keychain
          protected,  \* keys under which snapshots were published
          upload,     \* the last reservation, and the state of its upload
          review,     \* the last deletion review
          shown       \* the upload and the review the app displays

setupFlowVars == <<drawn, keyfile, keychain, protected, upload, review, shown>>

NoneShown == [upload |-> 0, review |-> 0]

SetupInit == /\ drawn = 0 /\ keyfile = 0 /\ keychain = {} /\ protected = {}
             /\ upload = [at |-> 0, state |-> "none"] /\ review = 0
             /\ shown = NoneShown

At(phases) == Free /\ wizard["setup"].phase \in phases
Does(pc)   == doing' = [flow |-> "setup", pc |-> pc]
Doing(pc)  == doing = [flow |-> "setup", pc |-> pc]
To(phase)  == wizard' = [wizard EXCEPT !["setup"].phase = phase]
Ready      == {"key_ready", "backup_ready"}
ReadyPhase == IF wizard["setup"].receipt THEN "backup_ready" ELSE "key_ready"

\* The key file agrees, and where it must the saved copy was confirmed.
Usable(confirmed) == keyfile = registry.key /\ (confirmed => registry.confirmed)

\* What a step of the key or of a backup leaves alone.
Elsewhere == UNCHANGED <<minted, account, claims>>

-----------------------------------------------------------------------------
(* The key. *)

PrepareKey == /\ At({"paired", "key_save"}) /\ Does("draw")
              /\ UNCHANGED <<registry, durable, wizard, setupFlowVars>> /\ Elsewhere

\* (mutant) A key ID on record is taken to be saved.
DrawUnsynced ==
    /\ Doing("draw")
    /\ IF registry.key = 0
       THEN /\ drawn < MaxKeys /\ drawn' = drawn + 1
            /\ registry' = [registry EXCEPT !.key = drawn', !.confirmed = FALSE]
            /\ Does("synckey")
       ELSE Does("file") /\ UNCHANGED <<drawn, registry>>
    /\ UNCHANGED <<durable, wizard, keyfile, keychain, protected, upload, review, shown>>
    /\ Elsewhere

\* The key ID is on record before the key is made; one on record is kept.
DrawKey == /\ Doing("draw")
           /\ IF registry.key = 0
              THEN /\ drawn < MaxKeys /\ drawn' = drawn + 1
                   /\ registry' = [registry EXCEPT !.key = drawn', !.confirmed = FALSE]
              ELSE UNCHANGED <<drawn, registry>>
           /\ Does("synckey")
           /\ UNCHANGED <<durable, wizard, keyfile, keychain, protected, upload, review, shown>>
           /\ Elsewhere

\* A sync that failed before is repeated.
SyncKey == /\ Doing("synckey")
           /\ durable' = registry
           /\ Does("file")
           /\ UNCHANGED <<registry, wizard, setupFlowVars>> /\ Elsewhere

\* hosted-key.json is written once and must agree ever after.
KeyFile == /\ Doing("file") /\ keyfile \in {0, registry.key}
           /\ keyfile' = registry.key
           /\ Does("make")
           /\ UNCHANGED <<registry, durable, wizard, drawn, keychain, protected, upload,
                          review, shown>> /\ Elsewhere

\* prepare-key makes the key or finds it; its answer may be lost.
MakeKey == /\ Doing("make")
           /\ keychain' = keychain \cup {registry.key}
           /\ To("key_save") \/ UNCHANGED wizard
           /\ doing' = Resting
           /\ UNCHANGED <<registry, durable, drawn, keyfile, protected, upload, review,
                          shown>> /\ Elsewhere

\* The saved copy agrees with the Keychain.
ConfirmKey == /\ At({"key_save"}) /\ Usable(FALSE) /\ registry.key \in keychain
              /\ registry' = [registry EXCEPT !.confirmed = TRUE]
              /\ Does("synccopy")
              /\ UNCHANGED <<durable, wizard, setupFlowVars>> /\ Elsewhere

SyncCopy == /\ Doing("synccopy")
            /\ durable' = registry
            /\ To("key_ready") /\ doing' = Resting
            /\ UNCHANGED <<registry, setupFlowVars>> /\ Elsewhere

-----------------------------------------------------------------------------
(* Backups by hand, each under the lock of the scheduled job. *)

FirstBackup == /\ At(Ready) /\ Usable(TRUE) /\ Does("backup")
               /\ UNCHANGED <<registry, durable, wizard, setupFlowVars>> /\ Elsewhere

\* With consent to the review displayed, which must be the last one made.
ConfirmDeletions == /\ At({"deletion_review"}) /\ Usable(TRUE)
                    /\ shown.review = review /\ Does("backup")
                    /\ UNCHANGED <<registry, durable, wizard, setupFlowVars>> /\ Elsewhere

\* Published and read back: only then is there a receipt to save.
BackedUp == /\ Doing("backup")
            /\ protected' = protected \cup {registry.key}
            /\ upload' = [upload EXCEPT !.state = "none"]
            /\ registry' = [registry EXCEPT !.backup = registry.key]
            /\ Does("record")
            /\ UNCHANGED <<durable, wizard, drawn, keyfile, keychain, review, shown>>
            /\ Elsewhere

Record == /\ Doing("record")
          /\ durable' = registry
          /\ wizard' = [wizard EXCEPT !["setup"].phase = "backup_ready",
                                      !["setup"].receipt = TRUE]
          /\ shown' = NoneShown /\ doing' = Resting
          /\ UNCHANGED <<registry, drawn, keyfile, keychain, protected, upload, review>>
          /\ Elsewhere

\* It breaks off with its upload left behind, or published and unconfirmed.
Reserved(state) == IF upload.state = "none"
                   THEN upload' = [at |-> upload.at + 1, state |-> state]
                   ELSE upload' = [upload EXCEPT !.state = state]

BreaksOff == /\ Doing("backup") /\ upload.at < MaxUploads
             /\ \/ Reserved("active") /\ UNCHANGED protected
                \/ Reserved("published") /\ protected' = protected \cup {registry.key}
             /\ doing' = Resting
             /\ UNCHANGED <<registry, durable, wizard, drawn, keyfile, keychain, review,
                            shown>> /\ Elsewhere

\* The scheduled job finishes an upload, or leaves one of its own.
ScheduledRun == /\ registry.backup # 0 /\ ~Doing("backup")
                /\ \/ /\ upload.state # "none" /\ upload' = [upload EXCEPT !.state = "none"]
                   \/ /\ upload.state = "none" /\ upload.at < MaxUploads
                      /\ upload' = [at |-> upload.at + 1, state |-> "active"]
                /\ UNCHANGED <<pairingVars, drawn, keyfile, keychain, protected, review, shown>>

-----------------------------------------------------------------------------
(* Reviews. *)

Shows(phase, what) == /\ To(phase) /\ shown' = what
                      /\ UNCHANGED <<registry, durable, doing, drawn, keyfile, keychain,
                                     protected>> /\ Elsewhere

CheckUpload == /\ At(Ready \cup {"pending_upload"}) /\ Usable(TRUE)
               /\ IF upload.state = "none"
                  THEN Shows(ReadyPhase, [shown EXCEPT !.upload = 0])
                  ELSE Shows("pending_upload", [shown EXCEPT !.upload = upload.at])
               /\ UNCHANGED <<upload, review>>

\* abandon: the reservation must still be the one displayed, and unpublished.
AbandonUpload ==
    /\ At({"pending_upload"}) /\ Usable(TRUE)
    /\ upload.at = shown.upload /\ upload.state \in {"active", "cleanup"}
    /\ \/ /\ upload' = [upload EXCEPT !.state = "none"]
          /\ Shows(ReadyPhase, NoneShown)
       \/ /\ upload' = [upload EXCEPT !.state = "cleanup"]
          /\ Shows("pending_upload", shown)
    /\ UNCHANGED review

PrepareDeletions ==
    /\ At(Ready \cup {"deletion_review"}) /\ Usable(TRUE) /\ review < MaxReviews
    /\ review' = review + 1
    /\ Shows("deletion_review", [shown EXCEPT !.review = review']) /\ UNCHANGED upload

Leave == /\ At({"pending_upload", "deletion_review"})
         /\ Shows(ReadyPhase, shown) /\ UNCHANGED <<upload, review>>

SetupFlowNext ==
    \/ PrepareKey \/ DrawKey \/ SyncKey \/ KeyFile \/ MakeKey \/ ConfirmKey \/ SyncCopy
    \/ FirstBackup \/ ConfirmDeletions \/ BackedUp \/ Record \/ BreaksOff \/ ScheduledRun
    \/ CheckUpload \/ AbandonUpload \/ PrepareDeletions \/ Leave

SetupSpec == /\ PairingInit /\ SetupInit
             /\ [][\/ SetupFlowNext
                   \/ PairingNext /\ UNCHANGED setupFlowVars]_<<pairingVars, setupFlowVars>>

-----------------------------------------------------------------------------
(* Every key this Mac made, and every key a published snapshot needs, is    *)
(* the one saved for good, and what is saved for good agrees with itself:   *)
(* no start of the app refuses its own records.                             *)
KeysAreSaved ==
    /\ keychain \cup protected \cup ({keyfile} \ {0}) \subseteq {durable.key}
    /\ \A r \in {registry, durable} :
          /\ r.key # 0 => r.bound
          /\ r.backup # 0 => r.confirmed /\ r.backup = r.key

\* What a loss of an answer, a start or the power leaves behind is never more
\* than what this Mac has saved: bindings at the service, and keys.
NothingOrphaned == BindingsAreSaved /\ KeysAreSaved
-----------------------------------------------------------------------------
(* The inductive invariant. *)

SetupTypeOK ==
    /\ drawn \in Nat /\ keyfile \in Nat /\ keychain \subseteq Nat /\ protected \subseteq Nat
    /\ upload \in [at : Nat, state : {"none", "active", "cleanup", "published"}]
    /\ review \in Nat /\ shown \in [upload : Nat, review : Nat]

\* What is on record, or saved for good, agrees with itself.
RecordInv ==
    /\ \A r \in {registry, durable} :
         /\ r.key # 0 => r.bound
         /\ r.confirmed => r.key # 0
         /\ r.backup # 0 => r.confirmed /\ r.backup = r.key
    /\ durable.key \in {0, registry.key}
    /\ registry.bound => wizard["setup"].bound

\* How far the setup has come.
ConnectionInv ==
    /\ wizard["setup"].phase \in PairedPhases => registry.bound
    /\ doing.pc \in {"settle", "draw"} => registry.bound
    /\ doing.pc \in {"synckey", "file", "make", "synccopy", "backup", "record"}
         => registry.key # 0
    /\ doing.pc \in {"file", "make", "backup"} => durable.key = registry.key
    /\ doing.pc = "backup" => registry.confirmed

\* Keys made or used are the one that is saved for good.
KeyInv == /\ 0 \notin keychain /\ 0 \notin protected
          /\ keychain \cup protected \cup ({keyfile} \ {0}) \subseteq {durable.key}

SetupInv == SetupTypeOK /\ RecordInv /\ ConnectionInv /\ KeyInv
=============================================================================
