---------------------------- MODULE HostedService ----------------------------
(***************************************************************************)
(* The hosted vault service: reservations, object grants, the provider's   *)
(* objects, publication of a snapshot, and the cleanup of an abandoned     *)
(* upload (src/hosted, its SQL functions and its object worker), for one   *)
(* vault and for clients that do what HostedUploadClient does.             *)
(*                                                                         *)
(* Every SQL function takes the account lock, so each is one action.       *)
(* Between them the provider and the bearer capabilities have a life of    *)
(* their own: a capability may be used late, twice or never.               *)
(*                                                                         *)
(* A reservation writes one snapshot, so a reservation names its snapshot. *)
(* The bytes under a key depend on who encrypted the chunk: object         *)
(* <<k, e>> is key k with the bytes of encryption e. A live backup         *)
(* encrypts anew for every reservation, a backup of a local vault uploads  *)
(* the bytes that vault has, under any reservation.                        *)
(***************************************************************************)
EXTENDS Naturals, FiniteSets

CONSTANTS
  Reservations,   \* reservation ids; the id of the snapshot it writes too
  Keys,           \* object keys: a key is derived from the plaintext
  Encryptions,    \* distinct ciphertexts of the same plaintext
  Nobody,         \* no reservation, no snapshot, no object
  Allowance       \* objects the account may hold and reserve

ASSUME NobodyAssumption == Nobody \notin Reservations \cup Encryptions
ASSUME AllowanceAssumption == Allowance \in Nat

VARIABLES
  state,     \* hosted.upload_reservations.state
  base,      \* its base_snapshot_id
  lease,     \* how far its expires_at is from now
  granted,   \* hosted.upload_object_grants: keys granted to a reservation
  declared,  \* the inventory its client announced with the first page
  staged,    \* hosted.staged_receipt_objects
  proof,     \* hosted.verified_receipt_objects of the last 24 hours
  kept,      \* hosted.objects: whose bytes a published key has
  head,      \* hosted.vaults.last_good_snapshot_id
  claim,     \* hosted.cleanup_object_claims
  retained,  \* hosted.accounts.retained_bytes
  reserved,  \* hosted.accounts.reserved_bytes
  source,    \* the encryption each reservation uploads from
  object,    \* the provider: whose bytes are stored under a key
  puts,      \* PUT capabilities that are still valid
  deletes,   \* DELETE capabilities that are still valid
  absent     \* 204 answers to a DELETE that the worker still holds

ledger == <<state, base, lease, granted, declared, staged, proof, kept, head,
            claim, retained, reserved, source>>
provider == <<object, puts, deletes, absent>>
serviceVars == <<ledger, provider>>

Objects == Keys \X Encryptions
Capabilities == Keys \X Reservations
States == {"none", "active", "published", "cleanup_pending", "released"}
\* More than a minute left, less than that, expired, and expired for at least
\* two minutes.
Leases == {"open", "closing", "over", "quiet"}

NoClaim == [by |-> Nobody, gone |-> "no"]

TypeOK ==
  /\ state \in [Reservations -> States]
  /\ base \in [Reservations -> Reservations \cup {Nobody}]
  /\ lease \in [Reservations -> Leases]
  /\ granted \in [Reservations -> SUBSET Keys]
  /\ declared \in [Reservations -> SUBSET Objects]
  /\ staged \in [Reservations -> SUBSET Objects]
  /\ proof \in [Reservations -> SUBSET Objects]
  /\ kept \in [Keys -> Encryptions \cup {Nobody}]
  /\ head \in Reservations \cup {Nobody}
  /\ claim \in [Keys -> [by : Reservations \cup {Nobody}, gone : {"no", "yes", "long"}]]
  /\ retained \in Nat
  /\ reserved \in Nat
  /\ source \in [Reservations -> Encryptions]
  /\ object \in [Keys -> Encryptions \cup {Nobody}]
  /\ puts \subseteq Capabilities
  /\ deletes \subseteq Capabilities
  /\ absent \subseteq Capabilities

Init ==
  /\ state = [r \in Reservations |-> "none"]
  /\ base = [r \in Reservations |-> Nobody]
  /\ lease = [r \in Reservations |-> "open"]
  /\ granted = [r \in Reservations |-> {}]
  /\ declared = [r \in Reservations |-> {}]
  /\ staged = [r \in Reservations |-> {}]
  /\ proof = [r \in Reservations |-> {}]
  /\ kept = [k \in Keys |-> Nobody]
  /\ head = Nobody
  /\ claim = [k \in Keys |-> NoClaim]
  /\ retained = 0
  /\ reserved = 0
  /\ source \in [Reservations -> Encryptions]
  /\ object = [k \in Keys |-> Nobody]
  /\ puts = {}
  /\ deletes = {}
  /\ absent = {}
-----------------------------------------------------------------------------
\* What a reservation holds of the allowance: a small first amount, which
\* grows with every distinct object it is granted.
Held(r) == IF granted[r] = {} THEN 1 ELSE Cardinality(granted[r])

\* reserve_upload_idempotent_current: the first call with this id. A later
\* call with the same id reads what the first one wrote.
Reserve(r) ==
  /\ state[r] = "none"
  /\ retained + reserved + 1 <= Allowance
  /\ state' = [state EXCEPT ![r] = "active"]
  /\ base' = [base EXCEPT ![r] = head]
  /\ reserved' = reserved + 1
  /\ UNCHANGED <<lease, granted, declared, staged, proof, kept, head, claim,
                 retained, source, provider>>

Usable(r) == state[r] = "active" /\ lease[r] \in {"open", "closing"}

Renew(r) ==
  /\ Usable(r)
  /\ lease' = [lease EXCEPT ![r] = "open"]
  /\ UNCHANGED <<state, base, granted, declared, staged, proof, kept, head, claim,
                 retained, reserved, source, provider>>

\* A capability lives for at most 30 seconds, so none is left of a lease that
\* has been over for two minutes.
TimePasses(r) ==
  /\ state[r] # "none"
  /\ \/ lease[r] = "open" /\ lease' = [lease EXCEPT ![r] = "closing"]
     \/ lease[r] = "closing" /\ lease' = [lease EXCEPT ![r] = "over"]
     \/ /\ lease[r] = "over"
        /\ \A k \in Keys : <<k, r>> \notin puts
        /\ lease' = [lease EXCEPT ![r] = "quiet"]
  /\ UNCHANGED <<state, base, granted, declared, staged, proof, kept, head, claim,
                 retained, reserved, source, provider>>

\* reserve_object_grant_elastic_current and the PUT capability signed after it.
GrantPut(r, k) ==
  /\ state[r] = "active" /\ lease[r] = "open"
  /\ claim[k].by = Nobody
  /\ IF k \in granted[r]
     THEN UNCHANGED <<granted, reserved>>
     ELSE /\ granted' = [granted EXCEPT ![r] = @ \cup {k}]
          /\ reserved' = IF granted[r] = {} THEN reserved ELSE reserved + 1
          /\ retained + reserved' <= Allowance
  /\ puts' = puts \cup {<<k, r>>}
  /\ UNCHANGED <<state, base, lease, declared, staged, proof, kept, head, claim,
                 retained, source, object, deletes, absent>>

\* The object worker stores under a free key only.
Put(k, r) ==
  /\ <<k, r>> \in puts
  /\ object[k] = Nobody
  /\ object' = [object EXCEPT ![k] = source[r]]
  /\ UNCHANGED <<ledger, puts, deletes, absent>>

PutExpires(k, r) ==
  /\ <<k, r>> \in puts
  /\ puts' = puts \ {<<k, r>>}
  /\ UNCHANGED <<ledger, object, deletes, absent>>

\* can_probe_upload_object_current and the worker's HEAD: the client sees the
\* exact bytes of a published object or of one granted to its reservation.
Confirmed(r, o) ==
  /\ object[o[1]] = o[2]
  /\ kept[o[1]] = o[2] \/ (o[2] = source[r] /\ o[1] \in granted[r])

\* append_receipt_page_declared_current: the client announces its whole
\* inventory, every object of which it has confirmed, with the first page.
Declare(r, objects) ==
  /\ Usable(r)
  /\ declared[r] = {}
  /\ objects # {}
  /\ \A o \in objects : Confirmed(r, o)
  /\ \A o, p \in objects : o[1] = p[1] => o = p
  /\ declared' = [declared EXCEPT ![r] = objects]
  /\ UNCHANGED <<state, base, lease, granted, staged, proof, kept, head, claim,
                 retained, reserved, source, provider>>

Page(r, o) ==
  /\ Usable(r)
  /\ o \in declared[r] \ staged[r]
  /\ staged' = [staged EXCEPT ![r] = @ \cup {o}]
  /\ UNCHANGED <<state, base, lease, granted, declared, proof, kept, head, claim,
                 retained, reserved, source, provider>>

Whole(r) == staged[r] # {} /\ staged[r] = declared[r]

\* verifyNextPage: the provider is asked for the exact bytes.
Verify(r, o) ==
  /\ Usable(r) /\ Whole(r)
  /\ o \in staged[r] \ proof[r]
  /\ object[o[1]] = o[2]
  /\ proof' = [proof EXCEPT ![r] = @ \cup {o}]
  /\ UNCHANGED <<state, base, lease, granted, declared, staged, kept, head, claim,
                 retained, reserved, source, provider>>

\* reuse_recent_published_chunk_proofs_current.
ReuseProof(r, o) ==
  /\ Usable(r) /\ Whole(r)
  /\ head # Nobody
  /\ o \in (staged[r] \cap staged[head] \cap proof[head]) \ proof[r]
  /\ proof' = [proof EXCEPT ![r] = @ \cup {o}]
  /\ UNCHANGED <<state, base, lease, granted, declared, staged, kept, head, claim,
                 retained, reserved, source, provider>>

\* A proof is older than 24 hours.
ProofAges(r, o) ==
  /\ o \in proof[r]
  /\ proof' = [proof EXCEPT ![r] = @ \ {o}]
  /\ UNCHANGED <<state, base, lease, granted, declared, staged, kept, head, claim,
                 retained, reserved, source, provider>>

\* Mutant: what earlier versions hold is charged again.
AddedAgain(r) == staged[r]

\* The objects a publication adds to those already kept.
Added(r) == {o \in staged[r] : kept[o[1]] = Nobody}

\* Mutant: the base is not compared with the head.
PublishAnyBase(r) ==
  /\ Usable(r) /\ Whole(r)
  /\ staged[r] \subseteq proof[r]
  /\ \A o \in staged[r] : kept[o[1]] \in {o[2], Nobody}
  /\ \A o \in Added(r) : claim[o[1]].by = Nobody
  /\ Cardinality(Added(r)) <= Held(r)

PublishGuard(r) ==
  /\ Usable(r) /\ Whole(r)
  /\ staged[r] \subseteq proof[r]
  /\ base[r] = head
  /\ \A o \in staged[r] : kept[o[1]] \in {o[2], Nobody}
  /\ \A o \in Added(r) : claim[o[1]].by = Nobody
  /\ Cardinality(Added(r)) <= Held(r)

\* publish_checkpointed_staged_current with the triggers it fires.
Publish(r) ==
  /\ PublishGuard(r)
  /\ state' = [state EXCEPT ![r] = "published"]
  /\ kept' = [k \in Keys |-> IF \E o \in Added(r) : o[1] = k
                       THEN (CHOOSE o \in Added(r) : o[1] = k)[2] ELSE kept[k]]
  /\ head' = r
  /\ retained' = retained + Cardinality(Added(r))
  /\ reserved' = reserved - Held(r)
  /\ UNCHANGED <<base, lease, granted, declared, staged, proof, claim, source, provider>>
-----------------------------------------------------------------------------
\* abandon_upload_reservation, by the client.
Abandon(r) ==
  /\ state[r] = "active"
  /\ state' = [state EXCEPT ![r] = "cleanup_pending"]
  /\ lease' = [lease EXCEPT ![r] = IF @ = "quiet" THEN @ ELSE "over"]
  /\ UNCHANGED <<base, granted, declared, staged, proof, kept, head, claim,
                 retained, reserved, source, provider>>

\* claim_expired_upload_cleanup, by the operator.
ClaimCleanup(r) ==
  /\ state[r] = "active" /\ lease[r] = "quiet"
  /\ state' = [state EXCEPT ![r] = "cleanup_pending"]
  /\ UNCHANGED <<base, lease, granted, declared, staged, proof, kept, head, claim,
                 retained, reserved, source, provider>>

Cleanable(r) == state[r] = "cleanup_pending" /\ lease[r] = "quiet"

\* Another reservation may still hold a capability for the key.
InFlight(k, r) == \E q \in Reservations \ {r} : k \in granted[q] /\ lease[q] # "quiet"

Orphan(k, r) ==
  /\ k \in granted[r]
  /\ kept[k] = Nobody
  /\ ~InFlight(k, r)

\* issue_cleanup_delete_grant: the claim and the capability signed with the
\* time of the claim.
IssueDelete(r, k) ==
  /\ Cleanable(r) /\ Orphan(k, r)
  /\ claim[k].by = Nobody \/ claim[k] = [by |-> r, gone |-> "no"]
  /\ claim' = [claim EXCEPT ![k] = [by |-> r, gone |-> "no"]]
  /\ deletes' = deletes \cup {<<k, r>>}
  /\ UNCHANGED <<state, base, lease, granted, declared, staged, proof, kept, head,
                 retained, reserved, source, object, puts, absent>>

\* deleteExactOrAbsent: other bytes under the key are a conflict.
Delete(k, r) ==
  /\ <<k, r>> \in deletes
  /\ object[k] \in {source[r], Nobody}
  /\ object' = [object EXCEPT ![k] = Nobody]
  /\ absent' = absent \cup {<<k, r>>}
  /\ UNCHANGED <<ledger, puts, deletes>>

DeleteExpires(k, r) ==
  /\ <<k, r>> \in deletes
  /\ deletes' = deletes \ {<<k, r>>}
  /\ UNCHANGED <<ledger, object, puts, absent>>

\* record_cleanup_object_absent, with the answer the worker got.
RecordAbsent(k, r) ==
  /\ <<k, r>> \in absent
  /\ absent' = absent \ {<<k, r>>}
  /\ IF /\ Cleanable(r)
        /\ claim[k].by = r
        /\ kept[k] = Nobody
        /\ ~InFlight(k, r)
        /\ claim[k].gone = "no"
     THEN claim' = [claim EXCEPT ![k].gone = "yes"]
     ELSE UNCHANGED claim
  /\ UNCHANGED <<state, base, lease, granted, declared, staged, proof, kept, head,
                 retained, reserved, source, object, puts, deletes>>

\* Mutant: a fixed wait that a DELETE capability may outlive.
SettleEarly(k) ==
  /\ claim[k].gone = "yes"
  /\ claim' = [claim EXCEPT ![k].gone = "long"]
  /\ UNCHANGED <<state, base, lease, granted, declared, staged, proof, kept, head,
                 retained, reserved, source, provider>>

\* Two minutes after the record: longer than any DELETE capability lives.
AbsenceSettles(k) ==
  /\ claim[k].gone = "yes"
  /\ <<k, claim[k].by>> \notin deletes
  /\ claim' = [claim EXCEPT ![k].gone = "long"]
  /\ UNCHANGED <<state, base, lease, granted, declared, staged, proof, kept, head,
                 retained, reserved, source, provider>>

\* Mutant: only what the cleanup has claimed has to be gone.
ReleaseUnclaimed(r) ==
  /\ Cleanable(r)
  /\ \A k \in Keys : claim[k].by = r => claim[k].gone = "long"
  /\ state' = [state EXCEPT ![r] = "released"]
  /\ claim' = [k \in Keys |-> IF claim[k].by = r THEN NoClaim ELSE claim[k]]
  /\ reserved' = reserved - Held(r)
  /\ UNCHANGED <<base, lease, granted, declared, staged, proof, kept, head,
                 retained, source, provider>>

\* release_cleaned_upload_reservation.
Release(r) ==
  /\ Cleanable(r)
  /\ \A k \in granted[r] : kept[k] = Nobody => claim[k] = [by |-> r, gone |-> "long"]
  /\ \A k \in Keys : claim[k].by = r => claim[k].gone # "no"
  /\ state' = [state EXCEPT ![r] = "released"]
  /\ claim' = [k \in Keys |-> IF claim[k].by = r THEN NoClaim ELSE claim[k]]
  /\ reserved' = reserved - Held(r)
  /\ UNCHANGED <<base, lease, granted, declared, staged, proof, kept, head,
                 retained, source, provider>>
-----------------------------------------------------------------------------
Uploads(r) ==
  \/ Reserve(r) \/ Renew(r)
  \/ \E k \in Keys : GrantPut(r, k)
  \/ \E objects \in SUBSET Objects : Declare(r, objects)
  \/ \E o \in Objects : Page(r, o) \/ Verify(r, o) \/ ReuseProof(r, o)
  \/ Publish(r) \/ Abandon(r)

Cleanup(r) ==
  \/ ClaimCleanup(r) \/ Release(r)
  \/ \E k \in Keys : IssueDelete(r, k) \/ RecordAbsent(k, r)

Provider(k, r) == Put(k, r) \/ Delete(k, r)

Time ==
  \/ \E r \in Reservations : TimePasses(r) \/ \E o \in Objects : ProofAges(r, o)
  \/ \E k \in Keys, r \in Reservations : PutExpires(k, r) \/ DeleteExpires(k, r)
  \/ \E k \in Keys : AbsenceSettles(k)

Next ==
  \/ \E r \in Reservations : Uploads(r) \/ Cleanup(r)
  \/ \E k \in Keys, r \in Reservations : Provider(k, r)
  \/ Time

Spec == Init /\ [][Next]_serviceVars
-----------------------------------------------------------------------------
\* Every object its client announced for a published snapshot is with the
\* provider, byte for byte, whatever was cleaned up, replayed or delayed since.
PublishedIsStored ==
  \A r \in Reservations : state[r] = "published" =>
    \A o \in declared[r] : object[o[1]] = o[2] /\ kept[o[1]] = o[2]

\* The account's two totals are what its reservations and its published
\* objects add up to: nothing is released twice, nothing is kept for free.
Open == {r \in Reservations : state[r] \in {"active", "cleanup_pending"}}
KeptKeys == {k \in Keys : kept[k] # Nobody}
Ungranted == {r \in Open : granted[r] = {}}
Slots == {c \in Capabilities : c[2] \in Open /\ c[1] \in granted[c[2]]}
LedgerBalances ==
  /\ retained = Cardinality(KeptKeys)
  /\ reserved = Cardinality(Ungranted) + Cardinality(Slots)
  /\ retained + reserved <= Allowance

\* Every object at the provider is paid for: it is published, or a reservation
\* that holds capacity, and that cleanup can name, was granted it. The exception
\* is named: what a reservation that has published uploaded and left out of its
\* snapshot (the source changed) is charged to nobody and stays.
LeftOut(r, k) == state[r] = "published" /\ <<k, source[r]>> \notin declared[r]

StoredIsCharged ==
  \A k \in Keys : object[k] # Nobody =>
    \/ kept[k] = object[k]
    \/ \E r \in Reservations :
         /\ k \in granted[r] /\ source[r] = object[k]
         /\ r \in Open \/ LeftOut(r, k)

\* The abstract history, seen in the state of the service.
History == INSTANCE ProtectedHistory WITH
  Versions <- Reservations,
  NoVersion <- Nobody,
  last <- head,
  parent <- [r \in Reservations |-> IF state[r] = "published" THEN base[r] ELSE Nobody],
  contents <- [r \in Reservations |-> IF state[r] = "published" THEN staged[r] ELSE {}],
  readable <- {o \in Objects : object[o[1]] = o[2]}

\* Versions form one line: each is appended to the version that was last when
\* it was reserved and all its objects are readable then and ever after. Two
\* uploads from the same base cannot both be published.
HistoryIsProtected == History!Spec
=============================================================================
