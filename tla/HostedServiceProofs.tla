------------------------ MODULE HostedServiceProofs ------------------------
(***************************************************************************)
(* Published snapshots stay stored, every stored object is charged, the    *)
(* account's ledger balances and the history is one line of readable       *)
(* versions, for any reservations, keys, ciphertexts and allowance.        *)
(*                                                                         *)
(* HostedInv is inductive.  The heart of it is ClaimInv: a key that        *)
(* cleanup has claimed is unpublished, was granted to the reservation      *)
(* being cleaned, and the lease of every other holder has been quiet, so   *)
(* no PUT capability for it is left.  Hence a DELETE, however late, never  *)
(* meets an object that a usable reservation has declared or a published   *)
(* snapshot has kept, and an object recorded as gone stays gone until its  *)
(* reservation is released.                                                *)
(*                                                                         *)
(* Nothing is assumed finite: that only finitely many reservations, grants *)
(* and published keys exist at any time is part of the invariant.          *)
(***************************************************************************)
EXTENDS HostedService, FiniteSetTheorems, TLAPS

\* A reservation that was never made was granted and announced nothing.
FreshInv ==
  \A r \in Reservations : state[r] = "none" =>
    granted[r] = {} /\ declared[r] = {} /\ staged[r] = {}

\* A PUT capability belongs to a lease that is not quiet, a DELETE capability
\* to a claim that has not settled; an answer the worker still holds is true
\* for as long as it can be recorded.
CapabilityInv ==
  /\ \A k \in Keys, r \in Reservations : <<k, r>> \in puts =>
       /\ k \in granted[r] /\ lease[r] # "quiet"
       /\ state[r] \in {"active", "cleanup_pending", "published"}
  /\ \A k \in Keys, r \in Reservations : <<k, r>> \in deletes =>
       claim[k].by = r /\ claim[k].gone # "long"
  /\ \A k \in Keys, r \in Reservations : <<k, r>> \in absent =>
       state[r] = "released" \/ (claim[k].by = r /\ object[k] = Nobody)

\* A claimed key is unpublished and in nobody's hands but its cleanup's.
ClaimInv ==
  \A k \in Keys :
    /\ claim[k].by # Nobody =>
         /\ kept[k] = Nobody
         /\ k \in granted[claim[k].by]
         /\ Cleanable(claim[k].by)
         /\ \A r \in Reservations \ {claim[k].by} : k \in granted[r] => lease[r] = "quiet"
    /\ claim[k].by = Nobody => claim[k].gone = "no"
    /\ claim[k].gone # "no" => object[k] = Nobody

\* What a client announced has one object per key, and while its reservation
\* can still be published all of it is stored, and kept or its own.
InventoryInv ==
  \A r \in Reservations :
    /\ staged[r] \subseteq declared[r]
    /\ \A o, p \in declared[r] : o[1] = p[1] => o = p
    /\ Usable(r) => \A o \in declared[r] : Confirmed(r, o)

\* A published snapshot keeps its whole inventory.
PublishedInv ==
  \A r \in Reservations : state[r] = "published" =>
    /\ Whole(r)
    /\ \A o \in declared[r] : kept[o[1]] = o[2]

\* The bytes of a published key are with the provider.
KeptInv == \A k \in Keys : kept[k] # Nobody => object[k] = kept[k]

\* Only finitely many reservations were made, keys kept and keys granted.
Begun == {r \in Reservations : state[r] # "none"}

FiniteInv ==
  /\ IsFiniteSet(Begun) /\ IsFiniteSet(KeptKeys) /\ IsFiniteSet(Slots)
  /\ \A r \in Reservations : IsFiniteSet(granted[r]) /\ IsFiniteSet(staged[r])

HostedInv ==
  /\ TypeOK /\ FreshInv /\ CapabilityInv /\ ClaimInv /\ InventoryInv
  /\ PublishedInv /\ KeptInv /\ StoredIsCharged /\ FiniteInv /\ LedgerBalances
-----------------------------------------------------------------------------
(* What the account's totals count.                                        *)

\* An injective image has as many elements.
LEMMA ImageCount ==
  ASSUME NEW S, IsFiniteSet(S), NEW T, NEW f \in [S -> T],
         \A x, y \in S : f[x] = f[y] => x = y,
         \A t \in T : \E x \in S : f[x] = t
  PROVE  IsFiniteSet(T) /\ Cardinality(T) = Cardinality(S)
<1>1. f \in Bijection(S, T)
  BY DEF Bijection, Injection, Surjection, IsInjective
<1> QED BY <1>1, FS_Bijection DEF ExistsBijection

\* A reservation that holds nothing more than its first amount is one that was
\* made, so only finitely many do.
LEMMA UngrantedIsFinite == FiniteInv => IsFiniteSet(Ungranted)
<1>1. Ungranted \subseteq Begun
  BY DEF Ungranted, Begun, Open
<1> QED BY <1>1, FS_Subset DEF FiniteInv

\* Steps that neither open nor close a reservation, grant or publish leave the
\* counts alone.
LEMMA LedgerStays ==
  ASSUME HostedInv, Begun' = Begun, Open' = Open,
         UNCHANGED <<granted, kept, retained, reserved>>,
         \A r \in Reservations : IsFiniteSet(staged'[r])
  PROVE  FiniteInv' /\ LedgerBalances'
BY DEF HostedInv, FiniteInv, LedgerBalances, KeptKeys, Slots, Ungranted

\* Closing a reservation, by publication or release, gives back exactly what it
\* held.
LEMMA ClosingBalances ==
  ASSUME HostedInv, NEW r \in Open, Open' = Open \ {r}, UNCHANGED granted,
         reserved' = reserved - Held(r)
  PROVE  /\ IsFiniteSet(Slots')
         /\ reserved' \in Nat
         /\ reserved' = Cardinality(Ungranted') + Cardinality(Slots')
<1> DEFINE Own == {c \in Slots : c[2] = r}
           slot == [k \in granted[r] |-> <<k, r>>]
<1>1. Cardinality(Own) = Cardinality(granted[r]) /\ IsFiniteSet(Own)
  <2>1. slot \in [granted[r] -> Own] /\ \A c \in Own : \E k \in granted[r] : slot[k] = c
    BY DEF Slots, Capabilities, Open, HostedInv, TypeOK
  <2>2. \A j, k \in granted[r] : slot[j] = slot[k] => j = k
    OBVIOUS
  <2>3. IsFiniteSet(granted[r])
    BY DEF HostedInv, FiniteInv, Open
  <2> HIDE DEF Own, slot
  <2> QED BY <2>1, <2>2, <2>3, ImageCount
<1>2. Slots' = Slots \ Own
  BY DEF Slots
<1>3. IsFiniteSet(Slots') /\ Cardinality(Slots) = Cardinality(Slots') + Cardinality(granted[r])
      /\ Cardinality(Slots') \in Nat
  <2>1. Slots' \cup Own = Slots /\ Slots' \cap Own = {} /\ Slots' \subseteq Slots
    BY <1>2
  <2>2. IsFiniteSet(Slots')
    BY <2>1, FS_Subset DEF HostedInv, FiniteInv
  <2> HIDE DEF Own
  <2>3. Cardinality(Slots' \cup Own) = Cardinality(Slots') + Cardinality(Own) - Cardinality(Slots' \cap Own)
    BY <1>1, <2>2, FS_Union
  <2>4. Cardinality(Slots') \in Nat /\ Cardinality(Own) \in Nat /\ Cardinality({}) = 0
    BY <1>1, <2>2, FS_EmptySet, FS_CardinalityType
  <2>5. Cardinality(Slots' \cup Own) = Cardinality(Slots) /\ Cardinality(Slots' \cap Own) = 0
    BY <2>1, <2>4, Zenon
  <2> QED BY <1>1, <2>2, <2>3, <2>4, <2>5
<1>4. Ungranted' = Ungranted \ {r} /\ (r \in Ungranted <=> granted[r] = {})
  BY DEF Ungranted
<1>5. IsFiniteSet(Ungranted') /\ Cardinality(Ungranted') \in Nat
      /\ Cardinality(Ungranted) = Cardinality(Ungranted') + (IF granted[r] = {} THEN 1 ELSE 0)
  <2>1. IsFiniteSet(Ungranted) /\ Cardinality(Ungranted) \in Nat
    BY UngrantedIsFinite, FS_CardinalityType DEF HostedInv
  <2>2. IsFiniteSet(Ungranted \ {r})
        /\ Cardinality(Ungranted \ {r}) = IF r \in Ungranted THEN Cardinality(Ungranted) - 1
                                         ELSE Cardinality(Ungranted)
    BY <2>1, FS_RemoveElement
  <2>3. Cardinality(Ungranted \ {r}) \in Nat
    BY <2>2, FS_CardinalityType
  <2> QED BY <1>4, <2>1, <2>2, <2>3
<1>6. reserved = Cardinality(Ungranted) + Cardinality(Slots)
  BY DEF HostedInv, LedgerBalances
<1>7. Cardinality(granted[r]) \in Nat /\ (granted[r] = {} => Cardinality(granted[r]) = 0)
  BY FS_CardinalityType, FS_EmptySet DEF HostedInv, FiniteInv, Open
<1>8. CASE granted[r] = {}
  BY <1>3, <1>5, <1>6, <1>7, <1>8 DEF Held
<1>9. CASE granted[r] # {}
  BY <1>3, <1>5, <1>6, <1>7, <1>9 DEF Held
<1> QED BY <1>3, <1>8, <1>9

-----------------------------------------------------------------------------
LEMMA ReserveKeeps == ASSUME HostedInv, NEW r \in Reservations, Reserve(r) PROVE HostedInv'
<1>1. TypeOK'
  BY DEF HostedInv, TypeOK, States, provider, Reserve
<1>2. FreshInv'
  BY DEF HostedInv, FreshInv, Reserve
<1>3. CapabilityInv'
  BY DEF HostedInv, CapabilityInv, provider, Reserve
<1>4. ClaimInv'
  BY DEF HostedInv, ClaimInv, Cleanable, provider, Reserve
<1>5. InventoryInv'
  BY DEF HostedInv, InventoryInv, FreshInv, Usable, Confirmed, provider, Reserve
<1>6. PublishedInv'
  BY DEF HostedInv, PublishedInv, Whole, Reserve
<1>7. KeptInv'
  BY DEF HostedInv, KeptInv, provider, Reserve
<1>8. StoredIsCharged'
  BY DEF HostedInv, StoredIsCharged, TypeOK, Open, LeftOut, provider, Reserve
<1>9. FiniteInv' /\ LedgerBalances'
  <2>1. /\ Begun' = Begun \cup {r} /\ Open' = Open \cup {r} /\ KeptKeys' = KeptKeys
        /\ Slots' = Slots /\ Ungranted' = Ungranted \cup {r} /\ r \notin Ungranted
    BY DEF HostedInv, TypeOK, FreshInv, Reserve, Begun, Open, KeptKeys, Slots, Ungranted
  <2>2. /\ IsFiniteSet(Begun') /\ IsFiniteSet(KeptKeys') /\ IsFiniteSet(Slots')
        /\ Cardinality(Ungranted') = Cardinality(Ungranted) + 1
    BY <2>1, UngrantedIsFinite, FS_AddElement DEF HostedInv, FiniteInv
  <2>3. Cardinality(Ungranted) \in Nat /\ Cardinality(Slots) \in Nat
    BY UngrantedIsFinite, FS_CardinalityType DEF HostedInv, FiniteInv
  <2>4. reserved' = Cardinality(Ungranted') + Cardinality(Slots')
    BY <2>1, <2>2, <2>3 DEF HostedInv, LedgerBalances, Reserve
  <2>5. retained' = Cardinality(KeptKeys') /\ retained' + reserved' <= Allowance
    BY <2>1 DEF HostedInv, LedgerBalances, TypeOK, Reserve
  <2>6. FiniteInv'
    BY <2>2 DEF HostedInv, FiniteInv, Reserve
  <2> QED BY <2>4, <2>5, <2>6 DEF LedgerBalances
<1> QED BY <1>1, <1>2, <1>3, <1>4, <1>5, <1>6, <1>7, <1>8, <1>9 DEF HostedInv

LEMMA RenewKeeps == ASSUME HostedInv, NEW r \in Reservations, Renew(r) PROVE HostedInv'
<1>1. TypeOK'
  BY DEF HostedInv, TypeOK, Leases, provider, Renew
<1>2. FreshInv'
  BY DEF HostedInv, FreshInv, Renew
<1>3. CapabilityInv'
  BY DEF HostedInv, CapabilityInv, provider, Renew
<1>4. ClaimInv'
  BY DEF HostedInv, ClaimInv, Cleanable, Usable, provider, Renew
<1>5. InventoryInv'
  BY DEF HostedInv, InventoryInv, Usable, Confirmed, provider, Renew
<1>6. PublishedInv'
  BY DEF HostedInv, PublishedInv, Whole, Renew
<1>7. KeptInv'
  BY DEF HostedInv, KeptInv, provider, Renew
<1>8. StoredIsCharged'
  BY DEF HostedInv, StoredIsCharged, Open, LeftOut, provider, Renew
<1>9. FiniteInv' /\ LedgerBalances'
  BY LedgerStays DEF HostedInv, FiniteInv, Renew, Begun, Open
<1> QED BY <1>1, <1>2, <1>3, <1>4, <1>5, <1>6, <1>7, <1>8, <1>9 DEF HostedInv

LEMMA TimePassesKeeps ==
    ASSUME HostedInv, NEW r \in Reservations, TimePasses(r)
    PROVE  HostedInv'
<1>1. TypeOK'
  BY DEF HostedInv, TypeOK, Leases, provider, TimePasses
<1>2. FreshInv'
  BY DEF HostedInv, FreshInv, TimePasses
<1>3. CapabilityInv'
  BY DEF HostedInv, CapabilityInv, TypeOK, provider, TimePasses
<1>4. ClaimInv'
  BY DEF HostedInv, ClaimInv, TypeOK, Cleanable, provider, TimePasses
<1>5. InventoryInv'
  BY DEF HostedInv, InventoryInv, TypeOK, Usable, Confirmed, provider, TimePasses
<1>6. PublishedInv'
  BY DEF HostedInv, PublishedInv, Whole, TimePasses
<1>7. KeptInv'
  BY DEF HostedInv, KeptInv, provider, TimePasses
<1>8. StoredIsCharged'
  BY DEF HostedInv, StoredIsCharged, Open, LeftOut, provider, TimePasses
<1>9. FiniteInv' /\ LedgerBalances'
  BY LedgerStays DEF HostedInv, FiniteInv, TimePasses, Begun, Open
<1> QED BY <1>1, <1>2, <1>3, <1>4, <1>5, <1>6, <1>7, <1>8, <1>9 DEF HostedInv

LEMMA GrantPutKeeps ==
    ASSUME HostedInv, NEW r \in Reservations, NEW k \in Keys, GrantPut(r, k)
    PROVE  HostedInv'
<1>1. TypeOK'
  BY DEF HostedInv, TypeOK, Leases, Capabilities, GrantPut
<1>2. FreshInv'
  BY DEF HostedInv, FreshInv, TypeOK, GrantPut
<1>3. CapabilityInv'
  BY DEF HostedInv, CapabilityInv, TypeOK, GrantPut
<1>4. ClaimInv'
  BY DEF HostedInv, ClaimInv, TypeOK, CapabilityInv, Cleanable, GrantPut
<1>5. InventoryInv'
  <2>1. \A q \in Reservations, o \in Objects : Confirmed(q, o) => Confirmed(q, o)'
    <3>1. \A q \in Reservations : granted[q] \subseteq granted'[q]
      BY DEF HostedInv, TypeOK, GrantPut
    <3> QED BY <3>1 DEF GrantPut, Confirmed
  <2> QED BY <2>1 DEF HostedInv, TypeOK, InventoryInv, Usable, GrantPut
<1>6. PublishedInv'
  BY DEF HostedInv, PublishedInv, Whole, GrantPut
<1>7. KeptInv'
  BY DEF HostedInv, KeptInv, GrantPut
<1>8. StoredIsCharged'
  <2>1. \A q \in Reservations : granted[q] \subseteq granted'[q]
    BY DEF HostedInv, TypeOK, GrantPut
  <2>2. UNCHANGED <<state, declared, source, kept, object>>
    BY DEF GrantPut
  <2> QED BY <2>1, <2>2 DEF HostedInv, StoredIsCharged, Open, LeftOut
<1>9. FiniteInv' /\ LedgerBalances'
  <2>1. Begun' = Begun /\ Open' = Open /\ KeptKeys' = KeptKeys /\ r \in Open
    BY DEF GrantPut, Begun, Open, KeptKeys
  <2>2. CASE k \in granted[r]
    BY <2>1, <2>2, LedgerStays DEF HostedInv, FiniteInv, GrantPut
  <2>3. CASE k \notin granted[r]
    <3>1. /\ granted' = [granted EXCEPT ![r] = @ \cup {k}]
          /\ reserved' = (IF granted[r] = {} THEN reserved ELSE reserved + 1)
          /\ retained + reserved' <= Allowance
          /\ UNCHANGED <<kept, retained, staged>>
      BY <2>3 DEF GrantPut
    <3>2. Slots' = Slots \cup {<<k, r>>} /\ <<k, r>> \notin Slots
      BY <2>1, <2>3, <3>1 DEF Slots, Capabilities, HostedInv, TypeOK
    <3>3. Ungranted' = Ungranted \ {r} /\ (r \in Ungranted <=> granted[r] = {})
      <4>1. granted' \in [Reservations -> SUBSET Keys] /\ granted'[r] # {}
            /\ \A q \in Reservations \ {r} : granted'[q] = granted[q]
        BY <3>1 DEF HostedInv, TypeOK
      <4> QED BY <2>1, <4>1 DEF Ungranted, Open
    <3>4. /\ IsFiniteSet(Slots') /\ Cardinality(Slots') = Cardinality(Slots) + 1
          /\ Cardinality(Ungranted') = Cardinality(Ungranted) - (IF granted[r] = {} THEN 1 ELSE 0)
      <4>1. IsFiniteSet(Slots) /\ IsFiniteSet(Ungranted) /\ Cardinality(Ungranted) \in Nat
        BY UngrantedIsFinite, FS_CardinalityType DEF HostedInv, FiniteInv
      <4>2. IsFiniteSet(Slots \cup {<<k, r>>})
            /\ Cardinality(Slots \cup {<<k, r>>}) = IF <<k, r>> \in Slots THEN Cardinality(Slots)
                                                   ELSE Cardinality(Slots) + 1
        BY <4>1, FS_AddElement
      <4>3. Cardinality(Ungranted \ {r}) = IF r \in Ungranted THEN Cardinality(Ungranted) - 1
                                          ELSE Cardinality(Ungranted)
        BY <4>1, FS_RemoveElement
      <4> QED BY <3>2, <3>3, <4>1, <4>2, <4>3
    <3>5. Cardinality(Ungranted) \in Nat /\ Cardinality(Slots) \in Nat
      BY UngrantedIsFinite, FS_CardinalityType DEF HostedInv, FiniteInv
    <3>6. reserved' = Cardinality(Ungranted') + Cardinality(Slots')
      BY <3>1, <3>4, <3>5 DEF HostedInv, LedgerBalances
    <3>7. \A q \in Reservations : IsFiniteSet(granted'[q])
      BY <3>1, FS_AddElement DEF HostedInv, FiniteInv, TypeOK
    <3>8. FiniteInv'
      BY <2>1, <3>1, <3>4, <3>7 DEF HostedInv, FiniteInv
    <3> QED BY <2>1, <3>1, <3>6, <3>8 DEF HostedInv, LedgerBalances
  <2> QED BY <2>2, <2>3
<1> QED BY <1>1, <1>2, <1>3, <1>4, <1>5, <1>6, <1>7, <1>8, <1>9 DEF HostedInv

LEMMA DeclareKeeps ==
    ASSUME HostedInv, NEW r \in Reservations, NEW objects \in SUBSET Objects, Declare(r, objects)
    PROVE  HostedInv'
<1>1. TypeOK'
  BY DEF HostedInv, TypeOK, provider, Declare
<1>2. FreshInv'
  BY DEF HostedInv, FreshInv, Declare, Usable
<1>3. CapabilityInv'
  BY DEF HostedInv, CapabilityInv, provider, Declare
<1>4. ClaimInv'
  BY DEF HostedInv, ClaimInv, Cleanable, provider, Declare
<1>5. InventoryInv'
  BY DEF HostedInv, InventoryInv, Usable, Confirmed, provider, Declare
<1>6. PublishedInv'
  BY DEF HostedInv, PublishedInv, Whole, Declare
<1>7. KeptInv'
  BY DEF HostedInv, KeptInv, provider, Declare
<1>8. StoredIsCharged'
  BY DEF HostedInv, StoredIsCharged, TypeOK, Open, LeftOut, Usable, provider, Declare
<1>9. FiniteInv' /\ LedgerBalances'
  BY LedgerStays DEF HostedInv, FiniteInv, Declare, Begun, Open
<1> QED BY <1>1, <1>2, <1>3, <1>4, <1>5, <1>6, <1>7, <1>8, <1>9 DEF HostedInv

LEMMA PageKeeps ==
    ASSUME HostedInv, NEW r \in Reservations, NEW o \in Objects, Page(r, o)
    PROVE  HostedInv'
<1>1. TypeOK'
  BY DEF HostedInv, TypeOK, provider, Page
<1>2. FreshInv'
  BY DEF HostedInv, FreshInv, Page
<1>3. CapabilityInv'
  BY DEF HostedInv, CapabilityInv, provider, Page
<1>4. ClaimInv'
  BY DEF HostedInv, ClaimInv, Cleanable, provider, Page
<1>5. InventoryInv'
  BY DEF HostedInv, InventoryInv, Usable, Confirmed, provider, Page
<1>6. PublishedInv'
  BY DEF HostedInv, PublishedInv, Whole, Page
<1>7. KeptInv'
  BY DEF HostedInv, KeptInv, provider, Page
<1>8. StoredIsCharged'
  BY DEF HostedInv, StoredIsCharged, Open, LeftOut, provider, Page
<1>9. FiniteInv' /\ LedgerBalances'
  <2>1. \A q \in Reservations : IsFiniteSet(staged'[q])
    BY FS_AddElement DEF HostedInv, FiniteInv, Page
  <2>2. Begun' = Begun /\ Open' = Open
    BY DEF Page, Begun, Open
  <2> QED BY <2>1, <2>2, LedgerStays DEF Page
<1> QED BY <1>1, <1>2, <1>3, <1>4, <1>5, <1>6, <1>7, <1>8, <1>9 DEF HostedInv

LEMMA VerifyKeeps ==
    ASSUME HostedInv, NEW r \in Reservations, NEW o \in Objects, Verify(r, o)
    PROVE  HostedInv'
<1>1. TypeOK'
  BY DEF HostedInv, TypeOK, provider, Verify
<1>2. FreshInv'
  BY DEF HostedInv, FreshInv, Verify
<1>3. CapabilityInv'
  BY DEF HostedInv, CapabilityInv, provider, Verify
<1>4. ClaimInv'
  BY DEF HostedInv, ClaimInv, Cleanable, provider, Verify
<1>5. InventoryInv'
  BY DEF HostedInv, InventoryInv, Usable, Confirmed, provider, Verify
<1>6. PublishedInv'
  BY DEF HostedInv, PublishedInv, Whole, Verify
<1>7. KeptInv'
  BY DEF HostedInv, KeptInv, provider, Verify
<1>8. StoredIsCharged'
  BY DEF HostedInv, StoredIsCharged, Open, LeftOut, provider, Verify
<1>9. FiniteInv' /\ LedgerBalances'
  BY LedgerStays DEF HostedInv, FiniteInv, Verify, Begun, Open
<1> QED BY <1>1, <1>2, <1>3, <1>4, <1>5, <1>6, <1>7, <1>8, <1>9 DEF HostedInv

LEMMA ReuseProofKeeps ==
    ASSUME HostedInv, NEW r \in Reservations, NEW o \in Objects, ReuseProof(r, o)
    PROVE  HostedInv'
<1>1. TypeOK'
  BY DEF HostedInv, TypeOK, provider, ReuseProof
<1>2. FreshInv'
  BY DEF HostedInv, FreshInv, ReuseProof
<1>3. CapabilityInv'
  BY DEF HostedInv, CapabilityInv, provider, ReuseProof
<1>4. ClaimInv'
  BY DEF HostedInv, ClaimInv, Cleanable, provider, ReuseProof
<1>5. InventoryInv'
  BY DEF HostedInv, InventoryInv, Usable, Confirmed, provider, ReuseProof
<1>6. PublishedInv'
  BY DEF HostedInv, PublishedInv, Whole, ReuseProof
<1>7. KeptInv'
  BY DEF HostedInv, KeptInv, provider, ReuseProof
<1>8. StoredIsCharged'
  BY DEF HostedInv, StoredIsCharged, Open, LeftOut, provider, ReuseProof
<1>9. FiniteInv' /\ LedgerBalances'
  BY LedgerStays DEF HostedInv, FiniteInv, ReuseProof, Begun, Open
<1> QED BY <1>1, <1>2, <1>3, <1>4, <1>5, <1>6, <1>7, <1>8, <1>9 DEF HostedInv

LEMMA ProofAgesKeeps ==
    ASSUME HostedInv, NEW r \in Reservations, NEW o \in Objects, ProofAges(r, o)
    PROVE  HostedInv'
<1>1. TypeOK'
  BY DEF HostedInv, TypeOK, provider, ProofAges
<1>2. FreshInv'
  BY DEF HostedInv, FreshInv, ProofAges
<1>3. CapabilityInv'
  BY DEF HostedInv, CapabilityInv, provider, ProofAges
<1>4. ClaimInv'
  BY DEF HostedInv, ClaimInv, Cleanable, provider, ProofAges
<1>5. InventoryInv'
  BY DEF HostedInv, InventoryInv, Usable, Confirmed, provider, ProofAges
<1>6. PublishedInv'
  BY DEF HostedInv, PublishedInv, Whole, ProofAges
<1>7. KeptInv'
  BY DEF HostedInv, KeptInv, provider, ProofAges
<1>8. StoredIsCharged'
  BY DEF HostedInv, StoredIsCharged, Open, LeftOut, provider, ProofAges
<1>9. FiniteInv' /\ LedgerBalances'
  BY LedgerStays DEF HostedInv, FiniteInv, ProofAges, Begun, Open
<1> QED BY <1>1, <1>2, <1>3, <1>4, <1>5, <1>6, <1>7, <1>8, <1>9 DEF HostedInv

LEMMA AbandonKeeps == ASSUME HostedInv, NEW r \in Reservations, Abandon(r) PROVE HostedInv'
<1>1. TypeOK'
  BY DEF HostedInv, TypeOK, Leases, States, provider, Abandon
<1>2. FreshInv'
  BY DEF HostedInv, FreshInv, Abandon
<1>3. CapabilityInv'
  BY DEF HostedInv, CapabilityInv, provider, Abandon
<1>4. ClaimInv'
  BY DEF HostedInv, ClaimInv, Cleanable, provider, Abandon
<1>5. InventoryInv'
  BY DEF HostedInv, InventoryInv, Usable, Confirmed, provider, Abandon
<1>6. PublishedInv'
  BY DEF HostedInv, PublishedInv, Whole, Abandon
<1>7. KeptInv'
  BY DEF HostedInv, KeptInv, provider, Abandon
<1>8. StoredIsCharged'
  BY DEF HostedInv, StoredIsCharged, TypeOK, Open, LeftOut, provider, Abandon
<1>9. FiniteInv' /\ LedgerBalances'
  BY LedgerStays DEF HostedInv, FiniteInv, Abandon, Begun, Open
<1> QED BY <1>1, <1>2, <1>3, <1>4, <1>5, <1>6, <1>7, <1>8, <1>9 DEF HostedInv

LEMMA ClaimCleanupKeeps ==
    ASSUME HostedInv, NEW r \in Reservations, ClaimCleanup(r)
    PROVE  HostedInv'
<1>1. TypeOK'
  BY DEF HostedInv, TypeOK, States, provider, ClaimCleanup
<1>2. FreshInv'
  BY DEF HostedInv, FreshInv, ClaimCleanup
<1>3. CapabilityInv'
  BY DEF HostedInv, CapabilityInv, provider, ClaimCleanup
<1>4. ClaimInv'
  BY DEF HostedInv, ClaimInv, Cleanable, provider, ClaimCleanup
<1>5. InventoryInv'
  BY DEF HostedInv, InventoryInv, Usable, Confirmed, provider, ClaimCleanup
<1>6. PublishedInv'
  BY DEF HostedInv, PublishedInv, Whole, ClaimCleanup
<1>7. KeptInv'
  BY DEF HostedInv, KeptInv, provider, ClaimCleanup
<1>8. StoredIsCharged'
  BY DEF HostedInv, StoredIsCharged, TypeOK, Open, LeftOut, provider, ClaimCleanup
<1>9. FiniteInv' /\ LedgerBalances'
  BY LedgerStays DEF HostedInv, FiniteInv, ClaimCleanup, Begun, Open
<1> QED BY <1>1, <1>2, <1>3, <1>4, <1>5, <1>6, <1>7, <1>8, <1>9 DEF HostedInv

LEMMA PutKeeps ==
    ASSUME HostedInv, NEW k \in Keys, NEW r \in Reservations, Put(k, r)
    PROVE  HostedInv'
<1>1. TypeOK'
  BY DEF HostedInv, TypeOK, Put, ledger
<1>2. FreshInv'
  BY DEF HostedInv, FreshInv, Put, ledger
<1>3. CapabilityInv'
  BY NobodyAssumption DEF HostedInv, CapabilityInv, ClaimInv, Cleanable, Put, ledger
<1>4. ClaimInv'
  BY DEF HostedInv, ClaimInv, CapabilityInv, Cleanable, Put, ledger
<1>5. InventoryInv'
  BY NobodyAssumption DEF HostedInv, InventoryInv, TypeOK, Usable, Confirmed, Objects, Put,
     ledger
<1>6. PublishedInv'
  BY DEF HostedInv, PublishedInv, Whole, Put, ledger
<1>7. KeptInv'
  BY DEF HostedInv, KeptInv, Put, ledger
<1>8. StoredIsCharged'
  <2>1. object'[k] = source[r] /\ \A j \in Keys \ {k} : object'[j] = object[j]
    BY DEF HostedInv, TypeOK, Put
  <2>2. UNCHANGED <<state, granted, declared, source, kept>>
    BY DEF Put, ledger
  <2>3. k \in granted[r] /\ (r \in Open \/ state[r] = "published")
    BY DEF HostedInv, CapabilityInv, Put, Open
  <2>4. ASSUME state[r] = "published" PROVE LeftOut(r, k)
    <3>1. kept[k] = Nobody
      BY DEF HostedInv, KeptInv, Put
    <3>2. source[r] # Nobody
      BY NobodyAssumption DEF HostedInv, TypeOK
    <3> QED BY <2>4, <3>1, <3>2 DEF HostedInv, PublishedInv, LeftOut
  <2> QED BY <2>1, <2>2, <2>3, <2>4 DEF HostedInv, StoredIsCharged, Open, LeftOut
<1>9. FiniteInv' /\ LedgerBalances'
  BY LedgerStays DEF HostedInv, FiniteInv, Put, Begun, Open, ledger
<1> QED BY <1>1, <1>2, <1>3, <1>4, <1>5, <1>6, <1>7, <1>8, <1>9 DEF HostedInv

LEMMA PutExpiresKeeps ==
    ASSUME HostedInv, NEW k \in Keys, NEW r \in Reservations, PutExpires(k, r)
    PROVE  HostedInv'
<1>1. TypeOK'
  BY DEF HostedInv, TypeOK, PutExpires, ledger
<1>2. FreshInv'
  BY DEF HostedInv, FreshInv, PutExpires, ledger
<1>3. CapabilityInv'
  BY DEF HostedInv, CapabilityInv, PutExpires, ledger
<1>4. ClaimInv'
  BY DEF HostedInv, ClaimInv, Cleanable, PutExpires, ledger
<1>5. InventoryInv'
  BY DEF HostedInv, InventoryInv, Usable, Confirmed, PutExpires, ledger
<1>6. PublishedInv'
  BY DEF HostedInv, PublishedInv, Whole, PutExpires, ledger
<1>7. KeptInv'
  BY DEF HostedInv, KeptInv, PutExpires, ledger
<1>8. StoredIsCharged'
  BY DEF HostedInv, StoredIsCharged, Open, LeftOut, PutExpires, ledger
<1>9. FiniteInv' /\ LedgerBalances'
  BY LedgerStays DEF HostedInv, FiniteInv, PutExpires, Begun, Open, ledger
<1> QED BY <1>1, <1>2, <1>3, <1>4, <1>5, <1>6, <1>7, <1>8, <1>9 DEF HostedInv

LEMMA IssueDeleteKeeps ==
    ASSUME HostedInv, NEW r \in Reservations, NEW k \in Keys, IssueDelete(r, k)
    PROVE  HostedInv'
<1>1. TypeOK'
  BY DEF HostedInv, TypeOK, Capabilities, IssueDelete
<1>2. FreshInv'
  BY DEF HostedInv, FreshInv, IssueDelete
<1>3. CapabilityInv'
  BY NobodyAssumption DEF HostedInv, CapabilityInv, TypeOK, IssueDelete
<1>4. ClaimInv'
  BY DEF HostedInv, ClaimInv, Cleanable, IssueDelete, Orphan, InFlight
<1>5. InventoryInv'
  BY DEF HostedInv, InventoryInv, Usable, Confirmed, IssueDelete
<1>6. PublishedInv'
  BY DEF HostedInv, PublishedInv, Whole, IssueDelete
<1>7. KeptInv'
  BY DEF HostedInv, KeptInv, IssueDelete
<1>8. StoredIsCharged'
  BY DEF HostedInv, StoredIsCharged, Open, LeftOut, IssueDelete
<1>9. FiniteInv' /\ LedgerBalances'
  BY LedgerStays DEF HostedInv, FiniteInv, IssueDelete, Begun, Open
<1> QED BY <1>1, <1>2, <1>3, <1>4, <1>5, <1>6, <1>7, <1>8, <1>9 DEF HostedInv

LEMMA DeleteKeeps ==
    ASSUME HostedInv, NEW k \in Keys, NEW r \in Reservations, Delete(k, r)
    PROVE  HostedInv'
<1>1. TypeOK'
  BY DEF HostedInv, TypeOK, Delete, ledger
<1>2. FreshInv'
  BY DEF HostedInv, FreshInv, Delete, ledger
<1>3. CapabilityInv'
  BY DEF HostedInv, CapabilityInv, TypeOK, Delete, ledger
<1>4. ClaimInv'
  BY DEF HostedInv, ClaimInv, Cleanable, Delete, ledger
<1>5. InventoryInv'
  BY NobodyAssumption DEF HostedInv, InventoryInv, ClaimInv, CapabilityInv, Cleanable,
     Usable, Confirmed, Delete, ledger
<1>6. PublishedInv'
  BY DEF HostedInv, PublishedInv, Whole, Delete, ledger
<1>7. KeptInv'
  BY NobodyAssumption DEF HostedInv, KeptInv, ClaimInv, CapabilityInv, Delete, ledger
<1>8. StoredIsCharged'
  <2>1. \A j \in Keys : object'[j] \in {object[j], Nobody}
    BY DEF HostedInv, Delete
  <2>2. UNCHANGED <<state, granted, declared, source, kept>>
    BY DEF Delete, ledger
  <2> QED BY <2>1, <2>2 DEF HostedInv, StoredIsCharged, Open, LeftOut
<1>9. FiniteInv' /\ LedgerBalances'
  BY LedgerStays DEF HostedInv, FiniteInv, Delete, Begun, Open, ledger
<1> QED BY <1>1, <1>2, <1>3, <1>4, <1>5, <1>6, <1>7, <1>8, <1>9 DEF HostedInv

LEMMA DeleteExpiresKeeps ==
    ASSUME HostedInv, NEW k \in Keys, NEW r \in Reservations, DeleteExpires(k, r)
    PROVE  HostedInv'
<1>1. TypeOK'
  BY DEF HostedInv, TypeOK, DeleteExpires, ledger
<1>2. FreshInv'
  BY DEF HostedInv, FreshInv, DeleteExpires, ledger
<1>3. CapabilityInv'
  BY DEF HostedInv, CapabilityInv, DeleteExpires, ledger
<1>4. ClaimInv'
  BY DEF HostedInv, ClaimInv, Cleanable, DeleteExpires, ledger
<1>5. InventoryInv'
  BY DEF HostedInv, InventoryInv, Usable, Confirmed, DeleteExpires, ledger
<1>6. PublishedInv'
  BY DEF HostedInv, PublishedInv, Whole, DeleteExpires, ledger
<1>7. KeptInv'
  BY DEF HostedInv, KeptInv, DeleteExpires, ledger
<1>8. StoredIsCharged'
  BY DEF HostedInv, StoredIsCharged, Open, LeftOut, DeleteExpires, ledger
<1>9. FiniteInv' /\ LedgerBalances'
  BY LedgerStays DEF HostedInv, FiniteInv, DeleteExpires, Begun, Open, ledger
<1> QED BY <1>1, <1>2, <1>3, <1>4, <1>5, <1>6, <1>7, <1>8, <1>9 DEF HostedInv

LEMMA RecordAbsentKeeps ==
    ASSUME HostedInv, NEW k \in Keys, NEW r \in Reservations, RecordAbsent(k, r)
    PROVE  HostedInv'
<1>1. TypeOK'
  BY DEF HostedInv, TypeOK, RecordAbsent
<1>2. FreshInv'
  BY DEF HostedInv, FreshInv, RecordAbsent
<1>3. CapabilityInv'
  BY DEF HostedInv, CapabilityInv, TypeOK, ClaimInv, RecordAbsent
<1>4. ClaimInv'
  BY NobodyAssumption DEF HostedInv, ClaimInv, TypeOK, CapabilityInv, Cleanable,
     RecordAbsent
<1>5. InventoryInv'
  BY DEF HostedInv, InventoryInv, Usable, Confirmed, RecordAbsent
<1>6. PublishedInv'
  BY DEF HostedInv, PublishedInv, Whole, RecordAbsent
<1>7. KeptInv'
  BY DEF HostedInv, KeptInv, RecordAbsent
<1>8. StoredIsCharged'
  BY DEF HostedInv, StoredIsCharged, Open, LeftOut, RecordAbsent
<1>9. FiniteInv' /\ LedgerBalances'
  BY LedgerStays DEF HostedInv, FiniteInv, RecordAbsent, Begun, Open
<1> QED BY <1>1, <1>2, <1>3, <1>4, <1>5, <1>6, <1>7, <1>8, <1>9 DEF HostedInv

LEMMA AbsenceSettlesKeeps ==
    ASSUME HostedInv, NEW k \in Keys, AbsenceSettles(k)
    PROVE  HostedInv'
<1>1. TypeOK'
  BY DEF HostedInv, TypeOK, provider, AbsenceSettles
<1>2. FreshInv'
  BY DEF HostedInv, FreshInv, AbsenceSettles
<1>3. CapabilityInv'
  <2>1. \A j \in Keys : claim'[j].by = claim[j].by /\ (j # k => claim'[j] = claim[j])
    BY DEF HostedInv, AbsenceSettles
  <2>2. UNCHANGED <<state, lease, granted, object, puts, deletes, absent>>
    BY DEF AbsenceSettles, provider
  <2>3. \A r \in Reservations : claim[k].by = r => <<k, r>> \notin deletes
    BY DEF AbsenceSettles
  <2> QED BY <2>1, <2>2, <2>3 DEF HostedInv, CapabilityInv
<1>4. ClaimInv'
  BY DEF HostedInv, ClaimInv, Cleanable, provider, AbsenceSettles
<1>5. InventoryInv'
  BY DEF HostedInv, InventoryInv, Usable, Confirmed, provider, AbsenceSettles
<1>6. PublishedInv'
  BY DEF HostedInv, PublishedInv, Whole, AbsenceSettles
<1>7. KeptInv'
  BY DEF HostedInv, KeptInv, provider, AbsenceSettles
<1>8. StoredIsCharged'
  BY DEF HostedInv, StoredIsCharged, Open, LeftOut, provider, AbsenceSettles
<1>9. FiniteInv' /\ LedgerBalances'
  BY LedgerStays DEF HostedInv, FiniteInv, AbsenceSettles, Begun, Open
<1> QED BY <1>1, <1>2, <1>3, <1>4, <1>5, <1>6, <1>7, <1>8, <1>9 DEF HostedInv

\* Publication: what the snapshot adds is kept, and was stored by the
\* reservation itself or by one that may no longer delete it.
LEMMA PublishKeeps == ASSUME HostedInv, NEW r \in Reservations, Publish(r) PROVE HostedInv'
<1>1. /\ Usable(r) /\ Whole(r) /\ staged[r] \subseteq Objects
      /\ \A o \in staged[r] : Confirmed(r, o) /\ kept[o[1]] \in {o[2], Nobody}
      /\ \A o, p \in staged[r] : o[1] = p[1] => o = p
      /\ \A o \in Added(r) : claim[o[1]].by = Nobody
      /\ UNCHANGED <<base, lease, granted, declared, staged, proof, claim, source, provider>>
      /\ state' = [state EXCEPT ![r] = "published"]
  BY DEF Publish, PublishGuard, HostedInv, InventoryInv, TypeOK
<1>2. \A k \in Keys :
        /\ kept'[k] = kept[k] \/ (kept[k] = Nobody /\ kept'[k] = object[k]
                                  /\ object[k] \in Encryptions /\ claim[k].by = Nobody)
        /\ kept[k] # Nobody => kept'[k] = kept[k]
  <2> SUFFICES ASSUME NEW k \in Keys, \E o \in Added(r) : o[1] = k
               PROVE  /\ kept'[k] = object[k] /\ kept[k] = Nobody
                      /\ object[k] \in Encryptions /\ claim[k].by = Nobody
    BY DEF Publish
  <2> DEFINE o == CHOOSE o \in Added(r) : o[1] = k
  <2>1. o \in Added(r) /\ o[1] = k
    OBVIOUS
  <2>2. kept'[k] = o[2]
    BY DEF Publish
  <2> HIDE DEF o
  <2> QED BY <1>1, <2>1, <2>2 DEF Added, Confirmed, Objects
<1>3. \A o \in staged[r] : kept'[o[1]] = o[2]
  <2> SUFFICES ASSUME NEW o \in staged[r] PROVE kept'[o[1]] = o[2]
    OBVIOUS
  <2>1. o[1] \in Keys /\ object[o[1]] = o[2]
    BY <1>1 DEF Confirmed, Objects
  <2>2. CASE kept[o[1]] = o[2]
    BY <1>1, <1>2, <2>1, <2>2
  <2>3. CASE kept[o[1]] = Nobody
    <3>1. o \in Added(r)
      BY <2>3 DEF Added
    <3>2. kept'[o[1]] = (CHOOSE p \in Added(r) : p[1] = o[1])[2]
      BY <2>1, <3>1 DEF Publish
    <3>3. \A p \in Added(r) : p[1] = o[1] => p = o
      BY <1>1 DEF Added
    <3> QED BY <3>1, <3>2, <3>3
  <2> QED BY <1>1, <2>2, <2>3
<1>4. /\ IsFiniteSet(KeptKeys')
      /\ Cardinality(KeptKeys') = Cardinality(KeptKeys) + Cardinality(Added(r))
      /\ Cardinality(Added(r)) \in Nat
  <2> DEFINE New == {k \in Keys : \E o \in Added(r) : o[1] = k}
             key == [o \in Added(r) |-> o[1]]
  <2>1. IsFiniteSet(Added(r))
    <3>1. Added(r) \subseteq staged[r] /\ IsFiniteSet(staged[r])
      BY DEF Added, HostedInv, FiniteInv
    <3> QED BY <3>1, FS_Subset
  <2>2. IsFiniteSet(New) /\ Cardinality(New) = Cardinality(Added(r))
    <3>1. key \in [Added(r) -> New] /\ \A k \in New : \E o \in Added(r) : key[o] = k
      BY <1>1 DEF Added, Objects
    <3>2. \A o, p \in Added(r) : key[o] = key[p] => o = p
      BY <1>1 DEF Added
    <3> HIDE DEF New, key
    <3> QED BY <2>1, <3>1, <3>2, ImageCount
  <2>3. KeptKeys' = KeptKeys \cup New /\ KeptKeys \cap New = {}
    <3>1. ASSUME NEW k \in New PROVE kept[k] = Nobody /\ kept'[k] # Nobody
      BY <1>1, <1>3, <3>1, NobodyAssumption DEF Added, Objects
    <3>2. ASSUME NEW k \in Keys, k \notin New PROVE kept'[k] = kept[k]
      BY <3>2 DEF Publish
    <3>3. \A k \in KeptKeys : kept'[k] # Nobody
      BY <1>2 DEF KeptKeys
    <3> HIDE DEF New
    <3>4. New \subseteq Keys
      BY DEF New
    <3> QED BY <3>1, <3>2, <3>3, <3>4 DEF KeptKeys
  <2> HIDE DEF New
  <2>4. IsFiniteSet(KeptKeys) /\ Cardinality(KeptKeys) \in Nat /\ Cardinality({}) = 0
    BY FS_CardinalityType, FS_EmptySet DEF HostedInv, FiniteInv
  <2>5. IsFiniteSet(KeptKeys \cup New) /\ Cardinality(KeptKeys \cup New)
          = Cardinality(KeptKeys) + Cardinality(New) - Cardinality(KeptKeys \cap New)
    BY <2>2, <2>4, FS_Union
  <2>6. Cardinality(Added(r)) \in Nat
    BY <2>1, FS_CardinalityType
  <2>7. Cardinality(KeptKeys \cup New) = Cardinality(KeptKeys')
        /\ Cardinality(KeptKeys \cap New) = 0 /\ IsFiniteSet(KeptKeys')
    BY <2>3, <2>4, <2>5, Zenon
  <2> QED BY <2>2, <2>4, <2>5, <2>6, <2>7
<1>5. /\ IsFiniteSet(Slots')
      /\ reserved' \in Nat
      /\ reserved' = Cardinality(Ungranted') + Cardinality(Slots')
  <2>1. r \in Open /\ Open' = Open \ {r}
    BY <1>1 DEF Open, Usable, HostedInv, TypeOK
  <2> QED BY <1>1, <2>1, ClosingBalances DEF Publish
<1>6. TypeOK'
  <2>1. kept' \in [Keys -> Encryptions \cup {Nobody}]
    <3>1. \A k \in Keys : kept'[k] \in Encryptions \cup {Nobody}
      BY <1>2 DEF HostedInv, TypeOK
    <3> QED BY <3>1 DEF Publish
  <2>2. retained' \in Nat
    BY <1>4 DEF Publish, HostedInv, TypeOK
  <2> QED BY <1>1, <1>5, <2>1, <2>2 DEF HostedInv, TypeOK, Publish, provider, States
<1>7. FreshInv' /\ CapabilityInv'
  BY <1>1 DEF HostedInv, FreshInv, CapabilityInv, provider, Usable
<1>8. ClaimInv'
  BY <1>1, <1>2 DEF HostedInv, ClaimInv, Cleanable, Usable, provider
<1>9. InventoryInv'
  <2>1. \A q \in Reservations, o \in Objects : Confirmed(q, o) => Confirmed(q, o)'
    BY <1>1, <1>2 DEF Confirmed, Objects, provider
  <2> QED BY <1>1, <2>1 DEF HostedInv, TypeOK, InventoryInv, Usable
<1>10. PublishedInv'
  BY <1>1, <1>2, <1>3, NobodyAssumption DEF HostedInv, TypeOK, PublishedInv, Whole, Objects
<1>11. KeptInv'
  BY <1>1, <1>2 DEF HostedInv, KeptInv, provider
<1>12. StoredIsCharged'
  <2> SUFFICES ASSUME NEW k \in Keys, object[k] # Nobody, kept'[k] # object[k]
               PROVE  \E q \in Reservations : /\ k \in granted[q] /\ source[q] = object[k]
                                              /\ q \in Open' \/ LeftOut(q, k)'
    BY <1>1 DEF StoredIsCharged, provider
  <2>1. kept[k] # object[k]
    BY <1>2
  <2>2. PICK q \in Reservations : /\ k \in granted[q] /\ source[q] = object[k]
                                  /\ q \in Open \/ LeftOut(q, k)
    BY <2>1 DEF HostedInv, StoredIsCharged
  <2>3. CASE q = r
    BY <1>1, <1>3, <2>2, <2>3 DEF LeftOut, Whole, HostedInv, TypeOK
  <2>4. CASE q # r
    BY <1>1, <2>2, <2>4 DEF LeftOut, Open, HostedInv, TypeOK
  <2> QED BY <2>2, <2>3, <2>4
<1>13. FiniteInv'
  <2>1. Begun' = Begun
    BY <1>1 DEF Begun, Usable, HostedInv
  <2> QED BY <1>1, <1>4, <1>5, <2>1 DEF HostedInv, FiniteInv
<1>14. LedgerBalances'
  <2>1. retained = Cardinality(KeptKeys) /\ retained + reserved <= Allowance
    BY DEF HostedInv, LedgerBalances
  <2>2. Cardinality(Added(r)) <= Held(r) /\ Held(r) \in Nat
    BY FS_CardinalityType DEF Publish, PublishGuard, Held, HostedInv, FiniteInv
  <2>3. retained' = Cardinality(KeptKeys') /\ retained' + reserved' <= Allowance
    BY <1>4, <2>1, <2>2, AllowanceAssumption DEF Publish, HostedInv, TypeOK
  <2> QED BY <1>5, <2>3 DEF LedgerBalances
<1> QED BY <1>6, <1>7, <1>8, <1>9, <1>10, <1>11, <1>12, <1>13, <1>14 DEF HostedInv

\* Release: what the reservation stored and nobody published is gone.
LEMMA ReleaseKeeps == ASSUME HostedInv, NEW r \in Reservations, Release(r) PROVE HostedInv'
<1>1. /\ Cleanable(r)
      /\ state' = [state EXCEPT ![r] = "released"]
      /\ UNCHANGED <<base, lease, granted, declared, staged, proof, kept, head,
                     retained, source, provider>>
      /\ \A k \in Keys : claim'[k] = IF claim[k].by = r THEN NoClaim ELSE claim[k]
  BY DEF Release
<1>2. \A k \in granted[r] : kept[k] = Nobody => claim[k].gone = "long" /\ object[k] = Nobody
  BY DEF Release, HostedInv, TypeOK, ClaimInv
<1>3. /\ IsFiniteSet(Slots')
      /\ reserved' \in Nat
      /\ reserved' = Cardinality(Ungranted') + Cardinality(Slots')
  <2>1. r \in Open /\ Open' = Open \ {r}
    BY <1>1 DEF Open, Cleanable, HostedInv, TypeOK
  <2> QED BY <1>1, <2>1, ClosingBalances DEF Release
<1>4. TypeOK'
  BY <1>1, <1>3 DEF HostedInv, TypeOK, Release, NoClaim, provider, States
<1>5. FreshInv' /\ KeptInv'
  BY <1>1 DEF HostedInv, FreshInv, KeptInv, provider
<1>6. CapabilityInv'
  <2>1. \A k \in Keys : <<k, r>> \notin deletes
    BY <1>1, <1>2, NobodyAssumption DEF HostedInv, CapabilityInv, ClaimInv
  <2>2. \A k \in Keys : <<k, r>> \notin puts
    BY <1>1 DEF HostedInv, CapabilityInv, Cleanable
  <2> QED BY <1>1, <2>1, <2>2 DEF HostedInv, TypeOK, CapabilityInv, provider
<1>7. ClaimInv'
  BY <1>1 DEF HostedInv, ClaimInv, Cleanable, NoClaim, provider
<1>8. InventoryInv' /\ PublishedInv'
  BY <1>1 DEF HostedInv, InventoryInv, PublishedInv, Whole, Usable, Confirmed, provider
<1>9. StoredIsCharged'
  <2> SUFFICES ASSUME NEW k \in Keys, object[k] # Nobody, kept[k] # object[k]
               PROVE  \E q \in Reservations : /\ k \in granted[q] /\ source[q] = object[k]
                                              /\ q \in Open' \/ LeftOut(q, k)'
    BY <1>1 DEF StoredIsCharged, provider
  <2>1. PICK q \in Reservations : /\ k \in granted[q] /\ source[q] = object[k]
                                  /\ q \in Open \/ LeftOut(q, k)
    BY DEF HostedInv, StoredIsCharged
  <2>2. q # r
    BY <1>1, <1>2, <2>1 DEF HostedInv, KeptInv
  <2> QED BY <1>1, <2>1, <2>2 DEF LeftOut, Open, HostedInv, TypeOK
<1>10. FiniteInv' /\ LedgerBalances'
  <2>1. Begun' = Begun /\ KeptKeys' = KeptKeys
    BY <1>1 DEF Begun, KeptKeys, Cleanable, HostedInv
  <2>2. reserved' <= reserved
    BY FS_CardinalityType DEF Release, Held, HostedInv, FiniteInv, TypeOK
  <2>3. FiniteInv'
    BY <1>1, <1>3, <2>1 DEF HostedInv, FiniteInv
  <2>4. retained = Cardinality(KeptKeys) /\ retained + reserved <= Allowance /\ retained' = retained
    BY <1>1 DEF HostedInv, LedgerBalances
  <2>5. retained' + reserved' <= Allowance
    BY <1>3, <2>2, <2>4, AllowanceAssumption DEF HostedInv, TypeOK
  <2> QED BY <1>3, <2>1, <2>3, <2>4, <2>5 DEF LedgerBalances
<1> QED BY <1>4, <1>5, <1>6, <1>7, <1>8, <1>9, <1>10 DEF HostedInv

-----------------------------------------------------------------------------

LEMMA HostedInit == Init => HostedInv
<1> SUFFICES ASSUME Init PROVE HostedInv
  OBVIOUS
<1>1. TypeOK
  BY DEF Init, TypeOK, States, Leases, NoClaim
<1>2. FreshInv /\ CapabilityInv /\ ClaimInv /\ InventoryInv /\ PublishedInv /\ KeptInv
      /\ StoredIsCharged
  BY DEF Init, FreshInv, CapabilityInv, ClaimInv, NoClaim, InventoryInv, PublishedInv,
     KeptInv, StoredIsCharged
<1>3. Begun = {} /\ KeptKeys = {} /\ Slots = {} /\ Ungranted = {}
  BY DEF Init, Begun, KeptKeys, Slots, Ungranted, Open
<1>4. FiniteInv
  BY <1>3, FS_EmptySet DEF Init, FiniteInv
<1>5. LedgerBalances
  BY <1>3, FS_EmptySet, AllowanceAssumption DEF Init, LedgerBalances
<1> QED BY <1>1, <1>2, <1>4, <1>5 DEF HostedInv

LEMMA StutterKeeps == ASSUME HostedInv, UNCHANGED serviceVars PROVE HostedInv'
<1>1. UNCHANGED <<state, base, lease, granted, declared, staged, proof, kept, head,
                  claim, retained, reserved, source, object, puts, deletes, absent>>
  BY DEF serviceVars, ledger, provider
<1>2. (TypeOK /\ FreshInv /\ CapabilityInv /\ ClaimInv /\ KeptInv)'
  BY <1>1 DEF HostedInv, TypeOK, FreshInv, CapabilityInv, ClaimInv, KeptInv, Cleanable
<1>3. (InventoryInv /\ PublishedInv /\ StoredIsCharged)'
  BY <1>1 DEF HostedInv, InventoryInv, PublishedInv, StoredIsCharged, Whole, Confirmed,
     Usable, Open, LeftOut
<1>4. Begun' = Begun /\ Open' = Open
  BY <1>1 DEF Begun, Open
<1>5. FiniteInv' /\ LedgerBalances'
  BY <1>1, <1>4, LedgerStays DEF HostedInv, FiniteInv
<1> QED BY <1>2, <1>3, <1>5 DEF HostedInv

LEMMA HostedStep == HostedInv /\ [Next]_serviceVars => HostedInv'
<1> SUFFICES ASSUME HostedInv, [Next]_serviceVars PROVE HostedInv'
  OBVIOUS
<1>1. ASSUME NEW r \in Reservations, Uploads(r) PROVE HostedInv'
  BY <1>1, ReserveKeeps, RenewKeeps, GrantPutKeeps, DeclareKeeps, PageKeeps, VerifyKeeps,
     ReuseProofKeeps, PublishKeeps, AbandonKeeps DEF Uploads
<1>2. ASSUME NEW r \in Reservations, Cleanup(r) PROVE HostedInv'
  BY <1>2, ClaimCleanupKeeps, ReleaseKeeps, IssueDeleteKeeps, RecordAbsentKeeps DEF Cleanup
<1>3. ASSUME NEW k \in Keys, NEW r \in Reservations, Provider(k, r) PROVE HostedInv'
  BY <1>3, PutKeeps, DeleteKeeps DEF Provider
<1>4. CASE Time
  BY <1>4, TimePassesKeeps, ProofAgesKeeps, PutExpiresKeeps, DeleteExpiresKeeps,
     AbsenceSettlesKeeps DEF Time
<1>5. CASE UNCHANGED serviceVars
  BY <1>5, StutterKeeps
<1> QED BY <1>1, <1>2, <1>3, <1>4, <1>5 DEF Next

\* The invariant the promises of the hosted service rest on.
THEOREM HostedInvariance == Spec => []HostedInv
<1>1. HostedInv /\ [Next]_serviceVars => HostedInv'
  BY HostedStep
<1> QED BY HostedInit, <1>1, PTL DEF Spec

\* Whatever is cleaned up, replayed or delayed, every object that a published
\* snapshot announced is with the provider, byte for byte
\* (publish_checkpointed_staged_current against issue_cleanup_delete_grant).
THEOREM PublishedStaysStored == Spec => []PublishedIsStored
<1>1. HostedInv => PublishedIsStored
  BY NobodyAssumption DEF HostedInv, TypeOK, PublishedInv, KeptInv, PublishedIsStored,
     Objects
<1> QED BY <1>1, HostedInvariance, PTL

\* The account's totals are what its reservations and published objects add up
\* to, and within its allowance, after any number of retries and releases.
THEOREM LedgerAlwaysBalances == Spec => []LedgerBalances
<1>1. HostedInv => LedgerBalances
  BY DEF HostedInv
<1> QED BY <1>1, HostedInvariance, PTL

\* Nothing is stored that nobody pays for, but for the named exception of an
\* upload its own snapshot left out.
THEOREM EveryObjectIsCharged == Spec => []StoredIsCharged
<1>1. HostedInv => StoredIsCharged
  BY DEF HostedInv
<1> QED BY <1>1, HostedInvariance, PTL
-----------------------------------------------------------------------------
(* The service implements the protected history.                           *)

\* A step that leaves head, objects and published snapshots alone is a stutter.
LEMMA HistoryStays ==
  ASSUME UNCHANGED <<head, object>>,
         \A r \in Reservations : state'[r] = "published" <=> state[r] = "published",
         \A r \in Reservations : state[r] = "published" =>
           base'[r] = base[r] /\ staged'[r] = staged[r]
  PROVE  UNCHANGED History!vars
<1>1. [r \in Reservations |-> IF state[r] = "published" THEN base[r] ELSE Nobody]'
      = [r \in Reservations |-> IF state[r] = "published" THEN base[r] ELSE Nobody]
  OBVIOUS
<1>2. [r \in Reservations |-> IF state[r] = "published" THEN staged[r] ELSE {}]'
      = [r \in Reservations |-> IF state[r] = "published" THEN staged[r] ELSE {}]
  OBVIOUS
<1>3. {o \in Objects : object[o[1]] = o[2]}' = {o \in Objects : object[o[1]] = o[2]}
  OBVIOUS
<1> QED BY <1>1, <1>2, <1>3 DEF History!vars

\* Objects come and go at the provider, the published ones stay.
LEMMA HistoryChurns ==
  ASSUME HostedInv', UNCHANGED <<state, base, staged, head>>
  PROVE  \E objects \in SUBSET Objects : History!Churn(objects)
<1>1. PICK objects \in SUBSET Objects : objects = {o \in Objects : object[o[1]] = o[2]}'
  OBVIOUS
<1>2. \A r \in Reservations : state[r] = "published" => staged[r] \subseteq objects
  BY <1>1, NobodyAssumption DEF HostedInv, TypeOK, PublishedInv, KeptInv, Whole, Objects
<1>3. History!Churn(objects)
  BY <1>1, <1>2 DEF History!Churn
<1> QED BY <1>3

\* A publication appends the whole staged inventory to the head.
LEMMA HistoryAppends ==
  ASSUME HostedInv, NEW r \in Reservations, Publish(r), NEW objects, objects = staged[r]
  PROVE  History!Append(r, objects)
<1> DEFINE parent == [q \in Reservations |-> IF state[q] = "published" THEN base[q] ELSE Nobody]
           contents == [q \in Reservations |-> IF state[q] = "published" THEN staged[q] ELSE {}]
           readable == {o \in Objects : object[o[1]] = o[2]}
<1>1. /\ state[r] # "published" /\ state' = [state EXCEPT ![r] = "published"]
      /\ staged[r] # {} /\ base[r] = head /\ head' = r
      /\ UNCHANGED <<base, staged, object>>
  BY DEF Publish, PublishGuard, Usable, Whole, provider
<1>2. staged[r] \subseteq readable
  BY DEF Publish, PublishGuard, HostedInv, TypeOK, InventoryInv, Confirmed
<1>3. parent' = [parent EXCEPT ![r] = head]
  BY <1>1 DEF HostedInv, TypeOK
<1>4. contents' = [contents EXCEPT ![r] = staged[r]]
  BY <1>1 DEF HostedInv, TypeOK
<1>5. readable' = readable
  BY <1>1
<1>6. contents[r] = {}
  BY <1>1
<1> QED BY <1>1, <1>2, <1>3, <1>4, <1>5, <1>6 DEF History!Append, History!Line

LEMMA HistoryStep == HostedInv /\ HostedInv' /\ [Next]_serviceVars => [History!Next]_(History!vars)
<1> SUFFICES ASSUME HostedInv, HostedInv', [Next]_serviceVars
             PROVE  History!Next \/ UNCHANGED History!vars
  OBVIOUS
<1>1. ASSUME NEW r \in Reservations, Uploads(r) PROVE History!Next \/ UNCHANGED History!vars
  <2>1. CASE Publish(r)
    <3>1. PICK objects \in SUBSET Objects : objects = staged[r]
      BY DEF HostedInv, TypeOK
    <3>2. History!Append(r, objects)
      BY <2>1, <3>1, HistoryAppends
    <3> QED BY <3>1, <3>2 DEF History!Next
  <2>2. CASE Reserve(r) \/ Abandon(r)
    BY <2>2, HistoryStays DEF Reserve, Abandon, provider, HostedInv, TypeOK
  <2>3. ASSUME NEW o \in Objects, Page(r, o) PROVE UNCHANGED History!vars
    BY <2>3, HistoryStays DEF Page, Usable, provider, HostedInv
  <2>4. CASE \/ Renew(r)
             \/ \E k \in Keys : GrantPut(r, k)
             \/ \E objects \in SUBSET Objects : Declare(r, objects)
             \/ \E o \in Objects : Verify(r, o) \/ ReuseProof(r, o)
    BY <2>4, HistoryStays DEF Renew, GrantPut, Declare, Verify, ReuseProof, provider
  <2> QED BY <1>1, <2>1, <2>2, <2>3, <2>4 DEF Uploads
<1>2. ASSUME NEW r \in Reservations, Cleanup(r) PROVE UNCHANGED History!vars
  <2>1. CASE ClaimCleanup(r) \/ Release(r)
    BY <2>1, HistoryStays DEF ClaimCleanup, Release, Cleanable, provider, HostedInv, TypeOK
  <2>2. CASE \E k \in Keys : IssueDelete(r, k) \/ RecordAbsent(k, r)
    BY <2>2, HistoryStays DEF IssueDelete, RecordAbsent
  <2> QED BY <1>2, <2>1, <2>2 DEF Cleanup
<1>3. ASSUME NEW k \in Keys, NEW r \in Reservations, Provider(k, r) PROVE History!Next
  BY <1>3, HistoryChurns DEF Provider, Put, Delete, ledger, History!Next
<1>4. CASE Time
  BY <1>4, HistoryStays DEF Time, TimePasses, ProofAges, PutExpires, DeleteExpires,
     AbsenceSettles, ledger, provider
<1>5. CASE UNCHANGED serviceVars
  BY <1>5, HistoryStays DEF serviceVars, ledger, provider
<1> QED BY <1>1, <1>2, <1>3, <1>4, <1>5 DEF Next

\* The service implements ProtectedHistory: versions form one line, each was
\* appended to the version that was last when it was reserved, and whatever
\* the provider loses or cleanup deletes, every object of every version stays
\* readable.
THEOREM ServiceProtectsHistory == Spec => HistoryIsProtected
<1>1. Init => History!Init
  <2> SUFFICES ASSUME Init PROVE History!Init
    OBVIOUS
  <2>1. {o \in Objects : object[o[1]] = o[2]} = {}
    BY NobodyAssumption DEF Init, Objects
  <2> QED BY <2>1 DEF Init, History!Init
<1> QED BY <1>1, HistoryStep, HostedInvariance, PTL DEF Spec, HistoryIsProtected, History!Spec
=============================================================================
