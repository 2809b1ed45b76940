---------------------------- MODULE HostedPairing ----------------------------
(***************************************************************************)
(* How a Mac is bound to a purchase, once to set its backup up and once to *)
(* recover one: the pairing steps of vault_hosted_setup_flow.py and        *)
(* vault_hosted_recovery_flow.py, their client                             *)
(* (vault_hosted_enrollment_client.py), the registry they save into        *)
(* (state.py) and the service that binds a device (hosted/enrollment.js,   *)
(* migrations 0004, 0005 and 0017).                                        *)
(*                                                                         *)
(* A device is the number of its Keychain item, a code that of its mail,   *)
(* 0 meaning none.  A recovery has one vault to choose, so the vault saved *)
(* with its device is left out; the limit of sixteen devices is far off.   *)
(***************************************************************************)
EXTENDS Naturals

CONSTANTS MaxMinted,  \* bound: Keychain items created
          MaxCodes    \* bound: codes mailed for each flow

ASSUME PairingAssumption == MaxMinted \in Nat /\ MaxCodes \in Nat

VARIABLES registry,  \* state.json: what the app reads when it starts
          durable,   \* what of it a power loss cannot take back
          wizard,    \* the memory of each flow
          doing,     \* the step under way: one for the whole app
          minted,    \* Keychain items created so far
          account,   \* the service: enrollment, codes and bound devices
          claims     \* claims on their way to the service

pairingVars == <<registry, durable, wizard, doing, minted, account, claims>>

Flows   == {"setup", "recovery"}
Blank   == [setup |-> 0, recovery |-> 0, bound |-> FALSE,
            key |-> 0, confirmed |-> FALSE, backup |-> 0]
Resting == [flow |-> "setup", pc |-> "none"]
Free    == doing.pc = "none"

\* A flow as its constructor makes it.
Opening(r, f) == [phase   |-> IF r[f] = 0 THEN "start" ELSE "pairing_uncertain",
                  device  |-> r[f], bound |-> f = "setup" /\ r.bound,
                  tried   |-> r[f] # 0, code |-> 0,
                  receipt |-> f = "setup" /\ r.backup # 0]

PairingInit == /\ registry = Blank /\ durable = Blank
               /\ wizard = [f \in Flows |-> Opening(Blank, f)]
               /\ doing = Resting /\ minted = 0 /\ claims = {}
               /\ \E enrolled \in BOOLEAN :
                     account = [enrolled |-> enrolled,
                                codes |-> [f \in Flows |-> 0],
                                good  |-> [f \in Flows |-> FALSE],
                                bound |-> [f \in Flows |-> {}]]

\* Where a connection that is confirmed goes on.
Settled(w) == IF registry.confirmed
              THEN IF w.receipt THEN "backup_ready" ELSE "key_ready"
              ELSE "paired"

\* A step that ends drops the proof it can no longer use.
Ended(w) == IF w.phase \in {"pairing_uncertain", "paired"} THEN [w EXCEPT !.code = 0] ELSE w

-----------------------------------------------------------------------------
(* The steps before a claim. *)

\* A code is mailed: never for a second enrollment, nor for a recovery before
\* the first.  The mail, the record of it or the answer may fail.
SendCode(f) ==
    /\ Free /\ wizard[f].phase \in {"start", "email"}
    /\ account.codes[f] < MaxCodes
    /\ account.enrolled <=> f = "recovery"
    /\ \E sent, answered \in BOOLEAN :
          /\ account' = [account EXCEPT !.codes[f] = @ + 1, !.good[f] = sent]
          /\ wizard' = IF sent /\ answered
                       THEN [wizard EXCEPT ![f].phase = "email", ![f].code = 0]
                       ELSE wizard
    /\ UNCHANGED <<registry, durable, doing, minted, claims>>

\* The code lists the vaults and is not used up by that.
ListVaults ==
    /\ Free /\ wizard["recovery"].phase = "email" /\ account.good["recovery"]
    /\ wizard' = [wizard EXCEPT !["recovery"].phase = "vaults",
                                !["recovery"].code = account.codes["recovery"]]
    /\ UNCHANGED <<registry, durable, doing, minted, account, claims>>

\* The code the person types may be one that a newer mail replaced.
PairSetup ==
    /\ Free /\ wizard["setup"].phase = "email"
    /\ \E c \in 1..account.codes["setup"] : wizard' = [wizard EXCEPT !["setup"].code = c]
    /\ doing' = [flow |-> "setup", pc |-> "create"]
    /\ UNCHANGED <<registry, durable, minted, account, claims>>

PairRecovery ==
    /\ Free /\ wizard["recovery"].phase \in {"vaults", "pairing_checkpoint"}
    /\ doing' = [flow |-> "recovery", pc |-> "create"]
    /\ UNCHANGED <<registry, durable, wizard, minted, account, claims>>

\* The device is the saved one, or a new Keychain item.
CreateOnce ==
    /\ doing.pc = "create"
    /\ LET f == doing.flow
           n == IF wizard[f].device = 0 THEN minted + 1 ELSE wizard[f].device
       IN  /\ n <= MaxMinted
           /\ minted' = IF n > minted THEN n ELSE minted
           /\ wizard' = [wizard EXCEPT ![f].device = n, ![f].phase = "pairing_checkpoint"]
    /\ doing' = [doing EXCEPT !.pc = "save"]
    /\ UNCHANGED <<registry, durable, account, claims>>

RetrySave == /\ Free /\ wizard["setup"].phase = "pairing_checkpoint"
             /\ doing' = [flow |-> "setup", pc |-> "save"]
             /\ UNCHANGED <<registry, durable, wizard, minted, account, claims>>

Saving(f) == IF f = "setup"
             THEN [registry EXCEPT !.setup = wizard[f].device, !.bound = wizard[f].bound]
             ELSE [registry EXCEPT !.recovery = wizard[f].device]

Save == /\ doing.pc = "save"
        /\ registry' = Saving(doing.flow)
        /\ doing' = [doing EXCEPT !.pc = "sync"]
        /\ UNCHANGED <<durable, wizard, minted, account, claims>>

\* sync_recovery_checkpoint: only then is the pairing uncertain.
SyncDevice ==
    /\ doing.pc = "sync"
    /\ durable' = registry
    /\ wizard' = [wizard EXCEPT ![doing.flow].phase = "pairing_uncertain"]
    /\ doing' = [doing EXCEPT !.pc = IF wizard[doing.flow].tried THEN "resolve" ELSE "claim"]
    /\ UNCHANGED <<registry, minted, account, claims>>

-----------------------------------------------------------------------------
(* The claim. *)

Known(f) == wizard[f].device \in account.bound[f]

\* An earlier claim may have gone through; no answer counts as none.
ResolveFirst == /\ doing.pc = "resolve"
                /\ \/ Known(doing.flow) /\ doing' = [doing EXCEPT !.pc = "accept"]
                   \/ doing' = [doing EXCEPT !.pc = "claim"]
                /\ UNCHANGED <<registry, durable, wizard, minted, account, claims>>

SendClaim == /\ doing.pc = "claim"
             /\ claims' = claims \cup {[flow |-> doing.flow, code |-> wizard[doing.flow].code,
                                        device |-> wizard[doing.flow].device]}
             /\ wizard' = [wizard EXCEPT ![doing.flow].tried = TRUE]
             /\ doing' = [doing EXCEPT !.pc = "answer"]
             /\ UNCHANGED <<registry, durable, minted, account>>

\* claim_and_pair_first_device, claim_recovery_vault_device: the code is used
\* up with the binding, and a device that is bound already is refused.
Takes(c) == /\ account.good[c.flow] /\ c.code = account.codes[c.flow]
            /\ account.enrolled <=> c.flow = "recovery"
            /\ \A f \in Flows : c.device \notin account.bound[f]

Bound(c) == [account EXCEPT !.enrolled = TRUE, !.good[c.flow] = FALSE,
                            !.bound[c.flow] = @ \cup {c.device}]

Awaited(c) == /\ doing.pc = "answer" /\ doing.flow = c.flow
              /\ wizard[c.flow].device = c.device /\ wizard[c.flow].code = c.code

\* A claim arrives, for an app that still waits or one that gave up.
ClaimArrives ==
    \E c \in claims :
        /\ claims' = claims \ {c}
        /\ \/ /\ Takes(c) /\ account' = Bound(c)
              /\ doing' = IF Awaited(c) THEN [doing EXCEPT !.pc = "accept"] ELSE doing
              /\ UNCHANGED wizard
           \/ /\ Takes(c) => Awaited(c)
              /\ account' = IF Takes(c) THEN Bound(c) ELSE account  \* the answer is lost
              /\ doing' = IF Awaited(c) THEN Resting ELSE doing
              /\ wizard' = IF Awaited(c) THEN [wizard EXCEPT ![c.flow] = Ended(@)] ELSE wizard
        /\ UNCHANGED <<registry, durable, minted>>

ClaimIsLost == /\ \E c \in claims : claims' = claims \ {c}
               /\ UNCHANGED <<registry, durable, wizard, doing, minted, account>>

\* _accept saves the whole identity before the connection counts as confirmed.
AcceptSetup == /\ doing = [flow |-> "setup", pc |-> "accept"]
               /\ wizard' = [wizard EXCEPT !["setup"].bound = TRUE]
               /\ registry' = [registry EXCEPT !.setup = wizard["setup"].device, !.bound = TRUE]
               /\ doing' = [doing EXCEPT !.pc = "settle"]
               /\ UNCHANGED <<durable, minted, account, claims>>

SyncIdentity ==
    /\ doing.pc = "settle"
    /\ durable' = registry
    /\ wizard' = [wizard EXCEPT !["setup"].phase = Settled(wizard["setup"]),
                                !["setup"].code = 0]
    /\ doing' = Resting
    /\ UNCHANGED <<registry, minted, account, claims>>

AcceptRecovery == /\ doing = [flow |-> "recovery", pc |-> "accept"]
                  /\ wizard' = [wizard EXCEPT !["recovery"].phase = "paired",
                                              !["recovery"].code = 0]
                  /\ doing' = Resting
                  /\ UNCHANGED <<registry, durable, minted, account, claims>>

\* "Check the connection", also after a restart.
Resolve(f) ==
    /\ Free /\ wizard[f].phase \in {"pairing_uncertain", "paired", "key_ready", "backup_ready"}
    /\ wizard' = IF f = "setup" THEN [wizard EXCEPT ![f].phase = "pairing_uncertain"]
                                ELSE wizard
    /\ doing' = [flow |-> f, pc |-> "ask"]
    /\ UNCHANGED <<registry, durable, minted, account, claims>>

\* With a confirmed key the identity is only compared.
Asked == /\ doing.pc = "ask" /\ Known(doing.flow)
         /\ IF doing.flow = "setup" /\ registry.confirmed
            THEN /\ wizard' = [wizard EXCEPT !["setup"].phase = Settled(wizard["setup"]),
                                             !["setup"].code = 0]
                 /\ doing' = Resting
            ELSE /\ doing' = [doing EXCEPT !.pc = "accept"] /\ UNCHANGED wizard
         /\ UNCHANGED <<registry, durable, minted, account, claims>>

\* Fresh proof is asked for; the device stays.
Reauthorize(f) ==
    /\ Free /\ wizard[f].phase = "pairing_uncertain"
    /\ wizard' = [wizard EXCEPT ![f].phase = "start", ![f].code = 0]
    /\ UNCHANGED <<registry, durable, doing, minted, account, claims>>

\* A step fails: the registry, a sync, the helper or the network.  One that
\* works in a recovery folder ends as HostedRecovery says.
StepFails == /\ doing.pc \notin {"none", "folder"}
             /\ wizard' = [wizard EXCEPT ![doing.flow] = Ended(@)]
             /\ doing' = Resting
             /\ UNCHANGED <<registry, durable, minted, account, claims>>

\* The app is started again, after its death or a loss of power.
Reopened(r) == /\ registry' = r /\ doing' = Resting
               /\ wizard' = [f \in Flows |-> Opening(r, f)]

Reopens == /\ \/ Reopened(registry) /\ UNCHANGED durable
              \/ Reopened(durable) /\ UNCHANGED durable
           /\ UNCHANGED <<minted, account, claims>>

PairingStep ==
    \/ \E f \in Flows : SendCode(f) \/ Resolve(f) \/ Reauthorize(f)
    \/ ListVaults \/ PairSetup \/ PairRecovery \/ CreateOnce \/ RetrySave
    \/ Save \/ SyncDevice \/ ResolveFirst \/ SendClaim \/ ClaimArrives \/ ClaimIsLost
    \/ AcceptSetup \/ SyncIdentity \/ AcceptRecovery \/ Asked \/ StepFails

PairingNext == PairingStep \/ Reopens

PairingSpec == PairingInit /\ [][PairingNext]_pairingVars

-----------------------------------------------------------------------------
(* Every device the service bound, or may still bind when a late claim      *)
(* arrives, is the one this Mac has saved for good: no lost answer, restart *)
(* or loss of power leaves a binding that no later start can take up again. *)
BindingsAreSaved ==
    /\ \A f \in Flows : account.bound[f] \subseteq {durable[f]}
    /\ \A c \in claims : c.device = durable[c.flow]
-----------------------------------------------------------------------------
(* The inductive invariant. *)

SetupPhases    == {"start", "email", "pairing_checkpoint", "pairing_uncertain"}
PairedPhases   == {"paired", "key_save", "key_ready", "backup_ready", "pending_upload",
                   "deletion_review"}
RecoveryPhases == {"vaults", "versions", "prepared", "key_verified", "verified"}

\* Steps that know their device, and that saved it for good.
Knowing == {"save", "sync"}
Saved   == {"resolve", "claim", "answer", "accept"}

Records  == [setup : Nat, recovery : Nat, bound : BOOLEAN,
             key : Nat, confirmed : BOOLEAN, backup : Nat]
Memories == [phase : SetupPhases \cup PairedPhases \cup RecoveryPhases, device : Nat,
             bound : BOOLEAN, tried : BOOLEAN, code : Nat, receipt : BOOLEAN]
Works    == [flow : Flows,
             pc : {"none", "create", "ask", "settle", "folder", "draw", "synckey", "file",
                   "make", "synccopy", "backup", "record"} \cup Knowing \cup Saved]
Accounts == [enrolled : BOOLEAN, codes : [Flows -> Nat], good : [Flows -> BOOLEAN],
             bound : [Flows -> SUBSET Nat]]
Claims   == [flow : Flows, code : Nat, device : Nat]

PairingTypeOK ==
    /\ registry \in Records /\ durable \in Records
    /\ wizard \in [Flows -> Memories] /\ doing \in Works
    /\ minted \in Nat /\ account \in Accounts /\ claims \subseteq Claims

\* A device is never replaced by another, in memory, in state.json or for good.
DeviceInv ==
    \A f \in Flows :
        /\ durable[f] \in {0, registry[f]} /\ registry[f] \in {0, wizard[f].device}
        /\ wizard[f].phase = "pairing_checkpoint" => wizard[f].device # 0
        /\ account.bound[f] \subseteq {durable[f]} \ {0}
        /\ \A c \in claims : c.flow = f => c.device = durable[f] /\ c.device # 0
        /\ doing.flow = f =>
             /\ doing.pc \in Knowing \cup Saved => wizard[f].device # 0
             /\ doing.pc = "sync" => registry[f] = wizard[f].device
             /\ doing.pc \in Saved => durable[f] = wizard[f].device

PairingInv == PairingTypeOK /\ DeviceInv
=============================================================================
