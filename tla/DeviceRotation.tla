--------------------------- MODULE DeviceRotation ---------------------------
(***************************************************************************)
(* How the hosted backup's unattended run replaces the bearer of this Mac  *)
(* before it expires: vault_hosted_schedule.py, the references of          *)
(* vault_hosted_connection.py and rotate_device of the enrollment client,  *)
(* against rotate_device_session of the service.                           *)
(*                                                                         *)
(* Four records must agree after any crash: the schedule's configuration,  *)
(* the connection that the app and a manual backup use, the journal        *)
(* hosted-rotation.json, and the sessions the service accepts.  A request  *)
(* may be answered late or not at all, and may reach the service after the *)
(* run that sent it gave up.  All callers hold the account's update lock.  *)
(***************************************************************************)

CONSTANTS Devices,   \* identifiers the helper can create
          First,     \* the device the Mac was enrolled with
          NoDevice   \* an absent file

ASSUME DeviceAssumption == First \in Devices /\ NoDevice \notin Devices

VARIABLES sessions,  \* devices whose bearer the service accepts
          used,      \* devices the service has ever known
          flight,    \* rotate requests under way
          scheduled, \* the device in hosted-schedule.json
          bound,     \* the device in hosted-connection.json
          journal,   \* hosted-rotation.json
          step,      \* what the holder of the lock does next
          fresh,     \* the device it just created in the Keychain, or was given
          before     \* the two references, as they were when Enable began

deviceVars == <<sessions, used, flight, scheduled, bound, journal, step, fresh, before>>
files      == <<scheduled, bound, journal>>
service    == <<sessions, used, flight>>

Handoff   == [old : Devices, new : Devices]
NoHandoff == [old |-> NoDevice, new |-> NoDevice]
NoReferences == [bound |-> NoDevice, scheduled |-> NoDevice]
Steps == {"free", "start", "created", "rotate", "ask_old", "send", "confirm",
          "configure", "connect", "clear", "ready", "bind", "schedule", "load", "forget"}

RotationInit ==
    /\ sessions = {First} /\ used = {First} /\ flight = {}
    /\ scheduled = NoDevice /\ bound = NoDevice /\ journal = NoHandoff
    /\ step = "free" /\ fresh = NoDevice /\ before = NoReferences

Goes(s) == step' = s /\ UNCHANGED <<fresh, before>>
Frees   == step' = "free" /\ fresh' = NoDevice /\ before' = NoReferences

-----------------------------------------------------------------------------
(* The service. *)

\* The old bearer is revoked and the new one accepted, in one transaction.
Accepts(h) == h.old \in sessions /\ h.new \notin used
Rotated(h) == /\ sessions' = IF Accepts(h) THEN (sessions \ {h.old}) \cup {h.new} ELSE sessions
              /\ used' = IF Accepts(h) THEN used \cup {h.new} ELSE used

Arrive == \E h \in flight : /\ Rotated(h)
                            /\ flight' = flight \ {h}
                            /\ UNCHANGED <<files, step, fresh, before>>

Lose == \E h \in flight : /\ flight' = flight \ {h}
                          /\ UNCHANGED <<sessions, used, files, step, fresh, before>>

-----------------------------------------------------------------------------
(* _rotate_if_due, under the lock. *)

StartRun == /\ step = "free" /\ scheduled # NoDevice
            /\ Goes("start")
            /\ UNCHANGED <<service, files>>

\* A handoff whose device is scheduled already only waits for its clearing.
Resume == /\ step = "start" /\ journal # NoHandoff
          /\ \/ /\ journal.new = scheduled /\ scheduled \in sessions
                /\ Goes("connect")
             \/ /\ journal.new # scheduled /\ journal.old = scheduled
                /\ Goes("rotate")
          /\ UNCHANGED <<service, files>>

\* The bearer is renewed every few days; the references must agree first.
NotDue == /\ step = "start" /\ journal = NoHandoff
          /\ bound \in {NoDevice, scheduled}
          /\ Goes("ready")
          /\ UNCHANGED <<service, files>>

Create == /\ step = "start" /\ journal = NoHandoff
          /\ bound \in {NoDevice, scheduled}
          /\ \E d \in Devices \ (used \cup {scheduled}) : fresh' = d
          /\ step' = "created"
          /\ UNCHANGED <<service, files, before>>

\* The new identity is on disk before the service hears of it.
Journal == /\ step = "created"
           /\ journal' = [old |-> scheduled, new |-> fresh]
           /\ step' = "rotate" /\ fresh' = NoDevice
           /\ UNCHANGED <<service, scheduled, bound, before>>

\* An earlier request may have been accepted: the new bearer then resolves.
ResolveNew == /\ step = "rotate"
              /\ \/ journal.new \in sessions /\ Goes("configure")
                 \/ Goes("ask_old")       \* refused, or no answer
              /\ UNCHANGED <<service, files>>

ResolveOld == /\ step = "ask_old"
              /\ journal.old \in sessions
              /\ Goes("send")
              /\ UNCHANGED <<service, files>>

\* The one mutation is sent once, and its answer may not come.
Send == /\ step = "send"
        /\ flight' = flight \cup {journal}
        /\ Goes("confirm")
        /\ UNCHANGED <<sessions, used, files>>

\* (mutant) A request without an answer counts as done.
ConfirmUnproved == /\ step = "confirm"
                   /\ Goes("configure")
                   /\ UNCHANGED <<service, files>>

\* Its answer, or else an answer to the new bearer, proves the rotation.
Confirm == /\ step = "confirm"
           /\ journal.new \in sessions
           /\ Goes("configure")
           /\ UNCHANGED <<service, files>>

Configure == /\ step = "configure"
             /\ scheduled' = journal.new
             /\ Goes("connect")
             /\ UNCHANGED <<service, bound, journal>>

\* save_connection: the reference only moves from the journal's old device.
Connect == /\ step = "connect"
           /\ bound \in {NoDevice, journal.old, journal.new}
           /\ bound' = journal.new
           /\ Goes("clear")
           /\ UNCHANGED <<service, scheduled, journal>>

Clear == /\ step = "clear"
         /\ journal' = NoHandoff
         /\ Goes("ready")
         /\ UNCHANGED <<service, scheduled, bound>>

\* The run goes on to back up with the scheduled device, and ends.
Finish == /\ step = "ready"
          /\ Frees
          /\ UNCHANGED <<service, files>>

-----------------------------------------------------------------------------
(* Enabling and removing the schedule, refused while a handoff is pending. *)

\* The device the caller names, or the one the connection has moved to.
Enable == /\ step = "free" /\ journal = NoHandoff
          /\ \E d \in {First, bound} \cap sessions :
                /\ bound \in {NoDevice, d}
                /\ fresh' = d
          /\ before' = [bound |-> bound, scheduled |-> scheduled]
          /\ step' = "bind"
          /\ UNCHANGED <<service, files>>

Bind == /\ step = "bind"
        /\ bound' = fresh
        /\ Goes("schedule")
        /\ UNCHANGED <<service, scheduled, journal>>

Schedule == /\ step = "schedule"
            /\ scheduled' = fresh
            /\ Goes("load")
            /\ UNCHANGED <<service, bound, journal>>

\* launchd took the job.
Load == /\ step = "load"
        /\ Frees
        /\ UNCHANGED <<service, files>>

\* A failure puts the references back as they were.
RollBack == /\ step \in {"bind", "schedule", "load"}
            /\ bound' = before.bound /\ scheduled' = before.scheduled
            /\ Frees
            /\ UNCHANGED <<service, journal>>

\* The connection keeps the device before the schedule forgets it.
Remove == /\ step = "free" /\ journal = NoHandoff
          /\ scheduled # NoDevice
          /\ bound \in {NoDevice, scheduled}
          /\ bound' = scheduled
          /\ Goes("forget")
          /\ UNCHANGED <<service, scheduled, journal>>

Unschedule == /\ step = "forget"
              /\ scheduled' = NoDevice
              /\ Frees
              /\ UNCHANGED <<service, bound, journal>>

\* An error, a lost answer or a death: the files stay as they are.
Abort == /\ step # "free"
         /\ Frees
         /\ UNCHANGED <<service, files>>

RotationStep ==
    \/ Resume \/ NotDue \/ Create \/ Journal \/ ResolveNew \/ ResolveOld
    \/ Send \/ Confirm \/ Configure \/ Connect \/ Clear

RotationNext == \/ Arrive \/ Lose
                \/ StartRun \/ RotationStep \/ Finish
                \/ Enable \/ Bind \/ Schedule \/ Load \/ RollBack
                \/ Remove \/ Unschedule \/ Abort

RotationSpec == RotationInit /\ [][RotationNext]_deviceVars

-----------------------------------------------------------------------------
RotationTypeOK ==
    /\ sessions \subseteq used /\ used \subseteq Devices
    /\ flight \subseteq Handoff
    /\ scheduled \in Devices \cup {NoDevice} /\ bound \in Devices \cup {NoDevice}
    /\ journal \in Handoff \cup {NoHandoff}
    /\ step \in Steps
    /\ fresh \in Devices \cup {NoDevice}
    /\ before \in [bound : Devices \cup {NoDevice}, scheduled : Devices \cup {NoDevice}]

(* Wherever a run stopped and whenever its request arrived, this Mac can    *)
(* still sign in: with the scheduled device, or with the journal's new one. *)
(* And without a journal, the device the app uses is the one scheduled.     *)
DeviceIsUsable ==
    /\ scheduled # NoDevice =>
         scheduled \in sessions \/ (journal # NoHandoff /\ journal.new \in sessions)
    /\ journal = NoHandoff /\ bound # NoDevice =>
         bound \in sessions /\ scheduled \in {NoDevice, bound}

-----------------------------------------------------------------------------
(* The inductive invariant. *)

\* One bearer is accepted, and only the journal's request can change that.
ServiceInv == /\ \E d \in used : sessions = {d}
              /\ \A h \in flight : h.new \in used \/ h = journal

\* A handoff is between the two devices that may be accepted; the schedule
\* follows the service, never the other way round.
HandoffInv ==
    IF journal = NoHandoff
    THEN /\ scheduled \in sessions \cup {NoDevice}
         /\ bound \in sessions \cup {NoDevice}
    ELSE /\ journal.old # journal.new
         /\ sessions \subseteq {journal.old, journal.new}
         /\ journal.new \notin sessions => journal.new \notin used
         /\ IF journal.new \in sessions THEN scheduled \in {journal.old, journal.new}
                                        ELSE scheduled = journal.old

\* What the holder of the lock has made sure of.
StepInv ==
    /\ step = "start" => scheduled # NoDevice
    /\ step = "created" => /\ journal = NoHandoff
                           /\ scheduled # NoDevice
                           /\ fresh \in Devices \ (used \cup {scheduled})
    /\ step \in {"rotate", "ask_old", "send", "confirm"} =>
         journal # NoHandoff /\ scheduled = journal.old
    /\ step \in {"configure", "connect", "clear"} =>
         journal # NoHandoff /\ journal.new \in sessions
    /\ step \in {"connect", "clear"} => scheduled = journal.new
    /\ step = "clear" => bound = journal.new
    /\ step = "forget" => journal = NoHandoff
    /\ step \in {"bind", "schedule", "load"} =>
         /\ journal = NoHandoff
         /\ fresh \in sessions
         /\ before.bound \in sessions \cup {NoDevice}
         /\ before.scheduled \in sessions \cup {NoDevice}

RotationInv == RotationTypeOK /\ ServiceInv /\ HandoffInv /\ StepInv
=============================================================================
