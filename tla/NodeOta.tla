------------------------------- MODULE NodeOta -------------------------------
(***************************************************************************)
(* The over-the-air update of a node: one loop that takes commands,        *)
(* restarts when asked to, and checks, downloads and installs images; the  *)
(* two flash slots; and the validation of a new image at its first boot.   *)
(*                                                                         *)
(* Power may be lost at any moment: the slots, the boot selection and the  *)
(* expected artifact are in flash, all else is lost.  An image is known by *)
(* the version code it reports; a manifest may promise another one, when   *)
(* an artifact was catalogued wrongly.                                     *)
(*                                                                         *)
(* External, from ESP-IDF: the bootloader starts a selected new image once *)
(* and, if it was not confirmed, goes back to the other slot; the sketch,  *)
(* and not the Arduino core, confirms an image.                            *)
(***************************************************************************)
EXTENDS Naturals

CONSTANTS
  MaxCode,      \* images have the version codes 1 to MaxCode
  WifiTimeout,  \* how long a new image may look for the network
  Health        \* how long it must stay on it before it is confirmed

NodeOtaAssumption ==
  /\ MaxCode \in Nat \ {0} /\ WifiTimeout \in Nat \ {0} /\ Health \in Nat
ASSUME NodeOtaConstants == NodeOtaAssumption

Codes == 1..MaxCode
None == 0          \* no image, no promise
Slots == {"app0", "app1"}
Other(s) == IF s = "app0" THEN "app1" ELSE "app0"
Manifests == [promised : Codes, image : Codes, downgrade : BOOLEAN]

VARIABLES
  image,     \* code of the image of each slot, None while it is erased or partial
  mark,      \* the bootloader's mark of each slot
  boot,      \* slot selected for the next boot
  expected,  \* version code promised by the stored expectation
  pc,        \* "off", or where the loop is
  running,   \* slot the node runs
  state,     \* the state it reports
  flags,     \* check pending, reboot pending, verify pending
  restart,   \* a restart is scheduled
  manifest,  \* the manifest it installs
  wifi,      \* the network is there
  clock,     \* time since the boot of an unconfirmed image, and on the network
  stat,      \* a STAT was sent since the boot
  selectFailed  \* history: a boot selection has failed

flash == <<image, mark, boot, expected>>
radio == <<wifi, clock, stat>>
loop == <<pc, running, state, flags, restart, manifest>>
vars == <<flash, loop, radio, selectFailed>>

Flags == {"check", "reboot", "verify"}
Disconnected == Health + 1  \* not on the network yet: counts down to 0 once it is

TypeOK ==
  /\ image \in [Slots -> Codes \cup {None}]
  /\ mark \in [Slots -> {"new", "pending", "valid", "invalid"}]
  /\ boot \in Slots /\ running \in Slots /\ expected \in Codes \cup {None}
  /\ pc \in {"off", "ingress", "actions", "service", "write", "store", "select"}
  /\ state \in {"idle", "triggered", "downloading", "ready", "validating", "confirmed", "error"}
  /\ flags \subseteq Flags /\ restart \in BOOLEAN /\ wifi \in BOOLEAN /\ stat \in BOOLEAN
  /\ manifest \in Manifests
  /\ clock \in [boot : 0..WifiTimeout, health : 0..Disconnected]
  /\ selectFailed \in BOOLEAN

NoClock == [boot |-> 0, health |-> Disconnected]
Init ==
  /\ image = [s \in Slots |-> IF s = "app0" THEN 1 ELSE None]
  /\ mark = [s \in Slots |-> IF s = "app0" THEN "valid" ELSE "invalid"]
  /\ boot = "app0" /\ expected = None
  /\ pc = "off" /\ running = "app0" /\ state = "idle" /\ flags = {} /\ restart = FALSE
  /\ manifest = [promised |-> 1, image |-> 1, downgrade |-> FALSE]
  /\ wifi = FALSE /\ clock = NoClock /\ stat = FALSE
  /\ selectFailed = FALSE

-----------------------------------------------------------------------------
(* Power and the bootloader. *)
Off == /\ pc' = "off" /\ state' = "idle" /\ flags' = {} /\ restart' = FALSE
       /\ clock' = NoClock /\ stat' = FALSE /\ wifi' = FALSE
       /\ manifest' = [promised |-> 1, image |-> 1, downgrade |-> FALSE]
       /\ UNCHANGED selectFailed
PowerLoss == pc # "off" /\ Off /\ UNCHANGED <<flash, running>>

(* okuaOtaBegin: an image on trial is validated, and an expectation that   *)
(* no boot on trial goes with is dropped.                                  *)
Boots(s, onTrial) ==
  /\ running' = s /\ boot' = s /\ pc' = "ingress"
  /\ flags' = IF onTrial THEN {"verify"} ELSE {}
  /\ state' = IF onTrial THEN "validating" ELSE "idle"
  /\ expected' = IF onTrial THEN expected ELSE None
  /\ UNCHANGED <<image, restart, manifest, radio, selectFailed>>
(* The bootloader. *)
Boot ==
  /\ pc = "off"
  /\ \/ /\ image[boot] # None /\ mark[boot] = "new"
        /\ mark' = [mark EXCEPT ![boot] = "pending"] /\ Boots(boot, TRUE)
     \/ /\ image[boot] # None /\ mark[boot] = "valid"
        /\ UNCHANGED mark /\ Boots(boot, FALSE)
     \/ /\ image[boot] = None \/ mark[boot] \in {"pending", "invalid"}
        /\ image[Other(boot)] # None /\ mark[Other(boot)] = "valid"
        /\ mark' = [mark EXCEPT ![boot] = "invalid"] /\ Boots(Other(boot), FALSE)

(* The running image is given up: back to the other slot, if it can run.   *)
RollBack ==
  /\ mark' = [mark EXCEPT ![running] = "invalid"]
  /\ boot' = IF image[Other(running)] # None /\ mark[Other(running)] = "valid"
             THEN Other(running) ELSE boot
  /\ Off /\ UNCHANGED <<image, expected, running>>

-----------------------------------------------------------------------------
(* The network and time. *)
WifiChanges == pc # "off" /\ wifi' = ~wifi /\ UNCHANGED <<flash, loop, clock, stat, selectFailed>>
(* Time matters to the validation only. *)
Tick ==
  /\ pc # "off" /\ "verify" \in flags
  /\ clock' = [boot |-> IF clock.boot < WifiTimeout THEN clock.boot + 1 ELSE clock.boot,
               health |-> IF clock.health \in 1..Health THEN clock.health - 1
                          ELSE clock.health]
  /\ clock' # clock
  /\ UNCHANGED <<flash, loop, wifi, stat, selectFailed>>
SendStat ==
  /\ pc \in {"ingress", "actions"} /\ wifi
  /\ stat' = TRUE
  /\ UNCHANGED <<flash, loop, wifi, clock, selectFailed>>

\* Slip: nothing gives up an image that finds no network.
WifiNeverTimesOut == FALSE /\ UNCHANGED vars
(* While the network is away the loop waits for it, and no longer than an  *)
(* image on trial may.                                                     *)
WifiTimesOut ==
  /\ pc \in {"ingress", "actions", "service"} /\ ~wifi
  /\ "verify" \in flags /\ clock.boot = WifiTimeout
  /\ RollBack

-----------------------------------------------------------------------------
(* The loop: commands, then restarts, then the update service. *)
Loop(from, to) == pc = from /\ pc' = to

\* Slip: a check is accepted while a new image is on trial.
CheckNowOnTrial ==
  /\ Loop("ingress", "actions") /\ wifi
  /\ IF "check" \in flags
     THEN UNCHANGED <<flags, state>>
     ELSE flags' = flags \cup {"check"} /\ state' = "triggered"
  /\ UNCHANGED <<flash, running, restart, manifest, radio, selectFailed>>
(* OTA_CHECK_NOW: rejected as busy, or acknowledged and queued. *)
CheckNow ==
  /\ Loop("ingress", "actions") /\ wifi
  /\ IF {"check", "verify"} \cap flags # {} \/ state = "downloading"
     THEN UNCHANGED <<flags, state>>
     ELSE flags' = flags \cup {"check"} /\ state' = "triggered"
  /\ UNCHANGED <<flash, running, restart, manifest, radio, selectFailed>>
RebootSoft ==
  /\ Loop("ingress", "actions") /\ wifi
  /\ restart' = TRUE
  /\ UNCHANGED <<flash, running, state, flags, manifest, radio, selectFailed>>
NoCommand ==
  /\ Loop("ingress", "actions") /\ wifi
  /\ UNCHANGED <<flash, running, state, flags, restart, manifest, radio, selectFailed>>

(* servicePendingControlActions: the installed image asks for a restart,   *)
(* which is due a moment later.                                            *)
PendingActions ==
  /\ Loop("actions", "service")
  /\ restart' = (restart \/ "reboot" \in flags)
  /\ flags' = flags \ {"reboot"}
  /\ UNCHANGED <<flash, running, state, manifest, radio, selectFailed>>
Restart == pc = "actions" /\ restart /\ Off /\ UNCHANGED <<flash, running>>

(* maybeFinalizeBootValidation.  The main loop is ready whenever it runs.  *)
NoteNetwork ==
  /\ Loop("service", "ingress") /\ wifi /\ "verify" \in flags
  /\ clock.health = Disconnected
  /\ clock' = [clock EXCEPT !.health = Health] /\ state' = "validating"
  /\ UNCHANGED <<flash, running, flags, restart, manifest, wifi, stat, selectFailed>>
\* Slip: the image is confirmed without comparing it with the expectation.
IdentityUnchecked == TRUE
(* bootIdentityMatchesExpectation. *)
IdentityMatches == expected = None \/ expected = image[running]
Finalize ==
  /\ Loop("service", "ingress") /\ wifi /\ "verify" \in flags /\ clock.health = 0
  /\ stat /\ IdentityMatches
  /\ mark' = [mark EXCEPT ![running] = "valid"] /\ expected' = None
  /\ flags' = flags \ {"verify"} /\ state' = "confirmed" /\ clock' = NoClock
  /\ UNCHANGED <<image, boot, running, restart, manifest, wifi, stat, selectFailed>>
(* No STAT, another identity, or the mark cannot be written. *)
FailsValidation ==
  /\ pc = "service" /\ wifi /\ "verify" \in flags /\ clock.health = 0
  /\ RollBack

(* The service has nothing to do, or not yet. *)
ServiceRests ==
  /\ Loop("service", "ingress")
  /\ ("check" \notin flags \/ ~wifi \/ state \in {"ready", "validating"})
  /\ ("verify" \in flags => IF wifi THEN clock.health \in 1..Health
                            ELSE clock.boot < WifiTimeout)
  /\ UNCHANGED <<flash, running, state, flags, restart, manifest, radio, selectFailed>>

-----------------------------------------------------------------------------
(* performPendingCheck. *)
Fails == pc' = "ingress" /\ state' = "error" /\ flags' = flags \ {"check"}
(* The manifest is not served, is malformed, of another target, or refused.*)
CheckFails ==
  /\ pc = "service" /\ "check" \in flags /\ wifi /\ state \notin {"ready", "validating"}
  /\ Fails
  /\ UNCHANGED <<flash, running, restart, manifest, radio, selectFailed>>
Accepts(m) == m.promised > image[running] \/ m.downgrade
(* The slot that is not running is erased and written. *)
StartDownload ==
  /\ pc = "service" /\ "check" \in flags /\ wifi /\ state \notin {"ready", "validating"}
  /\ \E m \in Manifests : Accepts(m) /\ manifest' = m
  /\ image' = [image EXCEPT ![Other(running)] = None]
  /\ state' = "downloading" /\ pc' = "write"
  /\ UNCHANGED <<mark, boot, expected, running, flags, restart, radio, selectFailed>>
(* The stream breaks, has another size or another digest. *)
DownloadFails ==
  /\ pc = "write"
  /\ Fails
  /\ UNCHANGED <<flash, running, restart, manifest, radio, selectFailed>>
DownloadEnds ==
  /\ Loop("write", "store")
  /\ image' = [image EXCEPT ![Other(running)] = manifest.image]
  /\ UNCHANGED <<mark, boot, expected, running, state, flags, restart, manifest, radio,
                 selectFailed>>
StoreExpectation ==
  /\ Loop("store", "select")
  /\ expected' = manifest.promised
  /\ UNCHANGED <<image, mark, boot, running, state, flags, restart, manifest, radio, selectFailed>>
StoreFails ==
  /\ pc = "store"
  /\ expected' \in {expected, manifest.promised}
  /\ Fails
  /\ UNCHANGED <<image, mark, boot, running, restart, manifest, radio, selectFailed>>
Select ==
  /\ Loop("select", "ingress")
  /\ boot' = Other(running) /\ mark' = [mark EXCEPT ![Other(running)] = "new"]
  /\ state' = "ready" /\ flags' = (flags \ {"check"}) \cup {"reboot"}
  /\ UNCHANGED <<image, expected, running, restart, manifest, radio, selectFailed>>
(* Clears the expectation, also one an earlier installation stored. *)
SelectionFails ==
  /\ pc = "select"
  /\ expected' = None /\ selectFailed' = TRUE
  /\ Fails
  /\ UNCHANGED <<image, mark, boot, running, restart, manifest, radio>>

-----------------------------------------------------------------------------
Validation == NoteNetwork \/ Finalize \/ FailsValidation \/ WifiTimesOut
Service == ServiceRests \/ CheckFails \/ StartDownload \/ Validation
Install == \/ DownloadFails \/ DownloadEnds \/ StoreExpectation \/ StoreFails
           \/ Select \/ SelectionFails
Commands == CheckNow \/ RebootSoft \/ NoCommand
Next == \/ PowerLoss \/ Boot \/ WifiChanges \/ Tick \/ SendStat
        \/ Commands \/ PendingActions \/ Restart \/ Service \/ Install
(* The loop goes on whenever it can, time passes and a restart comes due;  *)
(* a node that is off is switched on.  Nothing is said of the network.     *)
Spec == /\ Init /\ [][Next]_vars
        /\ WF_vars(Boot) /\ WF_vars(Tick) /\ SF_vars(Restart)
        /\ WF_vars(Commands \/ PendingActions \/ Service \/ Install)

-----------------------------------------------------------------------------
(* There is always an image that has proved itself to go back to: whatever *)
(* is installed, interrupted or rolled back, the node can be started.      *)
NeverBricked == \E s \in Slots : image[s] # None /\ mark[s] = "valid"

(* A new image is confirmed only on the network, once it was heard, and as *)
(* the one that the stored expectation promises.                           *)
Confirms(s) == mark[s] = "pending" /\ mark'[s] = "valid"
IsTheExpected(s) == s = running /\ wifi /\ stat /\ expected = image[s]
ConfirmedIsExpected == [][\A s \in Slots : Confirms(s) => IsTheExpected(s)]_vars

(* The node never takes a version older than, or equal to, the one it runs.*)
Takes == pc = "service" /\ pc' = "write"
InstallsNewerOnly == [][Takes => manifest'.promised > image[running]]_vars

(* As long as no boot selection has failed, a new image is confirmed only  *)
(* as the expected one; and without the manifest's flag for a downgrade    *)
(* the node takes only a version newer than the one it runs.               *)
ConfirmsTheExpected == ~selectFailed => \A s \in Slots : Confirms(s) => IsTheExpected(s)
TakesNewer == Takes => manifest'.promised > image[running] \/ manifest'.downgrade
InstallIsSound == [][ConfirmsTheExpected /\ TakesNewer]_vars

(* A trial ends: the image is confirmed or the node goes back, also when   *)
(* the network comes and goes.                                             *)
TrialEnds == (pc # "off" /\ "verify" \in flags) ~> (pc = "off" \/ "verify" \notin flags)

(* An installed image is restarted into, if the network does not stay away *)
(* meanwhile, whatever else is asked of the node.                          *)
InstalledIsStarted == (state = "ready") ~> (pc = "off" \/ ~wifi)
=============================================================================
