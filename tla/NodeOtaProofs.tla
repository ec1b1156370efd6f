---------------------------- MODULE NodeOtaProofs ----------------------------
(***************************************************************************)
(* What NodeOta promises of a node's flash, for any number of version      *)
(* codes, any manifests and any loss of power: a slot that proved itself   *)
(* stays, and a new image is confirmed only as the expected one.           *)
(***************************************************************************)
EXTENDS NodeOta, TLAPS

(* Which image runs: the bootloader starts only slots with an image, and   *)
(* the loop validates it exactly while the bootloader has it on trial.     *)
OnTrial == pc # "off" /\ "verify" \in flags
RunsAnImage ==
  pc # "off" =>
    /\ image[running] # None
    /\ mark[running] \in {"valid", "pending"}
    /\ "verify" \in flags <=> mark[running] = "pending"

(* A trial keeps the other slot as it is: nothing is checked, downloaded   *)
(* or selected until the trial has ended.                                  *)
TrialIsAlone ==
  OnTrial => /\ boot = running /\ "check" \notin flags
             /\ pc \in {"ingress", "actions", "service"}

(* While no boot selection failed, the image selected for its first boot,  *)
(* and the one on trial, have an expectation to be compared with.          *)
ExpectationIsKept ==
  /\ pc = "select" => expected # None
  /\ ~selectFailed => /\ mark[boot] = "new" => expected # None
                      /\ OnTrial => expected # None

NodeInv ==
  /\ TypeOK
  /\ RunsAnImage
  /\ TrialIsAlone
  /\ NeverBricked
  /\ ExpectationIsKept

-----------------------------------------------------------------------------
(* A node that goes off forgets what is not in flash.                      *)
LEMMA OffIsTyped ==
  ASSUME Off
  PROVE  manifest' \in Manifests /\ clock' \in [boot : 0..WifiTimeout, health : 0..Disconnected]
<1>1. 1 \in Codes /\ 0 \in 0..WifiTimeout /\ Disconnected \in 0..Disconnected
  BY NodeOtaConstants DEF NodeOtaAssumption, Codes, Disconnected
<1>2. manifest' \in Manifests BY <1>1 DEF Off, Manifests
<1>3. clock' \in [boot : 0..WifiTimeout, health : 0..Disconnected]
  BY <1>1 DEF Off, NoClock
<1> QED BY <1>2, <1>3

LEMMA TypesAreKept ==
  ASSUME TypeOK, [Next]_vars
  PROVE  TypeOK'
<1> USE NodeOtaConstants DEF NodeOtaAssumption, TypeOK, Slots, Codes, None, Manifests, Flags,
        Other, Disconnected, NoClock, flash, radio, loop
<1>1. CASE PowerLoss
  <2>1. Off BY <1>1 DEF PowerLoss
  <2> HIDE DEF Manifests, Codes, Disconnected
  <2> QED BY <1>1, <2>1, OffIsTyped DEF PowerLoss, Off
<1>2. CASE Boot BY <1>2 DEF Boot, Boots
<1>3. CASE WifiChanges BY <1>3 DEF WifiChanges
<1>4. CASE Tick BY <1>4 DEF Tick
<1>5. CASE SendStat BY <1>5 DEF SendStat
<1>6. CASE CheckNow BY <1>6, ZenonT(30) DEF CheckNow, Loop
<1>7. CASE RebootSoft BY <1>7 DEF RebootSoft, Loop
<1>8. CASE NoCommand BY <1>8 DEF NoCommand, Loop
<1>9. CASE PendingActions BY <1>9 DEF PendingActions, Loop
<1>10. CASE Restart
  <2>1. Off BY <1>10 DEF Restart
  <2> HIDE DEF Manifests, Codes, Disconnected
  <2> QED BY <1>10, <2>1, OffIsTyped DEF Restart, Off
<1>11. CASE ServiceRests BY <1>11 DEF ServiceRests, Loop
<1>12. CASE CheckFails BY <1>12 DEF CheckFails, Fails
<1>13. CASE StartDownload BY <1>13 DEF StartDownload
<1>14. CASE NoteNetwork BY <1>14 DEF NoteNetwork, Loop
<1>15. CASE Finalize BY <1>15 DEF Finalize, Loop
<1>16. CASE FailsValidation
  <2>1. Off BY <1>16 DEF FailsValidation, RollBack
  <2> HIDE DEF Manifests, Codes, Disconnected
  <2> QED BY <1>16, <2>1, OffIsTyped DEF FailsValidation, RollBack, Off
<1>17. CASE WifiTimesOut
  <2>1. Off BY <1>17 DEF WifiTimesOut, RollBack
  <2> HIDE DEF Manifests, Codes, Disconnected
  <2> QED BY <1>17, <2>1, OffIsTyped DEF WifiTimesOut, RollBack, Off
<1>18. CASE DownloadFails BY <1>18 DEF DownloadFails, Fails
<1>19. CASE DownloadEnds BY <1>19 DEF DownloadEnds, Loop
<1>20. CASE StoreExpectation BY <1>20 DEF StoreExpectation, Loop
<1>21. CASE StoreFails BY <1>21 DEF StoreFails, Fails
<1>22. CASE Select BY <1>22 DEF Select, Loop
<1>23. CASE SelectionFails BY <1>23 DEF SelectionFails, Fails
<1>24. CASE UNCHANGED vars BY <1>24 DEF vars
<1> QED BY <1>1, <1>2, <1>3, <1>4, <1>5, <1>6, <1>7, <1>8, <1>9, <1>10, <1>11, <1>12, <1>13, <1>14,
           <1>15, <1>16, <1>17, <1>18, <1>19, <1>20, <1>21, <1>22, <1>23, <1>24
           DEF Next, Commands, Service, Validation, Install

LEMMA FlashIsKept ==
  ASSUME NodeInv, [Next]_vars
  PROVE  (RunsAnImage /\ TrialIsAlone /\ NeverBricked /\ ExpectationIsKept)'
<1> USE DEF NodeInv, TypeOK, Slots, Other, RunsAnImage, TrialIsAlone, NeverBricked,
        ExpectationIsKept, OnTrial, flash, radio, loop
<1>0. manifest.promised # None
  BY NodeOtaConstants DEF NodeOtaAssumption, Manifests, Codes, None
<1>1. CASE PowerLoss BY <1>1 DEF PowerLoss, Off
<1>2. CASE Boot BY <1>2 DEF Boot, Boots
<1>3. CASE WifiChanges BY <1>3 DEF WifiChanges
<1>4. CASE Tick BY <1>4 DEF Tick
<1>5. CASE SendStat BY <1>5 DEF SendStat
<1>6. CASE CheckNow BY <1>6 DEF CheckNow, Loop
<1>7. CASE RebootSoft BY <1>7 DEF RebootSoft, Loop
<1>8. CASE NoCommand BY <1>8 DEF NoCommand, Loop
<1>9. CASE PendingActions BY <1>9 DEF PendingActions, Loop
<1>10. CASE Restart BY <1>10 DEF Restart, Off
<1>11. CASE ServiceRests BY <1>11 DEF ServiceRests, Loop
<1>12. CASE CheckFails BY <1>12 DEF CheckFails, Fails
<1>13. CASE StartDownload BY <1>13 DEF StartDownload
<1>14. CASE NoteNetwork BY <1>14 DEF NoteNetwork, Loop
<1>15. CASE Finalize BY <1>15 DEF Finalize, Loop
<1>16. CASE FailsValidation BY <1>16 DEF FailsValidation, RollBack, Off
<1>17. CASE WifiTimesOut BY <1>17 DEF WifiTimesOut, RollBack, Off
<1>18. CASE DownloadFails BY <1>18 DEF DownloadFails, Fails
<1>19. CASE DownloadEnds BY <1>19 DEF DownloadEnds, Loop
<1>20. CASE StoreExpectation BY <1>20, <1>0 DEF StoreExpectation, Loop
<1>21. CASE StoreFails BY <1>21, <1>0 DEF StoreFails, Fails
<1>22. CASE Select BY <1>22 DEF Select, Loop
<1>23. CASE SelectionFails BY <1>23 DEF SelectionFails, Fails
<1>24. CASE UNCHANGED vars BY <1>24 DEF vars
<1> QED BY <1>1, <1>2, <1>3, <1>4, <1>5, <1>6, <1>7, <1>8, <1>9, <1>10, <1>11, <1>12, <1>13, <1>14,
           <1>15, <1>16, <1>17, <1>18, <1>19, <1>20, <1>21, <1>22, <1>23, <1>24
           DEF Next, Commands, Service, Validation, Install

-----------------------------------------------------------------------------
LEMMA InvariantHolds == Spec => []NodeInv
<1>1. Init => NodeInv
  <2> SUFFICES ASSUME Init PROVE NodeInv
    OBVIOUS
  <2>1. 1 \in Codes /\ 0 \in 0..WifiTimeout /\ Disconnected \in 0..Disconnected
    BY NodeOtaConstants DEF NodeOtaAssumption, Codes, Disconnected
  <2>2. manifest \in Manifests BY <2>1 DEF Init, Manifests
  <2>3. clock \in [boot : 0..WifiTimeout, health : 0..Disconnected]
    BY <2>1 DEF Init, NoClock
  <2>4. TypeOK BY <2>1, <2>2, <2>3 DEF Init, TypeOK, Slots, Flags
  <2>5. NeverBricked BY DEF Init, NeverBricked, Slots, None
  <2>6. RunsAnImage /\ TrialIsAlone /\ ExpectationIsKept
    BY DEF Init, RunsAnImage, TrialIsAlone, ExpectationIsKept, OnTrial, Slots
  <2> QED BY <2>4, <2>5, <2>6 DEF NodeInv
<1>2. NodeInv /\ [Next]_vars => NodeInv'
  BY TypesAreKept, FlashIsKept DEF NodeInv
<1> QED BY <1>1, <1>2, PTL DEF Spec

(* A node whose power is lost, whose network comes and goes and whose      *)
(* manifests are wrong still has a slot it can start from.                 *)
THEOREM NodeIsNeverBricked == Spec => []NeverBricked
<1>1. NodeInv => NeverBricked BY DEF NodeInv
<1> QED BY <1>1, InvariantHolds, PTL

(* Every step keeps its word about installing: as long as no selection has *)
(* failed a new image is confirmed only as the expected one, on the        *)
(* network and heard; and no version is taken that is not newer, unless    *)
(* its manifest allows a downgrade.                                        *)
THEOREM InstallationIsSound == Spec => InstallIsSound
<1>1. NodeInv /\ [Next]_vars => [ConfirmsTheExpected /\ TakesNewer]_vars
  <2> SUFFICES ASSUME NodeInv, Next PROVE ConfirmsTheExpected /\ TakesNewer
    OBVIOUS
  <2>1. CASE Finalize
    <3>1. IsTheExpected(running) \/ selectFailed
      BY <2>1 DEF Finalize, Loop, IdentityMatches, IsTheExpected, NodeInv, ExpectationIsKept,
           OnTrial
    <3>2. ASSUME NEW s \in Slots, Confirms(s) PROVE s = running
      BY <2>1, <3>2 DEF Finalize, Confirms, NodeInv, TypeOK
    <3> QED BY <2>1, <3>1, <3>2 DEF ConfirmsTheExpected, TakesNewer, Takes, Finalize, Loop
  <2>2. CASE StartDownload
    BY <2>2 DEF StartDownload, Accepts, ConfirmsTheExpected, Confirms, TakesNewer
  <2>3. CASE ~Finalize /\ ~StartDownload
    <3>1. ASSUME NEW s \in Slots PROVE ~Confirms(s)
      <4>1. mark' = mark \/ \E r \in Slots, to \in {"new", "pending", "invalid"} :
                              mark' = [mark EXCEPT ![r] = to]
        BY <2>3 DEF Next, Commands, Service, Validation, Install, flash, radio, loop,
             NodeInv, TypeOK, PowerLoss, Boot, WifiChanges, Tick, SendStat, CheckNow, RebootSoft,
             NoCommand, PendingActions, Restart, ServiceRests, CheckFails, NoteNetwork,
             FailsValidation, WifiTimesOut, RollBack, DownloadFails, DownloadEnds,
             StoreExpectation, StoreFails, Select, SelectionFails, Slots, Other
      <4> QED BY <4>1 DEF Confirms, NodeInv, TypeOK
    <3>2. ~Takes
      BY <2>3 DEF Takes, Next, Commands, Service, Validation, Install, Loop, Fails, Boots, Off,
           loop, PowerLoss, Boot, WifiChanges, Tick, SendStat, CheckNow, RebootSoft,
           NoCommand, PendingActions, Restart, ServiceRests, CheckFails, NoteNetwork,
           FailsValidation, WifiTimesOut, RollBack, DownloadFails, DownloadEnds,
           StoreExpectation, StoreFails, Select, SelectionFails
    <3> QED BY <3>1, <3>2 DEF ConfirmsTheExpected, TakesNewer
  <2> QED BY <2>1, <2>2, <2>3
<1> QED BY <1>1, InvariantHolds, PTL DEF Spec, InstallIsSound
=============================================================================
