------------------------------ MODULE MCUpdate ------------------------------
(* The update of one node with its two flash slots, whose manifests are     *)
(* right, promise another image or go back, and whose boot selection may    *)
(* fail.                                                                    *)
EXTENDS NodeOta

(* A manifest that allows a downgrade promises the oldest version.          *)
GoesBackToOldest == manifest'.downgrade => manifest'.promised = 1
MCNext == Next /\ GoesBackToOldest

(* The fairness of the module.                                              *)
MCSpec == /\ Init /\ [][MCNext]_vars
          /\ WF_vars(Boot) /\ WF_vars(Tick) /\ SF_vars(Restart)
          /\ WF_vars(Commands \/ PendingActions \/ Service \/ Install)

-----------------------------------------------------------------------------
(* A trial ends, with the confirmation or with the end of the image, and an *)
(* installed image is restarted into.                                       *)
UpdateIsDecided == TrialEnds /\ InstalledIsStarted
=============================================================================
