--------------------------- MODULE MCControlPlane ---------------------------
(* The control plane with two clients at once; and with one client over two *)
(* sessions and a restart of the node, with an OTA check, retries and an    *)
(* answer cache that expires, and with retries while the cache holds.  A    *)
(* behaviour exercises one of the four, chosen at the start.                *)
EXTENDS ControlPlane, TLC

VARIABLES part

Reboot == [node |-> 1, cmd |-> "REBOOT_SOFT"]
Check == [node |-> 1, cmd |-> "OTA_CHECK_NOW"]
MCTargets == {Reboot, Check}

Alone == INSTANCE ControlPlane WITH
  Targets <- {Reboot}, MaxRetries <- 0, MaxRuntimes <- 2, MaxCommands <- 2, MaxBoots <- 1,
  CacheTtl <- 2, RateCap <- 1, RebootDelay <- 0, LastArrival <- 0, Horizon <- 0
Expiring == INSTANCE ControlPlane WITH
  Targets <- {Check}, MaxRetries <- 1, MaxRuntimes <- 1, MaxCommands <- 1, MaxBoots <- 1,
  CacheTtl <- 1, RateCap <- 1, RebootDelay <- 1, LastArrival <- 1, Horizon <- 1
Retried == INSTANCE ControlPlane WITH
  Targets <- {Reboot}, MaxRetries <- 1, MaxRuntimes <- 1, MaxCommands <- 2, MaxBoots <- 0,
  CacheTtl <- 2, RateCap <- 1, RebootDelay <- 0, LastArrival <- 1, Horizon <- 1

ASSUME MCPlaneAssumption ==
  /\ Alone!PlaneAssumption /\ Expiring!PlaneAssumption /\ Retried!PlaneAssumption

MCInit ==
  \/ part = "shared" /\ Init
  \/ part = "alone" /\ Alone!Init
  \/ part = "expiring" /\ Expiring!Init
  \/ part = "retried" /\ Retried!Init

(* Bounds: two clients send commands of one kind to a node that stays up,   *)
(* in one session; of the other parts, one client sends everything.         *)
OneSession ==
  built' <= 1 /\ \A c \in Clients : sent'[c] = App!NoCommand \/ sent'[c].cmd = Reboot.cmd
OneClient == Cardinality({c \in Clients : use'[c] # 0}) <= 1
Only(p) == part = p /\ UNCHANGED part

MCNext ==
  \/ Only("shared") /\ Next /\ OneSession
  \/ Only("alone") /\ Alone!Next /\ OneClient
  \/ Only("expiring") /\ Expiring!Next /\ OneClient
  \/ Only("retried") /\ Retried!Next /\ OneClient
MCSpec == MCInit /\ [][MCNext]_<<part, vars>>

MCClientSymmetry == Permutations(Clients)

-----------------------------------------------------------------------------
(* A fresh command of a client that is alone is never refused as a replay,  *)
(* nor are its retries, while the node still has its answers.               *)
RetriesAreNoReplays == part = "retried" => FreshCommandIsNoReplay
=============================================================================
