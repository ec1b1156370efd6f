------------------------ MODULE MCCommandTransaction ------------------------
(* Transactions of one client with two nodes, and of two clients that share *)
(* the runtime, its counters and the port of the answers.  A behaviour      *)
(* exercises one of the two, chosen at the start.                           *)
EXTENDS CommandTransaction

CONSTANTS Alone   \* the client that sends the commands of the part "alone"

VARIABLES part

MCTargets == {[node |-> 1, cmd |-> "PING"], [node |-> 2, cmd |-> "REBOOT_SOFT"]}

(* Bounds on what is begun: the client that is alone sends up to three      *)
(* commands, two clients that share send two, to one node.                  *)
Bound ==
  IF part = "alone"
  THEN \A c \in Clients \ {Alone} : pc'[c] = "idle"
  ELSE begun' <= 2 /\ \A c \in Clients : sent'[c].node # 2

MCInit == part \in {"alone", "shared"} /\ Init
MCNext == Next /\ Bound /\ UNCHANGED part

(* The fairness of the module, for the client that is alone.                *)
MCFairness ==
  /\ WF_vars(part = "alone" /\ ClientStep(Alone))
  /\ WF_vars(part = "alone" /\ (Retry(Alone) \/ GiveUp(Alone)))
MCSpec == MCInit /\ [][MCNext]_<<part, vars>> /\ MCFairness

-----------------------------------------------------------------------------
(* TransactionEnds, of the client that is alone: every transaction ends,    *)
(* whatever the network and the session do.                                 *)
Waits == part = "alone" /\ pc[Alone] # "idle"
LoneTransactionEnds == Waits ~> ~Waits
=============================================================================
