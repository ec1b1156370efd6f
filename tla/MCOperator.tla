---------------------------- MODULE MCOperator ----------------------------
(* What the operator sees and asks for: the address a command goes to, and  *)
(* the one a node is shown with; the panel, with a selector that is filled  *)
(* and searched, with sessions that stop in the middle, and with the        *)
(* verification of a reboot; and the campaign that updates several nodes,   *)
(* in one wave or over two while ports are taken, with nodes that lose      *)
(* power or fall silent, and with one that goes quiet.  A behaviour         *)
(* exercises one of these, chosen at the start: they share no state here.   *)
EXTENDS OtaCampaign, Integers

CONSTANTS
  Addresses, StaleAfter, Polls, MaxTime, Packets, Moves,   \* of NodeView
  Base, Runs, Elsewhere, SeqMod,                           \* of ControlPanel
  Watched, Probes, Checks, Reboots, MaxUp, Losses, Sessions   \* of a verification

VARIABLES
  part,
  up, address, summary, vCache, looks, cmd, reboots, results, view, heard, source, now, vLeft,
  avail, query, sel, held, cur, busy, worker, posted, pUp, boots, why, alive, pAsked, seen,
  session, seq, snap, local, verdict, left

places == <<up, address, summary, vCache, looks, cmd, reboots, results, view, heard, source,
            now, vLeft>>
panel == <<avail, query, sel, held, cur, busy, worker, posted, pUp, boots, why, alive, pAsked, seen,
           session, seq, snap, local, verdict, left>>
mcVars == <<part, vars, places, panel>>

TwoWaves == CanaryPlan(2, 1, 1)
OneWave == CanaryPlan(2, 2, 1)
MCPlans == {TwoWaves, OneWave}

Sending == INSTANCE NodeView WITH
  cache <- vCache, left <- vLeft, Commands <- 1, Views <- 0, Sessions <- 1
Showing == INSTANCE NodeView WITH
  cache <- vCache, left <- vLeft, Moves <- 0, Commands <- 0, Views <- 1, Sessions <- 1
Selector == INSTANCE ControlPanel WITH
  up <- pUp, asked <- pAsked, Commands <- {"PING"}, Probes <- 1,
  Losses <- 0, Reboots <- 0, Sessions <- 0, MaxUp <- 0, Filters <- TRUE
Stopped == INSTANCE ControlPanel WITH
  up <- pUp, asked <- pAsked, Nodes <- Watched, Commands <- {"PING", "REBOOT_SOFT"}, Probes <- 1,
  Runs <- 1, Elsewhere <- 0, Losses <- 1, Reboots <- 0, Sessions <- 1, MaxUp <- 0,
  Filters <- FALSE
Verifying == INSTANCE ControlPanel WITH
  up <- pUp, asked <- pAsked, Nodes <- Watched, Commands <- {"REBOOT_SOFT"}, Runs <- Checks,
  Elsewhere <- 0, Filters <- FALSE

Lost == INSTANCE OtaCampaign WITH
  Plans <- {TwoWaves}, Setbacks <- TRUE, Silence <- TRUE, Unsteady <- FALSE, Taken <- FALSE
Quiet == INSTANCE OtaCampaign WITH
  Plans <- {TwoWaves}, Setbacks <- FALSE, Silence <- FALSE, Unsteady <- TRUE, Taken <- FALSE

ASSUME MCOperatorAssumption ==
  /\ Sending!NodeViewAssumption /\ Showing!NodeViewAssumption
  /\ Selector!ControlPanelAssumption /\ Stopped!ControlPanelAssumption
  /\ Verifying!ControlPanelAssumption
  /\ Lost!OtaCampaignAssumption /\ Quiet!OtaCampaignAssumption

OnePlace == address = [n \in Nodes |-> 1]
PanelIdle == Sending!Init /\ OnePlace
NoPanel == Showing!Init /\ OnePlace /\ Verifying!Init /\ seq = SeqMod - 2
NoCampaign == Init /\ plan = TwoWaves
MCInit ==
  \/ part = "sending" /\ NoCampaign /\ Sending!Init /\ Verifying!Init /\ seq = SeqMod - 2
  \/ part = "selector" /\ NoCampaign /\ PanelIdle /\ Selector!Init
  \/ part = "stopped" /\ NoCampaign /\ PanelIdle /\ Stopped!Init
  \/ part = "verifying" /\ NoCampaign /\ PanelIdle /\ Verifying!Init /\ seq = SeqMod - 2
  \/ part = "campaign" /\ Init /\ NoPanel
  \/ part \in {"showing", "lost", "quiet"} /\ NoCampaign /\ NoPanel

Places(p) == part = p /\ UNCHANGED <<part, panel, vars>>
Panel(p) == part = p /\ UNCHANGED <<part, places, vars>>
Campaign(p) == part = p /\ UNCHANGED <<part, places, panel>>
(* Ports change while two waves are deployed; the node that goes quiet is   *)
(* that of the first; and no time passes in the part with commands.         *)
PortsOfTwoWaves == plan = TwoWaves \/ ~blocked'
FirstNode == node'[2] = node[2] /\ report'[2] = report[2] /\ executed' < 2 /\ 2 \notin todo'

(* The session stops while a restart is verified, and what happens once it   *)
(* is reported no longer matters; the selector is another part's.            *)
Verified == left.runs = 0 /\ worker.at \in {"quits", "quit", "none"}
WhileVerifying ==
  /\ UNCHANGED avail
  /\ session' # session => worker.at \in {"send", "ping", "stat", "look"}
  /\ Verified => UNCHANGED <<Verifying!nodeVars, seen>>

MCNext ==
  \/ Places("sending") /\ Sending!Next /\ UNCHANGED now
  \/ Places("showing") /\ Showing!Next
  \/ Panel("selector") /\ Selector!Next
  \/ Panel("stopped") /\ Stopped!Next
  \/ Panel("verifying") /\ Verifying!Next /\ WhileVerifying
  \/ Campaign("campaign") /\ Next /\ PortsOfTwoWaves
  \/ Campaign("lost") /\ Lost!Next
  \/ Campaign("quiet") /\ Quiet!Next /\ FirstNode

(* The fairness of the three modules: threads, and the thread of the        *)
(* interface, which handles what is posted to it; a deployment ends, the    *)
(* dialog's timer ticks, nodes go on and are heard.  The terms of different *)
(* parts are joined, as only one part is chosen.                            *)
Thread == \/ Panel("selector") /\ Selector!Thread
          \/ Panel("stopped") /\ Stopped!Thread
          \/ Panel("verifying") /\ Verifying!Thread
          \/ Places("sending") /\ Sending!Worker
          \/ Campaign("campaign") /\ (Answered \/ \E n \in Nodes : Ask(n))
Finish == \/ Panel("selector") /\ Selector!Finish
          \/ Panel("stopped") /\ Stopped!Finish
          \/ Panel("verifying") /\ Verifying!Finish
ThreadEnds == \/ Panel("selector") /\ Selector!ThreadEnds
              \/ Panel("stopped") /\ Stopped!ThreadEnds
              \/ Panel("verifying") /\ Verifying!ThreadEnds
ThreadFinished == \/ Panel("selector") /\ Selector!ThreadFinished
                  \/ Panel("stopped") /\ Stopped!ThreadFinished
                  \/ Panel("verifying") /\ Verifying!ThreadFinished
FirstGoesOn == Campaign("campaign") /\ Updates(1)
FirstIsHeard == Campaign("campaign") /\ HealthyReport(1)
SecondGoesOn == Campaign("campaign") /\ Updates(2)
SecondIsHeard == Campaign("campaign") /\ HealthyReport(2)
Fairness ==
  /\ WF_mcVars(Thread) /\ SF_mcVars(Campaign("campaign") /\ Timer)
  /\ WF_mcVars(Finish \/ FirstGoesOn) /\ WF_mcVars(ThreadEnds \/ SecondGoesOn)
  /\ WF_mcVars(ThreadFinished \/ FirstIsHeard) /\ WF_mcVars(SecondIsHeard)

MCSpec == MCInit /\ [][MCNext]_mcVars /\ Fairness

-----------------------------------------------------------------------------
(* The panel shows no result older than the runtime's, and what it logs     *)
(* under a command comes from that command's own thread.                    *)
NewestIsShown ==
  part = "selector" => Selector!ShownIsLatest /\ Selector!SignalsAreOfThisRun

(* A command goes to an address its own node has been heard from, and a     *)
(* node shown as reachable was heard there within the limit.                *)
TargetIsTheNodes ==
  /\ part = "sending" => Sending!TargetIsTheNodes
  /\ part = "showing" => Showing!ResolvedMeansHeard

(* Neither a search nor a refresh moves the selection under the cursor; and *)
(* a restart reported as confirmed took place: after the last STAT the      *)
(* panel had when it sent the command, if a STAT told of it, and otherwise, *)
(* unless a ping to a node that was up was lost, after the command was      *)
(* accepted.                                                                *)
PanelIsTrue ==
  [][/\ Selector!SelectedIsKept
     /\ part = "verifying" => Verifying!RestartIsReal]_mcVars

Waiting == \/ part = "sending" /\ cmd.at # "idle"
           \/ part = "stopped" /\ busy
           \/ part = "campaign" /\ CampaignStatus = "running"

(* Whatever the operator waits for ends: a command, with an answer or a     *)
(* refusal, however its lookup, its answer or its session is lost; and a    *)
(* wave that runs, which is judged or stopped, however late the reports.    *)
CommandsEnd == Waiting ~> ~Waiting
=============================================================================
