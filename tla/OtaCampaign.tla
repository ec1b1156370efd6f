----------------------------- MODULE OtaCampaign -----------------------------
(***************************************************************************)
(* A campaign that updates nodes wave by wave: the campaign service, the   *)
(* orchestrator that publishes a rollout, serves it and asks the nodes of  *)
(* a wave one after the other, and the gate that judges a wave by what the *)
(* nodes report.  All of it runs on the thread of the user interface; the  *)
(* nodes go on meanwhile, and their reports arrive late or never.          *)
(*                                                                         *)
(* The nodes are external: NodeOta is their model.                         *)
(***************************************************************************)
EXTENDS Naturals, Sequences, FiniteSets

CONSTANTS
  Nodes,      \* numbers of nodes
  Plans,      \* how the operator may divide them into waves
  MaxBoots,   \* a node boots at most this often, and fewer times than its
              \* four-bit boot marker can tell apart
  Earlier,    \* nodes may still report the end of an earlier update
  Setbacks,   \* nodes may lose power, and new images may fail their trial
  Silence,    \* a node may fall silent forever
  Unsteady,   \* nodes may calibrate and go quiet
  Taken       \* the preferred port may be taken

None == 99         \* no node, no boot marker

(* The canary and the manual waves share out the nodes.                    *)
IsPlan(waves) ==
  /\ waves \in Seq((SUBSET Nodes) \ {{}})
  /\ UNION {waves[k] : k \in DOMAIN waves} = Nodes
  /\ \A k, l \in DOMAIN waves : k # l => waves[k] \cap waves[l] = {}
(* The plan the dialog makes of nodes selected by their numbers: the       *)
(* canary, and the others in chunks.                                       *)
CanaryPlan(count, canary, size) ==
  LET Chunk(k) == {n \in 1..count : /\ n > canary + (k - 1) * size
                                    /\ n <= canary + k * size}
      chunks == [k \in 1..((count - canary + size - 1) \div size) |-> Chunk(k)]
  IN  (IF canary > 0 THEN <<1..canary>> ELSE <<>>) \o chunks
OneByOne == {CanaryPlan(Cardinality(Nodes), 1, 1)}

OtaCampaignAssumption ==
  /\ Nodes \subseteq Nat \ {None} /\ Nodes # {} /\ IsFiniteSet(Nodes)
  /\ \A waves \in Plans : IsPlan(waves)
  /\ MaxBoots \in 1..15 /\ {Earlier, Setbacks, Silence, Unsteady, Taken} \subseteq BOOLEAN
ASSUME OtaCampaignConstants == OtaCampaignAssumption

VARIABLES
  node,       \* [ota, boots, new, alive] of each node
  report,     \* its last report, as the registry shows it
  status,     \* its row in the result of its wave
  executed,   \* waves that were executed
  paused, aborted,
  todo,       \* nodes the running deployment still has to ask
  asked,      \* the node it waits for, what it remembered of it, the answer
  told,       \* how often the campaign asked each node
  blocked,    \* the preferred port cannot be bound
  published,  \* port in the published manifest
  server,     \* port the update server listens on
  plan,       \* the nodes of each wave
  setback     \* history: a node lost power or an image failed its trial

world == <<node, report>>
result == <<status, executed, paused, aborted>>
deploy == <<todo, asked>>
ports == <<blocked, published, server>>
vars == <<world, result, deploy, told, ports, plan, setback>>

Phases == {"pending", "triggered", "acknowledged", "downloading", "installing",
           "boot_validating", "confirmed", "failed", "timeout"}
States == {"idle", "triggered", "downloading", "ready", "validating", "confirmed", "error"}
Lives == {"unknown", "online", "calibrating", "degraded", "offline"}
NodeStates == [ota : States, boots : 0..MaxBoots, new : BOOLEAN, alive : BOOLEAN]
Snapshots == [ota : States, boots : 0..MaxBoots, live : Lives]
Markers == (0..MaxBoots) \cup {None}
Questions == [node : Nodes \cup {None}, base : Markers,
              answer : {"none", "ack", "timeout", "rejected"}]
NoQuestion == [node |-> None, base |-> None, answer |-> "none"]
(* OtaNodeDeployStatus: what a wave's result says of a node. *)
Rows == [phase : Phases, base : Markers, error : BOOLEAN, live : Lives]
Fresh == [phase |-> "pending", base |-> None, error |-> FALSE, live |-> "unknown"]
NodesOf(k) == UNION {plan[i] : i \in 1..k}

TypeOK ==
  /\ node \in [Nodes -> NodeStates] /\ report \in [Nodes -> Snapshots]
  /\ status \in [Nodes -> Rows]
  /\ plan \in Plans /\ setback \in BOOLEAN
  /\ executed \in 0..Len(plan) /\ paused \in BOOLEAN /\ aborted \in BOOLEAN
  /\ todo \subseteq Nodes /\ told \in [Nodes -> Nat]
  /\ asked \in Questions /\ (asked = NoQuestion \/ asked.node \in todo)
  /\ todo # {} => executed < Len(plan) /\ todo \subseteq plan[executed + 1]
  /\ blocked \in BOOLEAN /\ {published, server} \subseteq {"none", "preferred", "fallback"}
  /\ \A n \in Nodes : status[n].phase = "pending" => n \notin NodesOf(executed)
  /\ \A n \in Nodes \ NodesOf(executed) : status[n] # Fresh => todo # {} /\ n \in plan[executed + 1]

Init ==
  /\ node \in [Nodes -> [ota : IF Earlier THEN {"idle", "confirmed", "error"} ELSE {"idle"},
                         boots : {0}, new : {FALSE}, alive : {TRUE}]]
  /\ report \in [Nodes -> [ota : {"idle"}, boots : {0}, live : {"unknown"}]]
  /\ status = [n \in Nodes |-> Fresh]
  /\ executed = 0 /\ paused = FALSE /\ aborted = FALSE
  /\ todo = {} /\ asked = NoQuestion /\ told = [n \in Nodes |-> 0]
  /\ blocked = FALSE /\ published = "none" /\ server = "none"
  /\ plan \in Plans /\ setback = FALSE

-----------------------------------------------------------------------------
(* The nodes. *)
Becomes(n, ota) == node' = [node EXCEPT ![n].ota = ota]
Boots(n, ota, new) ==
  /\ node[n].boots < MaxBoots
  /\ node' = [node EXCEPT ![n].ota = ota, ![n].new = new, ![n].boots = @ + 1]
Updates(n) ==
  /\ node[n].alive
  /\ \/ node[n].ota = "triggered" /\ Becomes(n, "downloading")
     \/ node[n].ota = "downloading" /\ (Becomes(n, "ready") \/ Becomes(n, "error"))
     \/ node[n].ota = "ready" /\ Boots(n, "validating", TRUE)
     \/ node[n].ota = "validating" /\ Becomes(n, "confirmed")
  /\ UNCHANGED <<report, result, deploy, told, ports, plan, setback>>
(* A loss of power, or the end of a trial the image did not pass. *)
SetBack(n) ==
  /\ Setbacks /\ node[n].alive
  /\ Boots(n, "idle", node[n].new /\ node[n].ota # "validating")
  /\ setback' = TRUE
  /\ UNCHANGED <<report, result, deploy, told, ports, plan>>
Dies(n) ==
  /\ Silence /\ node[n].alive
  /\ node' = [node EXCEPT ![n].alive = FALSE]
  /\ UNCHANGED <<report, result, deploy, told, ports, plan, setback>>
(* A STAT arrives; a node that just booted shows as calibrating.           *)
Reports(n) ==
  /\ node[n].alive
  /\ \E live \in {"online", "calibrating"} :
       report' = [report EXCEPT ![n] = [ota |-> node[n].ota, boots |-> node[n].boots,
                                        live |-> live]]
  /\ (report'[n].live = "calibrating" => Unsteady /\ node[n].boots # report[n].boots)
  /\ UNCHANGED <<node, result, deploy, told, ports, plan, setback>>
GoesQuiet(n) ==
  /\ Unsteady /\ report[n].live \in {"online", "calibrating", "degraded"}
  /\ report' = [report EXCEPT ![n].live = IF @ = "degraded" THEN "offline" ELSE "degraded"]
  /\ UNCHANGED <<node, result, deploy, told, ports, plan, setback>>
PortChanges ==
  /\ Taken /\ blocked' = ~blocked
  /\ UNCHANGED <<world, result, deploy, told, published, server, plan, setback>>

-----------------------------------------------------------------------------
(* What the orchestrator makes of a report. *)
\* Slip: an acknowledgement counts as the confirmation.
PhaseAckConfirms(r, phase) == IF phase = "acknowledged" THEN "confirmed" ELSE phase
\* Slip: the phase a node reports is not looked at.
PhaseUnread(r, phase) == phase
(* _phase_from_runtime. *)
PhaseFromRuntime(r, phase) ==
  CASE r.ota = "error" -> "failed"
    [] r.ota = "confirmed" -> "confirmed"
    [] r.ota = "validating" -> "boot_validating"
    [] r.ota = "ready" -> "installing"
    [] r.ota = "downloading" -> "downloading"
    [] r.ota = "triggered" -> "triggered"
    [] OTHER -> phase
(* _should_promote_to_confirmed: healthy again after a restart. *)
Promoted(row, r, phase) ==
  /\ phase \notin {"failed", "timeout"}
  /\ r.live = "online" /\ r.ota \in {"idle", "confirmed"}
  /\ row.base # None /\ r.boots # row.base
(* _merge_runtime_snapshot. *)
Merge(row, r) ==
  LET phase == PhaseFromRuntime(r, row.phase)
  IN  IF r.live = "unknown" THEN row
      ELSE [phase |-> IF Promoted(row, r, phase) THEN "confirmed" ELSE phase,
            base |-> row.base, error |-> r.ota = "error", live |-> r.live]

(* _evaluate_wave_gate. *)
Gate(k) ==
  LET rows == {status[n] : n \in plan[k]}
  IN  IF \E r \in rows : r.phase \in {"failed", "timeout"} \/ r.error THEN "failed"
      ELSE IF \E r \in rows : r.phase # "confirmed" \/ r.live = "calibrating" THEN "pending"
      ELSE IF \E r \in rows : r.live = "offline" THEN "failed"
      ELSE IF \E r \in rows : r.live = "degraded" THEN "inconclusive"
      ELSE "passed"
(* _collect_campaign_details. *)
CampaignStatus ==
  IF aborted THEN "aborted"
  ELSE IF executed = 0 THEN "planned"
  ELSE IF Gate(executed) = "pending" THEN IF paused THEN "paused" ELSE "running"
  ELSE IF Gate(executed) # "passed" THEN "failed"
  ELSE IF executed = Len(plan) THEN "completed" ELSE "paused"
\* Slip: a wave need not have passed, if it did not fail.
ContinueUnlessFailed ==
  /\ ~aborted /\ executed \in 1..(Len(plan) - 1)
  /\ Gate(executed) # "failed"
ContinueAllowed ==
  /\ ~aborted /\ executed \in 1..(Len(plan) - 1)
  /\ Gate(executed) = "passed"

-----------------------------------------------------------------------------
(* The deployment of a wave. *)
Resting == todo = {}
(* publish_rollout: a published rollout is reused, and never changed.      *)
Publishes(port) == published \in {"none", port}
(* A port nothing else is bound to.                                        *)
PortFound == IF blocked THEN "fallback" ELSE "preferred"
(* _ensure_server: started on the port, or already running there; a server *)
(* on another port is stopped first, and the start may fail.               *)
Serves(port) == server' = port
ServesNot(port) == server # port /\ server' = "none"
NextWave == executed + 1
Deploy ==
  LET port == PortFound
      Refused == /\ status' = [n \in Nodes |-> IF n \in plan[NextWave]
                                               THEN [Fresh EXCEPT !.phase = "failed"]
                                               ELSE status[n]]
                 /\ executed' = executed + 1
                 /\ UNCHANGED <<world, deploy, told>>
  IN  /\ UNCHANGED <<blocked, plan, setback>>
      /\ \/ Refused /\ UNCHANGED ports           \* no control plane, no such artifact
         \/ Refused /\ ~Publishes(port) /\ UNCHANGED ports
         \/ /\ Publishes(port) /\ published' = port
            /\ \/ /\ Serves(port)
                  /\ todo' = plan[NextWave]
                  /\ UNCHANGED <<world, status, executed, asked, told>>
               \/ ServesNot(port) /\ Refused

(* The nodes of a request are asked in the order of their selection, any,  *)
(* and once each.                                                          *)
IsNext(n) == n \in todo
(* _dispatch_to_node: the node's report is remembered and it is asked.     *)
Ask(n) ==
  /\ asked = NoQuestion /\ IsNext(n)
  /\ told' = [told EXCEPT ![n] = @ + 1]
  /\ \E heard \in {"ack", "timeout", "rejected"} :
       /\ asked' = [node |-> n, answer |-> heard,
                    base |-> IF report[n].live = "unknown" THEN None ELSE report[n].boots]
       /\ \/ /\ heard \in {"ack", "timeout"} /\ node[n].alive
             /\ node[n].ota \in {"idle", "confirmed", "error"}
             /\ Becomes(n, "triggered")
          \/ heard \in {"timeout", "rejected"} /\ UNCHANGED node
  /\ UNCHANGED <<report, result, todo, ports, plan, setback>>
(* The answer, or none, and the report of that moment become its row.      *)
Answered ==
  LET n == asked.node
      phase == CASE asked.answer = "ack" -> "acknowledged"
                 [] asked.answer = "timeout" -> "timeout"
                 [] OTHER -> "failed"
  IN  /\ asked # NoQuestion
      /\ status' = [status EXCEPT ![n] =
           Merge([Fresh EXCEPT !.phase = phase, !.base = asked.base], report[n])]
      /\ asked' = NoQuestion /\ todo' = todo \ {n}
      /\ executed' = IF todo' = {} THEN executed + 1 ELSE executed
      /\ UNCHANGED <<world, paused, aborted, told, ports, plan, setback>>

-----------------------------------------------------------------------------
(* The campaign's operations. *)
(* _rebuild_campaign_result: the result is made anew from the rows of the  *)
(* waves; what it keeps of its own are the operator's two marks.           *)
Marked(byOperator, ended) == paused' = byOperator /\ aborted' = ended
StartCampaign ==
  /\ Resting /\ executed = 0 /\ ~aborted
  /\ Deploy /\ Marked(FALSE, FALSE)
ContinueCampaign ==
  /\ Resting /\ ContinueAllowed
  /\ Deploy /\ Marked(FALSE, FALSE)
PauseCampaign ==
  /\ Resting /\ executed > 0 /\ CampaignStatus \notin {"aborted", "completed"}
  /\ Marked(TRUE, FALSE)
  /\ UNCHANGED <<world, status, executed, deploy, told, ports, plan, setback>>
AbortCampaign ==
  /\ Resting /\ executed > 0 /\ CampaignStatus \notin {"aborted", "completed"}
  /\ Marked(FALSE, TRUE)
  /\ UNCHANGED <<world, status, executed, deploy, told, ports, plan, setback>>
(* By hand at any time, and every two seconds while a wave is running.     *)
RefreshCampaign ==
  /\ Resting /\ executed > 0
  /\ status' = [n \in Nodes |-> IF n \in NodesOf(executed) THEN Merge(status[n], report[n])
                                ELSE status[n]]
  /\ UNCHANGED <<world, executed, paused, aborted, deploy, told, ports, plan, setback>>

-----------------------------------------------------------------------------
Operator == StartCampaign \/ ContinueCampaign \/ PauseCampaign \/ AbortCampaign
Environment == \/ \E n \in Nodes : Updates(n) \/ SetBack(n) \/ Dies(n) \/ Reports(n) \/ GoesQuiet(n)
               \/ PortChanges
Timer == CampaignStatus = "running" /\ RefreshCampaign
Next == \/ Environment \/ Operator \/ RefreshCampaign
        \/ (\E n \in Nodes : Ask(n)) \/ Answered
HealthyReport(n) == Reports(n) /\ report'[n].live = "online"
(* A command ends, the timer ticks; nodes go on and are heard while they   *)
(* live.  Nothing is said of the operator, nor of setbacks.                *)
Spec == /\ Init /\ [][Next]_vars
        /\ WF_vars(Answered \/ \E n \in Nodes : Ask(n)) /\ SF_vars(Timer)
        /\ \A n \in Nodes : WF_vars(Updates(n)) /\ WF_vars(HealthyReport(n))

-----------------------------------------------------------------------------
(* A node that the campaign calls updated runs the new image.              *)
ConfirmedRunsNew ==
  \A n \in Nodes : status[n].phase = "confirmed" => node[n].new

(* No node is asked twice in a campaign, however it is paused, continued   *)
(* and refreshed.                                                          *)
ToldOnce == \A n \in Nodes : told[n] <= 1

(* While nodes may fetch the rollout, it is served where its manifest says.*)
ServedAsPublished == (\E n \in Nodes : told[n] > 0) => server = published

(* As long as no node was set back, a node the campaign calls updated runs *)
(* the new image; none is asked twice; and what a node may fetch is served *)
(* where its manifest says (_should_promote_to_confirmed, deploy).         *)
CampaignIsTrue ==
  /\ ~setback => ConfirmedRunsNew
  /\ ToldOnce /\ ServedAsPublished

(* A node is asked to update only when all nodes of the waves before its   *)
(* own run the new image, unless a node was set back since.                *)
AskedInTurn ==
  \A k \in DOMAIN plan : (\E n \in plan[k] : told'[n] # told[n]) =>
    setback \/ \A m \in NodesOf(k - 1) : node[m].new

(* An aborted campaign stays so and asks no node again.                    *)
StaysAborted == aborted => aborted' /\ told' = told

(* Every step of a campaign keeps the order of the waves and respects its  *)
(* abortion (continue_campaign, abort_campaign).                           *)
WavesWait == [][AskedInTurn /\ StaysAborted]_vars

(* A wave that runs is judged: it passes, fails, or the operator stops it. *)
GateDecides == (CampaignStatus = "running") ~> (CampaignStatus # "running")

(* A node seen to have restarted, and not seen to recover, is not waited   *)
(* for forever.                                                            *)
RestartMustRecover ==
  \A n \in Nodes : (status[n].phase = "boot_validating") ~>
                   (status[n].phase # "boot_validating" \/ CampaignStatus # "running")
=============================================================================
