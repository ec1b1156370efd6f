------------------------- MODULE OperatorProofs ----------------------------
(***************************************************************************)
(* The three parts of the operator's side that MCOperator checks, for any  *)
(* values of their constants: campaigns of updates, the view's addresses   *)
(* of nodes, and the panel's selector, workers and restart check.          *)
(*                                                                         *)
(* What a campaign keeps for any nodes, any plan of waves, any number of   *)
(* boots and every choice of the disturbances: no node is asked twice, the *)
(* rollout stays where its manifest says, an aborted campaign stays so;    *)
(* and, unless nodes report the end of an earlier update or were set back, *)
(* a node called updated runs the new image and the waves wait for it.     *)
(***************************************************************************)
EXTENDS MCOperator, WellFoundedInduction, TLAPS

USE OtaCampaignConstants

(* A node of the running wave that was asked has a row of its own.         *)
WaveHasRows ==
  todo # {} => \A n \in plan[executed + 1] \ todo : status[n].phase # "pending"
ShapeInv == TypeOK /\ WaveHasRows

(* The nodes asked so far: those of executed waves, and those of the       *)
(* running one that no longer wait for their question.                     *)
AskedOnceInv ==
  \A n \in Nodes :
    /\ told[n] \in {0, 1}
    /\ told[n] = 1 => \/ n \in NodesOf(executed)
                      \/ /\ todo # {}
                         /\ n \in plan[executed + 1] \ (todo \ {asked.node})
ServedInv ==
  todo # {} \/ (\E n \in Nodes : told[n] > 0) => server = published /\ published # "none"
AbortedRests == aborted => todo = {}
OnceInv == ShapeInv /\ AskedOnceInv /\ ServedInv /\ AbortedRests

(* As long as no node was set back, a node that booted, or ends an update, *)
(* runs the new image, and so does one that is remembered or reported so;  *)
(* and the waves before the one that runs have updated their nodes.        *)
NodesTell ==
  \A n \in Nodes :
    \/ node[n].boots # 0 \/ node[n].ota \in {"validating", "confirmed"}
    \/ report[n].boots # 0 \/ report[n].ota = "confirmed"
    => node[n].new
RowsTell ==
  /\ \A n \in Nodes : status[n].phase = "confirmed" \/ status[n].base \notin {0, None} =>
                      node[n].new
  /\ asked # NoQuestion /\ asked.base \notin {0, None} => node[asked.node].new
WavesTell ==
  \A k \in 1..executed : k < executed \/ todo # {} => \A m \in plan[k] : node[m].new
NewInv == ~setback => NodesTell /\ RowsTell /\ WavesTell

-----------------------------------------------------------------------------
(* The waves of a plan are not empty, and they do not overlap.             *)
LEMMA PlanFacts ==
  ASSUME plan \in Plans
  PROVE  /\ plan \in Seq(SUBSET Nodes)
         /\ Len(plan) \in Nat \ {0}
         /\ \A k \in 1..Len(plan) : plan[k] # {} /\ plan[k] \subseteq Nodes
         /\ \A k, l \in 1..Len(plan) : k # l => plan[k] \cap plan[l] = {}
<1>1. IsPlan(plan)
  BY DEF OtaCampaignAssumption
<1>2. plan \in Seq((SUBSET Nodes) \ {{}})
  BY <1>1 DEF IsPlan
<1>3. DOMAIN plan = 1..Len(plan) /\ Len(plan) \in Nat
  BY <1>2
<1>4. Len(plan) # 0
  <2>1. SUFFICES ASSUME Len(plan) = 0 PROVE FALSE
    OBVIOUS
  <2>2. DOMAIN plan = {}
    BY <2>1, <1>3
  <2> QED
    BY <1>1, <2>2 DEF IsPlan, OtaCampaignAssumption
<1>5. \A k \in 1..Len(plan) : plan[k] \in (SUBSET Nodes) \ {{}}
  BY <1>2
<1>6. plan \in Seq(SUBSET Nodes)
  BY <1>2
<1> QED
  BY <1>1, <1>3, <1>4, <1>5, <1>6 DEF IsPlan

(* The nodes of the first waves, wave by wave.                             *)
LEMMA NodesOfWaves ==
  /\ NodesOf(0) = {}
  /\ \A k \in Nat : NodesOf(k + 1) = NodesOf(k) \cup plan[k + 1]
  /\ \A k \in Nat : \A i \in 1..k : plan[i] \subseteq NodesOf(k)
<1>1. NodesOf(0) = {}
  BY DEF NodesOf
<1>2. ASSUME NEW k \in Nat
      PROVE  NodesOf(k + 1) = NodesOf(k) \cup plan[k + 1]
  <2>1. 1..(k + 1) = (1..k) \cup {k + 1}
    OBVIOUS
  <2> QED
    BY <2>1 DEF NodesOf
<1> QED
  BY <1>1, <1>2 DEF NodesOf

(* A report never makes a row pending again, and keeps its boot marker.    *)
LEMMA MergeFacts ==
  ASSUME NEW row \in Rows, NEW r \in Snapshots
  PROVE  /\ Merge(row, r) \in Rows
         /\ Merge(row, r).base = row.base
         /\ row.phase # "pending" => Merge(row, r).phase # "pending"
         /\ Merge(row, r).phase = "confirmed" =>
              \/ row.phase = "confirmed"
              \/ r.ota = "confirmed"
              \/ row.base # None /\ r.boots # row.base
<1>1. PhaseFromRuntime(r, row.phase) \in Phases
  BY DEF PhaseFromRuntime, Phases, Rows
<1>2. row.phase # "pending" => PhaseFromRuntime(r, row.phase) # "pending"
  BY DEF PhaseFromRuntime
<1>3. PhaseFromRuntime(r, row.phase) = "confirmed" =>
        row.phase = "confirmed" \/ r.ota = "confirmed"
  BY DEF PhaseFromRuntime
<1>4. "confirmed" \in Phases
  BY DEF Phases
<1> QED
  BY <1>1, <1>2, <1>3, <1>4 DEF Merge, Promoted, Rows, Snapshots

LEMMA InitShape == Init => ShapeInv
<1> SUFFICES ASSUME Init PROVE ShapeInv
  OBVIOUS
<1>1. Fresh \in Rows
  BY DEF Fresh, Rows, Markers, Phases, Lives, OtaCampaignAssumption
<1>2. NodesOf(executed) = {}
  BY NodesOfWaves DEF Init
<1>3. Len(plan) \in Nat
  BY PlanFacts DEF Init
<1>4. node \in [Nodes -> NodeStates] /\ report \in [Nodes -> Snapshots]
  <2>1. ASSUME NEW n \in Nodes
        PROVE  node[n] \in NodeStates
    <3>1. {"idle", "confirmed", "error"} \subseteq States
      BY DEF States
    <3>2. node[n] \in [ota : {"idle", "confirmed", "error"}, boots : {0},
                       new : {FALSE}, alive : {TRUE}]
      BY DEF Init
    <3>3. 0 \in 0..MaxBoots
      BY DEF OtaCampaignAssumption
    <3>4. /\ node[n].ota \in States /\ node[n].boots = 0
          /\ node[n].new \in BOOLEAN /\ node[n].alive \in BOOLEAN
          /\ node[n] = [ota |-> node[n].ota, boots |-> node[n].boots,
                        new |-> node[n].new, alive |-> node[n].alive]
      BY <3>1, <3>2
    <3> QED
      BY <3>3, <3>4 DEF NodeStates
  <2>2. [ota : {"idle"}, boots : {0}, live : {"unknown"}] \subseteq Snapshots
    BY DEF Snapshots, States, Lives, OtaCampaignAssumption
  <2> QED
    BY <2>1, <2>2 DEF Init
<1>5. NoQuestion \in Questions
  BY DEF NoQuestion, Questions, Markers
<1>6. executed \in 0..Len(plan) /\ status \in [Nodes -> Rows]
  BY <1>1, <1>3 DEF Init
<1>7. TypeOK
  BY <1>2, <1>4, <1>5, <1>6 DEF Init, TypeOK
<1>8. WaveHasRows
  BY DEF Init, WaveHasRows
<1> QED
  BY <1>7, <1>8 DEF ShapeInv

-----------------------------------------------------------------------------
LEMMA BootedNode ==
  ASSUME node \in [Nodes -> NodeStates], NEW n \in Nodes,
         NEW ota \in States, NEW new \in BOOLEAN, Boots(n, ota, new)
  PROVE  /\ node' \in [Nodes -> NodeStates]
         /\ node'[n].ota = ota /\ node'[n].new = new
         /\ \A m \in Nodes \ {n} : node'[m] = node[m]
<1>1. node[n].boots + 1 \in 0..MaxBoots
  BY DEF Boots, NodeStates, OtaCampaignAssumption
<1> QED
  BY <1>1 DEF Boots, NodeStates

(* What a step of the nodes may do to a node, and to its report: it boots  *)
(* only into the new image, unless it is set back, and it reports itself.  *)
LEMMA WorldSteps ==
  ASSUME TypeOK, NEW n \in Nodes
  PROVE  /\ Updates(n) \/ Dies(n) =>
              /\ node' \in [Nodes -> NodeStates] /\ report' = report
              /\ \A m \in Nodes : node[m].new => node'[m].new
              /\ \A m \in Nodes : /\ node'[m].boots # node[m].boots => node'[m].new
                                  /\ node'[m].ota = "validating" =>
                                       node[m].ota = "validating" \/ node'[m].new
                                  /\ node'[m].ota = "confirmed" =>
                                       node[m].ota \in {"validating", "confirmed"}
         /\ SetBack(n) => node' \in [Nodes -> NodeStates] /\ report' = report
         /\ Reports(n) \/ GoesQuiet(n) =>
              /\ node' = node /\ report' \in [Nodes -> Snapshots]
              /\ \A m \in Nodes :
                   \/ report'[m].ota = report[m].ota /\ report'[m].boots = report[m].boots
                   \/ report'[m].ota = node[m].ota /\ report'[m].boots = node[m].boots
<1>1. node \in [Nodes -> NodeStates] /\ report \in [Nodes -> Snapshots]
  BY DEF TypeOK
<1>2. ASSUME Updates(n)
      PROVE  /\ node' \in [Nodes -> NodeStates] /\ report' = report
             /\ \A m \in Nodes : node[m].new => node'[m].new
             /\ \A m \in Nodes : /\ node'[m].boots # node[m].boots => node'[m].new
                                 /\ node'[m].ota = "validating" =>
                                      node[m].ota = "validating" \/ node'[m].new
                                 /\ node'[m].ota = "confirmed" =>
                                      node[m].ota \in {"validating", "confirmed"}
  <2>1. CASE \E ota \in States : Becomes(n, ota) /\ ota # "validating"
                                /\ (ota = "confirmed" => node[n].ota = "validating")
    BY <1>1, <1>2, <2>1 DEF Updates, Becomes, NodeStates
  <2>2. CASE Boots(n, "validating", TRUE)
    BY BootedNode, <1>1, <1>2, <2>2 DEF Updates, States
  <2> QED
    BY <1>2, <2>1, <2>2 DEF Updates, States
<1>3. ASSUME Dies(n)
      PROVE  /\ node' \in [Nodes -> NodeStates] /\ report' = report
             /\ \A m \in Nodes : /\ node'[m].new = node[m].new
                                 /\ node'[m].ota = node[m].ota
                                 /\ node'[m].boots = node[m].boots
  BY <1>1, <1>3 DEF Dies, NodeStates
<1>4. ASSUME SetBack(n)
      PROVE  node' \in [Nodes -> NodeStates] /\ report' = report
  BY BootedNode, <1>1, <1>4 DEF SetBack, States
<1>5. ASSUME Reports(n)
      PROVE  /\ node' = node /\ report' \in [Nodes -> Snapshots]
             /\ \A m \in Nodes :
                  \/ report'[m].ota = report[m].ota /\ report'[m].boots = report[m].boots
                  \/ report'[m].ota = node[m].ota /\ report'[m].boots = node[m].boots
  <2>1. PICK live \in {"online", "calibrating"} :
          report' = [report EXCEPT ![n] = [ota |-> node[n].ota, boots |-> node[n].boots,
                                           live |-> live]]
    BY <1>5 DEF Reports
  <2>2. node[n].ota \in States /\ node[n].boots \in 0..MaxBoots /\ live \in Lives
    BY <1>1, <2>1 DEF NodeStates, Lives
  <2> QED
    BY <1>1, <1>5, <2>1, <2>2 DEF Reports, Snapshots
<1>6. ASSUME GoesQuiet(n)
      PROVE  /\ node' = node /\ report' \in [Nodes -> Snapshots]
             /\ \A m \in Nodes : /\ report'[m].ota = report[m].ota
                                 /\ report'[m].boots = report[m].boots
  <2>1. PICK live \in {"degraded", "offline"} : report' = [report EXCEPT ![n].live = live]
    BY <1>1, <1>6 DEF GoesQuiet
  <2> QED
    BY <1>1, <1>6, <2>1 DEF GoesQuiet, Snapshots, Lives
<1> QED
  BY <1>2, <1>3, <1>4, <1>5, <1>6

(* Whatever the nodes do, and whether the operator marks the campaign, the *)
(* result of the waves keeps its shape.                                    *)
LEMMA WorldShape ==
  ASSUME ShapeInv, UNCHANGED <<status, executed, deploy, told, published, server, plan>>,
         node' \in [Nodes -> NodeStates], report' \in [Nodes -> Snapshots],
         paused' \in BOOLEAN, aborted' \in BOOLEAN, blocked' \in BOOLEAN, setback' \in BOOLEAN
  PROVE  ShapeInv'
<1>1. NodesOf(executed)' = NodesOf(executed)
  BY DEF NodesOf
<1>2. TypeOK'
  BY <1>1 DEF ShapeInv, TypeOK, deploy
<1>3. WaveHasRows'
  BY DEF ShapeInv, WaveHasRows, deploy
<1> QED
  BY <1>2, <1>3 DEF ShapeInv

(* A deployment is refused, and its nodes have failed rows, or it begins   *)
(* with all nodes of its wave to be asked and the rollout served.          *)
LEMMA DeployOutcomes ==
  ASSUME TypeOK, Deploy
  PROVE  /\ UNCHANGED <<world, asked, told, plan, setback>>
         /\ \/ /\ executed' = executed + 1 /\ todo' = todo
               /\ status' = [n \in Nodes |-> IF n \in plan[NextWave]
                                             THEN [Fresh EXCEPT !.phase = "failed"]
                                             ELSE status[n]]
            \/ /\ UNCHANGED <<status, executed>> /\ todo' = plan[NextWave]
               /\ server' = published' /\ published' # "none"
         /\ blocked' = blocked /\ {published', server'} \subseteq {"none", "preferred", "fallback"}
         /\ server = published /\ published # "none" =>
              server' = published' /\ published' # "none"
  BY DEF Deploy, TypeOK, world, deploy, ports, Publishes, Serves, ServesNot, PortFound

LEMMA DeployShape ==
  ASSUME ShapeInv, Resting, executed < Len(plan), Deploy, Marked(FALSE, FALSE)
  PROVE  ShapeInv'
<1>1. TypeOK /\ todo = {} /\ Fresh \in Rows
  BY DEF ShapeInv, Resting, Fresh, Rows, Markers, Phases, Lives, OtaCampaignAssumption
<1>2. executed \in Nat /\ executed + 1 \in 1..Len(plan) /\ Len(plan) \in Nat
  BY <1>1, PlanFacts DEF TypeOK
<1>3. plan[executed + 1] # {} /\ plan[executed + 1] \subseteq Nodes
  BY <1>1, <1>2, PlanFacts DEF TypeOK
<1>4. NodesOf(executed + 1) = NodesOf(executed) \cup plan[executed + 1]
  BY <1>2, NodesOfWaves
<1>5. CASE executed' = executed + 1 /\ todo' = todo
           /\ status' = [n \in Nodes |-> IF n \in plan[NextWave]
                                         THEN [Fresh EXCEPT !.phase = "failed"]
                                         ELSE status[n]]
  <2>1. NodesOf(executed)' = NodesOf(executed) \cup plan[executed + 1]
    BY <1>1, <1>4, <1>5, DeployOutcomes DEF NodesOf
  <2>2. [Fresh EXCEPT !.phase = "failed"] \in Rows
        /\ [Fresh EXCEPT !.phase = "failed"].phase = "failed"
    BY <1>1 DEF Rows, Phases
  <2>3. status' \in [Nodes -> Rows]
    BY <1>1, <1>5, <2>2 DEF TypeOK
  <2>4. executed' \in 0..Len(plan')
    BY <1>2, <1>5, <1>1, DeployOutcomes
  <2>5. \A n \in Nodes \ NodesOf(executed)' : status'[n] = status[n]
    BY <1>5, <2>1 DEF NextWave
  <2>6. \A n \in Nodes : status'[n].phase = "pending" => n \notin NodesOf(executed)'
    BY <1>1, <1>5, <2>1, <2>2 DEF TypeOK, NextWave
  <2>7. TypeOK'
    BY <1>1, <1>5, <2>1, <2>3, <2>4, <2>5, <2>6, DeployOutcomes DEF TypeOK, world, Marked
  <2> QED
    BY <1>1, <1>5, <2>7 DEF ShapeInv, WaveHasRows
<1>6. CASE UNCHANGED <<status, executed>> /\ todo' = plan[NextWave]
  <2>1. NodesOf(executed)' = NodesOf(executed)
    BY <1>1, <1>6, DeployOutcomes DEF NodesOf
  <2>2. plan' = plan
    BY <1>1, DeployOutcomes
  <2>3. TypeOK'
    BY <1>1, <1>2, <1>3, <1>6, <2>1, <2>2, DeployOutcomes DEF TypeOK, world, Marked, NextWave
  <2> QED
    BY <1>6, <2>2, <2>3 DEF ShapeInv, WaveHasRows, NextWave
<1> QED
  BY <1>1, <1>5, <1>6, DeployOutcomes

(* A node is asked only while its wave runs, and the wave runs until all   *)
(* of its nodes have been answered for.                                    *)
LEMMA AskShape ==
  ASSUME ShapeInv, NEW n \in Nodes, Ask(n)
  PROVE  /\ ShapeInv' /\ n \in todo /\ asked = NoQuestion /\ asked'.node = n
         /\ asked'.base \in {None, report[n].boots}
         /\ told' = [told EXCEPT ![n] = @ + 1]
         /\ \A m \in Nodes : /\ node'[m].new = node[m].new
                             /\ node'[m].boots = node[m].boots
                             /\ node'[m].ota \in {node[m].ota, "triggered"}
<1>1. TypeOK
  BY DEF ShapeInv
<1>2. PICK reply \in {"ack", "timeout", "rejected"} :
        /\ asked' = [node |-> n, answer |-> reply,
                     base |-> IF report[n].live = "unknown" THEN None ELSE report[n].boots]
        /\ Becomes(n, "triggered") \/ UNCHANGED node
  BY DEF Ask
<1>3. node' \in [Nodes -> NodeStates]
  <2>1. node \in [Nodes -> NodeStates] /\ "triggered" \in States
    BY <1>1 DEF TypeOK, States
  <2> QED
    BY <1>2, <2>1 DEF Becomes, NodeStates
<1>4. asked' \in Questions /\ asked'.node = n /\ asked'.base \in {None, report[n].boots}
  <2>1. report[n].boots \in 0..MaxBoots
    BY <1>1 DEF TypeOK, Snapshots
  <2> QED
    BY <1>2, <2>1 DEF Questions, Markers
<1>5. n \in todo /\ asked = NoQuestion /\ told' = [told EXCEPT ![n] = @ + 1]
  BY DEF Ask, IsNext
<1>6. UNCHANGED <<report, status, executed, paused, aborted, todo, ports, plan, setback>>
  BY DEF Ask, result
<1>7. NodesOf(executed)' = NodesOf(executed)
  BY <1>6 DEF NodesOf
<1>8. told' \in [Nodes -> Nat]
  BY <1>1, <1>5 DEF TypeOK
<1>9. TypeOK'
  BY <1>1, <1>3, <1>4, <1>5, <1>6, <1>7, <1>8 DEF TypeOK, ports
<1>10. WaveHasRows'
  BY <1>6 DEF ShapeInv, WaveHasRows
<1>11. \A m \in Nodes : /\ node'[m].new = node[m].new
                        /\ node'[m].boots = node[m].boots
                        /\ node'[m].ota \in {node[m].ota, "triggered"}
  BY <1>1, <1>2 DEF TypeOK, Becomes, NodeStates
<1> QED
  BY <1>4, <1>5, <1>9, <1>10, <1>11 DEF ShapeInv

LEMMA AnsweredShape ==
  ASSUME ShapeInv, Answered
  PROVE  /\ ShapeInv'
         /\ asked.node \in todo /\ asked # NoQuestion /\ asked' = NoQuestion
         /\ todo' = todo \ {asked.node}
         /\ executed' = IF todo' = {} THEN executed + 1 ELSE executed
         /\ UNCHANGED <<world, paused, aborted, told, ports, plan, setback>>
         /\ status'[asked.node].base = asked.base
         /\ status'[asked.node].phase = "confirmed" =>
              \/ report[asked.node].ota = "confirmed"
              \/ asked.base # None /\ report[asked.node].boots # asked.base
         /\ \A m \in Nodes \ {asked.node} : status'[m] = status[m]
<1> DEFINE n == asked.node
           phase == CASE asked.answer = "ack" -> "acknowledged"
                      [] asked.answer = "timeout" -> "timeout"
                      [] OTHER -> "failed"
           row == [Fresh EXCEPT !.phase = phase, !.base = asked.base]
<1>1. TypeOK /\ executed \in Nat /\ executed + 1 \in 1..Len(plan) /\ n \in todo /\ n \in Nodes
      /\ asked \in Questions /\ Len(plan) \in Nat
  BY PlanFacts DEF ShapeInv, TypeOK, Answered
<1>2. /\ status' = [status EXCEPT ![n] = Merge(row, report[n])]
      /\ asked # NoQuestion /\ asked' = NoQuestion /\ todo' = todo \ {n}
      /\ executed' = IF todo' = {} THEN executed + 1 ELSE executed
      /\ UNCHANGED <<world, paused, aborted, told, ports, plan, setback>>
  BY DEF Answered
<1>3. row \in Rows /\ row.phase \notin {"pending", "confirmed"} /\ row.base = asked.base
  BY <1>1 DEF Fresh, Rows, Phases, Lives, Questions
<1> HIDE DEF row
<1>4. report[n] \in Snapshots
  BY <1>1 DEF TypeOK
<1>5. /\ Merge(row, report[n]) \in Rows
      /\ Merge(row, report[n]).base = asked.base
      /\ Merge(row, report[n]).phase # "pending"
      /\ Merge(row, report[n]).phase = "confirmed" =>
           \/ report[n].ota = "confirmed"
           \/ asked.base # None /\ report[n].boots # asked.base
  BY <1>3, <1>4, MergeFacts
<1>6. /\ status' \in [Nodes -> Rows] /\ status'[n] = Merge(row, report[n])
      /\ \A m \in Nodes \ {n} : status'[m] = status[m]
  BY <1>1, <1>2, <1>5 DEF TypeOK
<1>7. todo \subseteq plan[executed + 1] /\ plan[executed + 1] \subseteq Nodes
  BY <1>1, PlanFacts DEF TypeOK
<1>8. NodesOf(executed + 1) = NodesOf(executed) \cup plan[executed + 1]
  BY <1>1, NodesOfWaves
<1>9. WaveHasRows'
  BY <1>1, <1>2, <1>5, <1>6, <1>7 DEF ShapeInv, WaveHasRows
<1>10. CASE todo' # {}
  <2>1. NodesOf(executed)' = NodesOf(executed)
    BY <1>2, <1>10 DEF NodesOf
  <2>2. \A m \in Nodes : status'[m].phase = "pending" => m \notin NodesOf(executed)'
    BY <1>1, <1>5, <1>6, <2>1 DEF TypeOK
  <2>3. \A m \in Nodes \ NodesOf(executed)' :
          status'[m] # Fresh => todo' # {} /\ m \in plan'[executed' + 1]
    BY <1>1, <1>2, <1>6, <1>7, <1>10, <2>1 DEF TypeOK
  <2>4. executed' = executed /\ plan' = plan
    BY <1>2, <1>10
  <2>5. TypeOK'
    BY <1>1, <1>2, <1>6, <2>2, <2>3, <2>4 DEF TypeOK, world, ports, NoQuestion, Questions, Markers
  <2> QED
    BY <1>2, <1>1, <1>5, <1>6, <1>9, <2>5 DEF ShapeInv
<1>11. CASE todo' = {}
  <2>1. NodesOf(executed)' = NodesOf(executed) \cup plan[executed + 1]
    BY <1>2, <1>8, <1>11 DEF NodesOf
  <2>2. \A m \in plan[executed + 1] : m # n => status[m].phase # "pending"
    BY <1>1, <1>2, <1>11 DEF ShapeInv, WaveHasRows
  <2>3. \A m \in Nodes : status'[m].phase = "pending" => m \notin NodesOf(executed)'
    BY <1>1, <1>5, <1>6, <2>1, <2>2 DEF TypeOK
  <2>4. \A m \in Nodes \ NodesOf(executed)' : status'[m] = Fresh
    BY <1>1, <1>6, <1>7, <2>1 DEF TypeOK
  <2>5. executed' = executed + 1 /\ plan' = plan
    BY <1>2, <1>11
  <2>6. TypeOK'
    BY <1>1, <1>2, <1>6, <1>11, <2>3, <2>4, <2>5
       DEF TypeOK, world, ports, NoQuestion, Questions, Markers
  <2> QED
    BY <1>2, <1>1, <1>5, <1>6, <1>9, <2>6 DEF ShapeInv
<1> QED
  BY <1>10, <1>11

(* A refresh touches only the rows of executed waves.                      *)
LEMMA RefreshShape ==
  ASSUME ShapeInv, RefreshCampaign
  PROVE  /\ ShapeInv'
         /\ UNCHANGED <<world, executed, paused, aborted, deploy, told, ports, plan, setback>>
         /\ \A n \in Nodes :
              /\ status'[n].base = status[n].base
              /\ status'[n].phase = "confirmed" =>
                   \/ status[n].phase = "confirmed"
                   \/ report[n].ota = "confirmed"
                   \/ status[n].base # None /\ report[n].boots # status[n].base
<1>1. TypeOK
  BY DEF ShapeInv
<1>2. /\ status' = [n \in Nodes |-> IF n \in NodesOf(executed) THEN Merge(status[n], report[n])
                                    ELSE status[n]]
      /\ UNCHANGED <<world, executed, paused, aborted, deploy, told, ports, plan, setback>>
  BY DEF RefreshCampaign
<1>3. ASSUME NEW n \in Nodes
      PROVE  /\ status'[n] \in Rows
             /\ status'[n].base = status[n].base
             /\ status[n].phase # "pending" => status'[n].phase # "pending"
             /\ status'[n].phase = "confirmed" =>
                  \/ status[n].phase = "confirmed"
                  \/ report[n].ota = "confirmed"
                  \/ status[n].base # None /\ report[n].boots # status[n].base
  <2>1. status[n] \in Rows /\ report[n] \in Snapshots
    BY <1>1 DEF TypeOK
  <2>2. status'[n] = status[n] \/ status'[n] = Merge(status[n], report[n])
    BY <1>2
  <2> QED
    BY <2>1, <2>2, MergeFacts
<1>4. NodesOf(executed)' = NodesOf(executed)
  BY <1>2 DEF NodesOf
<1>5. \A n \in Nodes \ NodesOf(executed) : status'[n] = status[n]
  BY <1>2
<1>6. status' \in [Nodes -> Rows]
  <2>1. status' = [n \in Nodes |-> status'[n]]
    BY <1>2
  <2> QED
    BY <1>3, <2>1
<1>7. TypeOK'
  BY <1>1, <1>2, <1>3, <1>4, <1>5, <1>6 DEF TypeOK, world, deploy, ports
<1>8. WaveHasRows'
  <2>1. todo # {} => plan[executed + 1] \subseteq Nodes
    BY <1>1, PlanFacts DEF TypeOK
  <2> QED
    BY <1>2, <1>3, <2>1 DEF ShapeInv, WaveHasRows, deploy
<1> QED
  BY <1>2, <1>3, <1>7, <1>8 DEF ShapeInv

(* What the environment leaves alone, and that the nodes stay truthful.    *)
LEMMA EnvironmentSteps ==
  ASSUME ShapeInv, Environment
  PROVE  /\ ShapeInv' /\ UNCHANGED <<result, deploy, told, published, server, plan>>
         /\ ~setback' => /\ ~setback
                         /\ NodesTell => NodesTell'
                         /\ \A n \in Nodes : node[n].new => node'[n].new
<1>1. TypeOK
  BY DEF ShapeInv
<1>2. CASE PortChanges
  <2>1. /\ UNCHANGED <<world, result, deploy, told, published, server, plan, setback>>
        /\ blocked' \in BOOLEAN
    BY <1>1, <1>2 DEF PortChanges, TypeOK
  <2>2. ShapeInv'
    BY <1>1, <2>1, WorldShape DEF world, result, TypeOK
  <2> QED
    BY <2>1, <2>2 DEF world, NodesTell
<1>3. ASSUME NEW n \in Nodes, Updates(n) \/ SetBack(n) \/ Dies(n) \/ Reports(n) \/ GoesQuiet(n)
      PROVE  /\ ShapeInv' /\ UNCHANGED <<result, deploy, told, published, server, plan>>
             /\ ~setback' => /\ ~setback
                             /\ NodesTell => NodesTell'
                             /\ \A m \in Nodes : node[m].new => node'[m].new
  <2>1. /\ UNCHANGED <<result, deploy, told, ports, plan>>
        /\ (SetBack(n) /\ setback' = TRUE) \/ setback' = setback
    BY <1>3 DEF Updates, SetBack, Dies, Reports, GoesQuiet
  <2>2. node' \in [Nodes -> NodeStates] /\ report' \in [Nodes -> Snapshots]
    BY <1>1, <1>3, WorldSteps DEF TypeOK
  <2>3. setback' \in BOOLEAN
    BY <1>1, <2>1 DEF TypeOK
  <2>4. ShapeInv'
    BY <1>1, <2>1, <2>2, <2>3, WorldShape DEF TypeOK, result, ports
  <2>5. ASSUME ~setback'
        PROVE  /\ ~setback
               /\ NodesTell => NodesTell'
               /\ \A m \in Nodes : node[m].new => node'[m].new
    <3>1. CASE Updates(n) \/ Dies(n)
      <4>1. report' = report /\ ~setback
        <5>1. setback' = setback
          BY <3>1 DEF Updates, Dies
        <5> QED
          BY <1>1, <3>1, <2>5, <5>1, WorldSteps
      <4> QED
        BY <1>1, <3>1, <4>1, WorldSteps DEF NodesTell
    <3>2. CASE Reports(n) \/ GoesQuiet(n)
      <4>1. node' = node /\ ~setback
        <5>1. setback' = setback
          BY <3>2 DEF Reports, GoesQuiet
        <5> QED
          BY <1>1, <3>2, <2>5, <5>1, WorldSteps
      <4>2. \A m \in Nodes :
              \/ report'[m].ota = report[m].ota /\ report'[m].boots = report[m].boots
              \/ report'[m].ota = node[m].ota /\ report'[m].boots = node[m].boots
        BY <1>1, <3>2, WorldSteps
      <4> QED
        BY <4>1, <4>2 DEF NodesTell
    <3>3. CASE SetBack(n)
      BY <2>5, <3>3 DEF SetBack
    <3> QED
      BY <1>3, <3>1, <3>2, <3>3
  <2> QED
    BY <2>1, <2>4, <2>5 DEF ports
<1> QED
  BY <1>2, <1>3 DEF Environment

(* The operator's steps: a deployment, or a mark.                          *)
LEMMA OperatorSteps ==
  ASSUME ShapeInv, Operator
  PROVE  /\ ShapeInv' /\ Resting /\ UNCHANGED <<told, plan, setback, world>>
         /\ aborted => aborted'
         /\ \/ /\ Deploy /\ aborted' = FALSE /\ executed < Len(plan)
               /\ executed = 0 \/ Gate(executed) = "passed"
            \/ UNCHANGED <<status, executed, deploy, ports>>
<1>1. TypeOK /\ Len(plan) \in Nat \ {0} /\ executed \in Nat
  BY PlanFacts DEF ShapeInv, TypeOK
<1>2. CASE StartCampaign \/ ContinueCampaign
  <2>1. /\ Resting /\ ~aborted /\ Deploy /\ Marked(FALSE, FALSE) /\ executed < Len(plan)
        /\ executed = 0 \/ Gate(executed) = "passed"
    <3>1. CASE StartCampaign
      <4>1. Resting /\ executed = 0 /\ ~aborted /\ Deploy /\ Marked(FALSE, FALSE)
        BY <3>1 DEF StartCampaign
      <4>2. executed < Len(plan)
        BY <1>1, <4>1
      <4> QED
        BY <4>1, <4>2
    <3>2. CASE ContinueCampaign
      <4>1. Resting /\ ContinueAllowed /\ Deploy /\ Marked(FALSE, FALSE)
        BY <3>2 DEF ContinueCampaign
      <4>2. ~aborted /\ executed \in 1..(Len(plan) - 1) /\ Gate(executed) = "passed"
        BY <4>1 DEF ContinueAllowed
      <4>3. executed < Len(plan)
        BY <1>1, <4>2
      <4> QED
        BY <4>1, <4>2, <4>3
    <3> QED
      BY <1>2, <3>1, <3>2
  <2> QED
    BY <1>1, <2>1, DeployShape, DeployOutcomes DEF Marked
<1>3. CASE PauseCampaign \/ AbortCampaign
  <2>1. /\ Resting /\ CampaignStatus # "aborted"
        /\ UNCHANGED <<world, status, executed, deploy, told, ports, plan, setback>>
        /\ Marked(TRUE, FALSE) \/ Marked(FALSE, TRUE)
    BY <1>3 DEF PauseCampaign, AbortCampaign
  <2>3. ~aborted /\ paused' \in BOOLEAN /\ aborted' \in BOOLEAN
    BY <2>1 DEF CampaignStatus, Marked
  <2>2. ShapeInv'
    BY <1>1, <2>1, <2>3, WorldShape DEF world, ports, TypeOK
  <2> QED
    BY <2>1, <2>2, <2>3
<1> QED
  BY <1>2, <1>3 DEF Operator

LEMMA ShapeStep == ShapeInv /\ [Next]_vars => ShapeInv'
<1> SUFFICES ASSUME ShapeInv, [Next]_vars PROVE ShapeInv'
  OBVIOUS
<1>1. CASE UNCHANGED vars
  <2>1. TypeOK /\ UNCHANGED <<world, result, deploy, told, ports, plan, setback>>
    BY <1>1 DEF ShapeInv, vars
  <2> QED
    BY <2>1, WorldShape DEF world, result, ports, TypeOK
<1>2. CASE Next
  BY <1>2, EnvironmentSteps, OperatorSteps, AskShape, AnsweredShape, RefreshShape DEF Next
<1> QED
  BY <1>1, <1>2

(* The campaign's state is well formed: a wave runs only within the plan,  *)
(* an executed wave has a row for each of its nodes, and nodes of later    *)
(* waves have none.                                                        *)
THEOREM CampaignTypeOK == Spec => []TypeOK
<1>1. ShapeInv => TypeOK
  BY DEF ShapeInv
<1> QED
  BY InitShape, ShapeStep, <1>1, PTL DEF Spec

-----------------------------------------------------------------------------
LEMMA InitOnce == Init => OnceInv
<1> SUFFICES ASSUME Init PROVE OnceInv
  OBVIOUS
<1>1. \A n \in Nodes : told[n] = 0
  BY DEF Init
<1>2. AskedOnceInv /\ ServedInv
  BY <1>1 DEF Init, AskedOnceInv, ServedInv
<1> QED
  BY <1>2, InitShape DEF Init, OnceInv, AbortedRests

LEMMA OnceStep == OnceInv /\ [Next]_vars => OnceInv'
<1> SUFFICES ASSUME OnceInv, [Next]_vars PROVE OnceInv'
  OBVIOUS
<1>1. /\ ShapeInv /\ AskedOnceInv /\ ServedInv /\ AbortedRests /\ TypeOK
      /\ executed \in Nat /\ Len(plan) \in Nat /\ ShapeInv'
  BY ShapeStep, PlanFacts DEF OnceInv, ShapeInv, TypeOK
<1>2. CASE UNCHANGED <<executed, deploy, told, published, server, plan>> /\ aborted' = aborted
  BY <1>1, <1>2 DEF OnceInv, AskedOnceInv, ServedInv, AbortedRests, deploy, NodesOf
<1>3. CASE Environment
  BY <1>1, <1>2, <1>3, EnvironmentSteps DEF result
<1>4. CASE Operator
  <2>1. /\ todo = {} /\ UNCHANGED <<told, plan>>
        /\ \/ Deploy /\ aborted' = FALSE /\ executed < Len(plan)
           \/ UNCHANGED <<executed, deploy, ports>>
    BY <1>1, <1>4, OperatorSteps DEF Resting
  <2>2. CASE Deploy /\ aborted' = FALSE /\ executed < Len(plan)
    <3>1. /\ asked' = asked
          /\ \/ executed' = executed + 1 /\ todo' = todo
             \/ /\ executed' = executed /\ todo' = plan[executed + 1]
                /\ server' = published' /\ published' # "none"
          /\ server = published /\ published # "none" => server' = published' /\ published' # "none"
      BY <1>1, <2>2, DeployOutcomes DEF NextWave
    <3>2. NodesOf(executed) \subseteq NodesOf(executed)'
      <4>1. NodesOf(executed)' = NodesOf(executed')
        BY <2>1 DEF NodesOf
      <4> QED
        BY <1>1, <3>1, <4>1, NodesOfWaves
    <3>3. AskedOnceInv'
      BY <1>1, <2>1, <3>1, <3>2 DEF AskedOnceInv
    <3>4. ServedInv'
      BY <1>1, <2>1, <3>1 DEF ServedInv
    <3> QED
      BY <1>1, <2>2, <3>3, <3>4 DEF OnceInv, AbortedRests
  <2>3. CASE UNCHANGED <<executed, deploy, ports>>
    <3>1. todo' = {}
      BY <2>1, <2>3 DEF deploy
    <3>2. AskedOnceInv' /\ ServedInv'
      BY <1>1, <2>1, <2>3 DEF AskedOnceInv, ServedInv, deploy, ports, NodesOf
    <3> QED
      BY <1>1, <3>1, <3>2 DEF OnceInv, AbortedRests
  <2> QED
    BY <2>1, <2>2, <2>3
<1>5. ASSUME NEW n \in Nodes, Ask(n)
      PROVE  OnceInv'
  <2>1. /\ n \in todo /\ asked = NoQuestion /\ asked'.node = n
        /\ told' = [told EXCEPT ![n] = @ + 1]
        /\ UNCHANGED <<executed, aborted, todo, ports, plan>>
    BY <1>1, <1>5, AskShape DEF Ask, result
  <2>2. told \in [Nodes -> Nat] /\ todo # {} /\ n \in plan[executed + 1] /\ executed < Len(plan)
    BY <1>1, <2>1 DEF TypeOK
  <2>3. n \notin NodesOf(executed)
    <3>1. SUFFICES ASSUME NEW i \in 1..executed, n \in plan[i] PROVE FALSE
      BY DEF NodesOf
    <3>2. i \in 1..Len(plan) /\ executed + 1 \in 1..Len(plan) /\ i # executed + 1
      BY <1>1, <2>2
    <3>3. plan[i] \cap plan[executed + 1] = {}
      BY <1>1, <3>2, PlanFacts DEF TypeOK
    <3> QED
      BY <2>2, <3>1, <3>3
  <2>4. asked.node \notin Nodes
    BY <2>1 DEF NoQuestion, OtaCampaignAssumption
  <2>5. told[n] = 0
    BY <1>1, <2>1, <2>3, <2>4 DEF AskedOnceInv
  <2>6. NodesOf(executed)' = NodesOf(executed)
    BY <2>1 DEF NodesOf
  <2>7. AskedOnceInv'
    <3> SUFFICES ASSUME NEW m \in Nodes
                 PROVE  /\ told'[m] \in {0, 1}
                        /\ told'[m] = 1 => \/ m \in NodesOf(executed)'
                                           \/ /\ todo' # {}
                                              /\ m \in plan'[executed' + 1] \ (todo' \ {asked'.node})
      BY DEF AskedOnceInv
    <3>1. CASE m = n
      BY <2>1, <2>2, <2>5, <3>1
    <3>2. CASE m # n
      BY <1>1, <2>1, <2>2, <2>4, <2>6, <3>2 DEF AskedOnceInv
    <3> QED
      BY <3>1, <3>2
  <2>8. ServedInv' /\ AbortedRests'
    BY <1>1, <2>1, <2>2 DEF ServedInv, AbortedRests, ports
  <2> QED
    BY <1>1, <2>7, <2>8 DEF OnceInv
<1>6. CASE Answered
  <2>1. /\ asked.node \in todo /\ asked' = NoQuestion /\ todo' = todo \ {asked.node}
        /\ executed' = IF todo' = {} THEN executed + 1 ELSE executed
        /\ UNCHANGED <<aborted, told, ports, plan>>
    BY <1>1, <1>6, AnsweredShape
  <2>2. NodesOf(executed)' = NodesOf(executed') /\ NodesOf(executed + 1) = NodesOf(executed) \cup plan[executed + 1]
    BY <1>1, <2>1, NodesOfWaves DEF NodesOf
  <2>3. AskedOnceInv'
    BY <1>1, <2>1, <2>2 DEF AskedOnceInv
  <2>4. ServedInv' /\ AbortedRests'
    BY <1>1, <2>1 DEF ServedInv, AbortedRests, ports
  <2> QED
    BY <1>1, <2>3, <2>4 DEF OnceInv
<1>7. CASE RefreshCampaign
  BY <1>1, <1>2, <1>7, RefreshShape DEF ports
<1>8. CASE UNCHANGED vars
  BY <1>2, <1>8 DEF vars, result, ports
<1> QED
  BY <1>3, <1>4, <1>5, <1>6, <1>7, <1>8 DEF Next

(* No node is asked twice, and the rollout is served where its manifest    *)
(* says, whatever nodes, ports and the operator do (deploy).               *)
THEOREM NodesAreAskedOnce == Spec => [](ToldOnce /\ ServedAsPublished)
<1>1. OnceInv => ToldOnce /\ ServedAsPublished
  BY DEF OnceInv, AskedOnceInv, ServedInv, ToldOnce, ServedAsPublished
<1> QED
  BY InitOnce, OnceStep, <1>1, PTL DEF Spec

(* An aborted campaign stays so and asks no node again (abort_campaign).   *)
THEOREM AbortIsFinal == Spec => [][StaysAborted]_vars
<1>1. OnceInv /\ [Next]_vars => StaysAborted
  <2> SUFFICES ASSUME OnceInv, [Next]_vars, aborted PROVE aborted' /\ told' = told
    BY DEF StaysAborted
  <2>1. ShapeInv /\ todo = {}
    BY DEF OnceInv, AbortedRests
  <2>2. CASE Environment
    BY <2>1, <2>2, EnvironmentSteps DEF result
  <2>3. CASE Operator
    BY <2>1, <2>3, OperatorSteps
  <2>4. ASSUME NEW n \in Nodes, Ask(n) PROVE FALSE
    BY <2>1, <2>4 DEF Ask, IsNext
  <2>5. CASE Answered
    BY <2>1, <2>5, AnsweredShape
  <2>6. CASE RefreshCampaign
    BY <2>1, <2>6, RefreshShape
  <2>7. CASE UNCHANGED vars
    BY <2>7 DEF vars, result
  <2> QED
    BY <2>2, <2>3, <2>4, <2>5, <2>6, <2>7 DEF Next
<1> QED
  BY InitOnce, OnceStep, <1>1, PTL DEF Spec

-----------------------------------------------------------------------------
LEMMA InitNew == ~Earlier /\ Init => NewInv
<1> SUFFICES ASSUME ~Earlier, Init PROVE NewInv
  OBVIOUS
<1>1. \A n \in Nodes : /\ node[n].boots = 0 /\ node[n].ota = "idle"
                       /\ report[n].boots = 0 /\ report[n].ota = "idle"
  BY DEF Init
<1>2. \A n \in Nodes : status[n].phase = "pending" /\ status[n].base = None
  BY DEF Init, Fresh
<1>3. NodesTell /\ RowsTell
  BY <1>1, <1>2 DEF Init, NodesTell, RowsTell
<1>4. WavesTell
  BY DEF Init, WavesTell
<1> QED
  BY <1>3, <1>4 DEF NewInv

(* A wave that passed has updated each of its nodes, as far as the rows    *)
(* are true (_evaluate_wave_gate).                                         *)
LEMMA PassedIsNew ==
  ASSUME TypeOK, RowsTell, NEW k \in 1..Len(plan), Gate(k) = "passed"
  PROVE  \A m \in plan[k] : node[m].new
<1>1. \A m \in plan[k] : status[m].phase = "confirmed"
  BY DEF Gate
<1> QED
  BY <1>1, PlanFacts DEF TypeOK, RowsTell

(* What the rows, the question and the waves say stays true while nodes    *)
(* keep the new image.                                                     *)
LEMMA RowsAndWavesKeep ==
  ASSUME TypeOK, RowsTell, WavesTell, UNCHANGED <<status, executed, deploy, plan>>,
         \A n \in Nodes : node[n].new => node'[n].new
  PROVE  RowsTell' /\ WavesTell'
<1>1. RowsTell'
  <2>1. asked' = asked /\ status' = status
    BY DEF deploy
  <2>2. asked # NoQuestion => asked.node \in Nodes
    BY DEF TypeOK
  <2> QED
    BY <2>1, <2>2 DEF RowsTell
<1>2. WavesTell'
  <2>1. executed' = executed /\ todo' = todo /\ plan' = plan
    BY DEF deploy
  <2>2. \A k \in 1..executed : plan[k] \subseteq Nodes
    BY PlanFacts DEF TypeOK
  <2> QED
    BY <2>1, <2>2 DEF WavesTell
<1> QED
  BY <1>1, <1>2

LEMMA NewStep == ShapeInv /\ NewInv /\ [Next]_vars => NewInv'
<1> SUFFICES ASSUME ShapeInv, NewInv, [Next]_vars, ~setback'
             PROVE  NodesTell' /\ RowsTell' /\ WavesTell'
  BY DEF NewInv
<1>1. /\ TypeOK /\ executed \in Nat /\ executed \in 0..Len(plan) /\ Len(plan) \in Nat
      /\ \A k \in 1..Len(plan) : plan[k] \subseteq Nodes
  BY PlanFacts DEF ShapeInv, TypeOK
<1>2. CASE Environment
  <2>1. ~setback /\ NodesTell' /\ \A n \in Nodes : node[n].new => node'[n].new
    BY <1>2, EnvironmentSteps DEF NewInv
  <2>2. UNCHANGED <<status, executed, deploy, plan>>
    BY <1>2, EnvironmentSteps DEF result
  <2> QED
    BY <1>1, <2>1, <2>2, RowsAndWavesKeep DEF NewInv
<1>3. CASE Operator
  <2>1. /\ todo = {} /\ node' = node /\ report' = report /\ plan' = plan /\ ~setback
        /\ NodesTell /\ RowsTell /\ WavesTell
    BY <1>3, OperatorSteps DEF Resting, world, NewInv
  <2>2. NodesTell'
    BY <2>1 DEF NodesTell
  <2>3. CASE UNCHANGED <<status, executed, deploy, ports>>
    BY <1>1, <2>1, <2>2, <2>3, RowsAndWavesKeep
  <2>4. CASE /\ Deploy /\ executed < Len(plan)
             /\ executed = 0 \/ Gate(executed) = "passed"
    <3>1. \A k \in 1..executed : \A m \in plan[k] : node[m].new
      <4>1. ASSUME executed # 0
            PROVE  \A m \in plan[executed] : node[m].new
        BY <1>1, <2>1, <2>4, <4>1, PassedIsNew
      <4>2. \A k \in 1..executed : k # executed => \A m \in plan[k] : node[m].new
        BY <1>1, <2>1 DEF WavesTell
      <4> QED
        BY <1>1, <4>1, <4>2
    <3>2. CASE /\ executed' = executed + 1 /\ todo' = todo
               /\ status' = [n \in Nodes |-> IF n \in plan[NextWave]
                                             THEN [Fresh EXCEPT !.phase = "failed"]
                                             ELSE status[n]]
      <4>1. asked' = asked
        BY <1>1, <2>4, DeployOutcomes
      <4>2. [Fresh EXCEPT !.phase = "failed"].phase = "failed"
            /\ [Fresh EXCEPT !.phase = "failed"].base = None
        BY DEF Fresh
      <4>3. RowsTell'
        BY <2>1, <3>2, <4>1, <4>2 DEF RowsTell
      <4>4. WavesTell'
        BY <1>1, <2>1, <3>1, <3>2 DEF WavesTell
      <4> QED
        BY <2>2, <4>3, <4>4
    <3>3. CASE UNCHANGED <<status, executed>> /\ todo' = plan[NextWave]
      <4>1. asked' = asked
        BY <1>1, <2>4, DeployOutcomes
      <4>2. RowsTell'
        BY <2>1, <3>3, <4>1 DEF RowsTell
      <4>3. WavesTell'
        BY <2>1, <3>1, <3>3 DEF WavesTell
      <4> QED
        BY <2>2, <4>2, <4>3
    <3> QED
      BY <1>1, <2>4, <3>2, <3>3, DeployOutcomes
  <2> QED
    BY <1>3, <2>3, <2>4, OperatorSteps
<1>4. ASSUME NEW n \in Nodes, Ask(n)
      PROVE  NodesTell' /\ RowsTell' /\ WavesTell'
  <2>1. /\ asked'.node = n /\ asked'.base \in {None, report[n].boots}
        /\ \A m \in Nodes : /\ node'[m].new = node[m].new
                            /\ node'[m].boots = node[m].boots
                            /\ node'[m].ota \in {node[m].ota, "triggered"}
        /\ UNCHANGED <<report, status, executed, todo, plan, setback>>
    BY <1>4, AskShape DEF Ask, result
  <2>2. NodesTell /\ RowsTell /\ WavesTell
    BY <2>1 DEF NewInv
  <2>3. NodesTell'
    BY <2>1, <2>2 DEF NodesTell
  <2>4. RowsTell'
    BY <2>1, <2>2 DEF RowsTell, NodesTell
  <2>5. WavesTell'
    BY <1>1, <2>1, <2>2 DEF WavesTell
  <2> QED
    BY <2>3, <2>4, <2>5
<1>5. CASE Answered
  <2>1. /\ asked.node \in todo /\ asked # NoQuestion /\ asked' = NoQuestion
        /\ todo' = todo \ {asked.node}
        /\ executed' = IF todo' = {} THEN executed + 1 ELSE executed
        /\ UNCHANGED <<node, report, plan, setback>>
        /\ status'[asked.node].base = asked.base
        /\ status'[asked.node].phase = "confirmed" =>
             \/ report[asked.node].ota = "confirmed"
             \/ asked.base # None /\ report[asked.node].boots # asked.base
        /\ \A m \in Nodes \ {asked.node} : status'[m] = status[m]
    BY <1>5, AnsweredShape DEF world
  <2>2. NodesTell /\ RowsTell /\ WavesTell /\ asked.node \in Nodes
    BY <1>1, <2>1 DEF NewInv, TypeOK
  <2>3. NodesTell'
    BY <2>1, <2>2 DEF NodesTell
  <2>4. RowsTell'
    <3>1. status'[asked.node].phase = "confirmed" \/ status'[asked.node].base \notin {0, None} =>
            node[asked.node].new
      BY <2>1, <2>2 DEF NodesTell, RowsTell
    <3> QED
      BY <2>1, <2>2, <3>1 DEF RowsTell
  <2>5. WavesTell'
    BY <1>1, <2>1, <2>2 DEF WavesTell
  <2> QED
    BY <2>3, <2>4, <2>5
<1>6. CASE RefreshCampaign
  <2>1. /\ UNCHANGED <<node, report, executed, todo, asked, plan, setback>>
        /\ \A n \in Nodes :
             /\ status'[n].base = status[n].base
             /\ status'[n].phase = "confirmed" =>
                  \/ status[n].phase = "confirmed"
                  \/ report[n].ota = "confirmed"
                  \/ status[n].base # None /\ report[n].boots # status[n].base
    BY <1>6, RefreshShape DEF world, deploy
  <2>2. NodesTell /\ RowsTell /\ WavesTell
    BY <2>1 DEF NewInv
  <2>3. NodesTell' /\ WavesTell'
    BY <2>1, <2>2 DEF NodesTell, WavesTell
  <2>4. RowsTell'
    BY <2>1, <2>2 DEF RowsTell, NodesTell
  <2> QED
    BY <2>3, <2>4
<1>7. CASE UNCHANGED vars
  <2>1. UNCHANGED <<node, report, status, executed, deploy, plan, setback>>
    BY <1>7 DEF vars, world, result
  <2> QED
    BY <1>1, <2>1, RowsAndWavesKeep DEF NewInv, NodesTell
<1> QED
  BY <1>2, <1>3, <1>4, <1>5, <1>6, <1>7 DEF Next

(* As long as no node was set back, a node the campaign calls updated runs *)
(* the new image; none is asked twice; and what a node may fetch is served *)
(* where its manifest says, unless nodes report an earlier update's end.   *)
THEOREM CampaignIsSound == ~Earlier /\ Spec => []CampaignIsTrue
<1>1. OnceInv /\ NewInv => CampaignIsTrue
  BY DEF OnceInv, AskedOnceInv, ServedInv, NewInv, RowsTell,
         CampaignIsTrue, ConfirmedRunsNew, ToldOnce, ServedAsPublished
<1>2. OnceInv => ShapeInv
  BY DEF OnceInv
<1> QED
  BY InitOnce, OnceStep, InitNew, NewStep, <1>1, <1>2, PTL DEF Spec

(* A node is asked only when the nodes of all waves before its own run the *)
(* new image, unless one was set back or reports an earlier update's end;  *)
(* and an aborted campaign asks no node (continue_campaign).               *)
THEOREM WavesAreInTurn == ~Earlier /\ Spec => WavesWait
<1>1. ShapeInv /\ NewInv /\ [Next]_vars => AskedInTurn
  <2> SUFFICES ASSUME ShapeInv, NewInv, [Next]_vars, ~setback,
                      NEW k \in DOMAIN plan, NEW n \in plan[k], told'[n] # told[n],
                      NEW m \in NodesOf(k - 1)
               PROVE  node[m].new
    BY DEF AskedInTurn
  <2>1. /\ TypeOK /\ DOMAIN plan = 1..Len(plan) /\ Len(plan) \in Nat /\ plan[k] \subseteq Nodes
        /\ executed \in 0..Len(plan)
    BY PlanFacts DEF ShapeInv, TypeOK
  <2>2. Ask(n)
    <3>1. CASE Environment
      BY <3>1, EnvironmentSteps
    <3>2. CASE Operator
      BY <3>2, OperatorSteps
    <3>3. ASSUME NEW l \in Nodes, Ask(l) PROVE Ask(n)
      <4>1. told' = [told EXCEPT ![l] = @ + 1]
        BY <3>3, AskShape
      <4>2. l = n
        BY <2>1, <4>1 DEF TypeOK
      <4> QED
        BY <3>3, <4>2
    <3>4. CASE Answered
      BY <3>4, AnsweredShape
    <3>5. CASE RefreshCampaign
      BY <3>5, RefreshShape
    <3>6. CASE UNCHANGED vars
      BY <3>6 DEF vars
    <3> QED
      BY <3>1, <3>2, <3>3, <3>4, <3>5, <3>6 DEF Next
  <2>3. n \in todo /\ executed < Len(plan) /\ n \in plan[executed + 1]
    BY <2>1, <2>2, AskShape DEF TypeOK
  <2>4. k = executed + 1
    <3>1. executed + 1 \in 1..Len(plan) /\ k \in 1..Len(plan)
      BY <2>1, <2>3
    <3>2. k # executed + 1 => plan[k] \cap plan[executed + 1] = {}
      BY <2>1, <3>1, PlanFacts DEF TypeOK
    <3> QED
      BY <2>3, <3>2
  <2>5. PICK i \in 1..executed : m \in plan[i]
    BY <2>1, <2>4 DEF NodesOf
  <2> QED
    BY <2>3, <2>5 DEF NewInv, WavesTell
<1>2. OnceInv => ShapeInv
  BY DEF OnceInv
<1> QED
  BY InitOnce, OnceStep, InitNew, NewStep, AbortIsFinal, <1>1, <1>2, PTL DEF Spec, WavesWait

-----------------------------------------------------------------------------
(* Where nodes are.  Whatever is kept of a node's address, in the          *)
(* summaries, in what a thread has read of them and in the cache, comes    *)
(* from a packet of that node, and says no later time than that of the     *)
(* last one heard from there.                                              *)
ViewConstants ==
  /\ Nodes \subseteq Nat \ {0} /\ Addresses \subseteq Nat \ {0}
  /\ StaleAfter \in Nat /\ Polls \in Nat
LookerNames == {"gui", "http", "cmd"}
PacketRecords == [node : Nodes \cup {0}, ip : Nat, at : Int]
SummaryRecords == [evt : PacketRecords, stat : PacketRecords]
Entries == [ip : Nat, at : Int]
Requests == [at : {"idle", "cache", "look", "wait", "refused"}, node : Nodes \cup {0}, ip : Nat,
             polls : Int, before : Nat, of : Nat]
ViewTypes ==
  /\ now \in Nat /\ address \in [Nodes -> Addresses] /\ source \in [Nodes -> Nat]
  /\ heard \in [Nodes -> [Addresses -> Int]]
  /\ \A n \in Nodes, a \in Addresses : heard[n][a] <= now
  /\ vLeft \in [packets : Nat, moves : Nat, commands : Nat, views : Nat, sessions : Nat]

HeardFrom(h, n, ip, at) == n \in Nodes /\ ip \in Addresses /\ at \in Nat /\ at <= h[n][ip]
RealSummary(h, s) ==
  /\ s \in SummaryRecords
  /\ \A k \in {"evt", "stat"} : s[k].node # 0 => HeardFrom(h, s[k].node, s[k].ip, s[k].at)
RealCache(h, c) ==
  /\ c \in [Nodes -> Entries]
  /\ \A n \in Nodes : c[n].ip # 0 => HeardFrom(h, n, c[n].ip, c[n].at)
LooksAreReal ==
  /\ looks \in [LookerNames -> [busy : BOOLEAN, seen : SummaryRecords, now : Nat]]
  /\ \A t \in LookerNames : RealSummary(heard, looks[t].seen)
CommandIsReal ==
  /\ cmd \in Requests
  /\ cmd.at # "idle" => cmd.node \in Nodes
  /\ cmd.at = "wait" => HeardFrom(heard, cmd.node, cmd.ip, 0)
ShownIsReal ==
  view.status = "resolved" =>
    /\ view.at \in Nat
    /\ \E t \in Nat : HeardFrom(heard, view.node, view.ip, t) /\ view.at - t <= StaleAfter
ViewInv ==
  /\ ViewTypes /\ RealSummary(heard, summary) /\ RealCache(heard, vCache) /\ LooksAreReal
  /\ CommandIsReal /\ ShownIsReal

LEMMA ViewConstantsHold == ViewConstants /\ 0 \notin Nodes
BY MCOperatorAssumption DEF ViewConstants, Showing!NodeViewAssumption

LEMMA ViewStarts ==
  ASSUME Sending!Init \/ Showing!Init
  PROVE  ViewInv
<1> USE ViewConstantsHold DEF ViewConstants, Sending!Init, Showing!Init
<1>1. ViewTypes
  BY MCOperatorAssumption DEF ViewTypes, Showing!NodeViewAssumption, Sending!NodeViewAssumption
<1>2. RealSummary(heard, summary)
  BY DEF RealSummary, SummaryRecords, PacketRecords, Sending!NoSummary, Showing!NoSummary,
     Sending!NoPacket, Showing!NoPacket
<1>3. RealCache(heard, vCache)
  BY DEF RealCache, Entries, Sending!Nowhere, Showing!Nowhere
<1>4. LooksAreReal
  <2>1. looks = [t \in LookerNames |-> [busy |-> FALSE, seen |-> Showing!NoSummary, now |-> 0]]
    BY DEF LookerNames, Sending!Lookers, Showing!Lookers, Sending!NoLook, Showing!NoLook,
       Sending!NoSummary, Showing!NoSummary, Sending!NoPacket, Showing!NoPacket
  <2>2. RealSummary(heard, Showing!NoSummary)
    BY DEF RealSummary, SummaryRecords, PacketRecords, Showing!NoSummary, Showing!NoPacket
  <2>3. Showing!NoSummary \in SummaryRecords
    BY <2>2 DEF RealSummary
  <2> QED
    BY <2>1, <2>2, <2>3 DEF LooksAreReal
<1>5. CommandIsReal
  BY DEF CommandIsReal, Requests, Sending!NoCommand, Showing!NoCommand
<1>6. ShownIsReal
  BY DEF ShownIsReal, Sending!NoView, Showing!NoView
<1> QED
  BY <1>1, <1>2, <1>3, <1>4, <1>5, <1>6 DEF ViewInv

(* The two parts differ in what they begin with, not in what can happen.   *)
LEMMA SendingIsShowing ==
  ASSUME Sending!Next
  PROVE  Showing!Next
BY DEF Sending!Next, Sending!Packet, Sending!Move, Sending!Tick, Sending!Start, Sending!Stop,
   Sending!GuiLooks, Sending!GuiCopies, Sending!HttpLooks, Sending!HttpShows, Sending!Click,
   Sending!RebootVerified, Sending!Worker, Sending!FromCache, Sending!CommandLooks,
   Sending!CommandCopies, Sending!End, Sending!Ended, Sending!Spend, Sending!Forgotten,
   Sending!BeginLook, Sending!EndLook, Sending!Refreshed, Sending!Copied, Sending!StatusOf,
   Sending!MessageOf, Sending!Active, Sending!NoCommand, Sending!NoLook, Sending!NoSummary,
   Sending!NoPacket, Sending!Nowhere,
   Showing!Next, Showing!Packet, Showing!Move, Showing!Tick, Showing!Start, Showing!Stop,
   Showing!GuiLooks, Showing!GuiCopies, Showing!HttpLooks, Showing!HttpShows, Showing!Click,
   Showing!RebootVerified, Showing!Worker, Showing!FromCache, Showing!CommandLooks,
   Showing!CommandCopies, Showing!End, Showing!Ended, Showing!Spend, Showing!Forgotten,
   Showing!BeginLook, Showing!EndLook, Showing!Refreshed, Showing!Copied, Showing!StatusOf,
   Showing!MessageOf, Showing!Active, Showing!NoCommand, Showing!NoLook, Showing!NoSummary,
   Showing!NoPacket, Showing!Nowhere

LEMMA HeardIsATime ==
  ASSUME ViewTypes, NEW n \in Nodes, NEW a \in Addresses
  PROVE  heard[n][a] \in Int
BY DEF ViewTypes

(* What was heard stays heard.                                             *)
HeardGrows == \A n \in Nodes, a \in Addresses : heard[n][a] <= heard'[n][a]

LEMMA HeardStays ==
  ASSUME ViewTypes, ViewTypes', HeardGrows
  PROVE  /\ \A n, ip, at : HeardFrom(heard, n, ip, at) => HeardFrom(heard', n, ip, at)
         /\ \A s : RealSummary(heard, s) => RealSummary(heard', s)
         /\ \A c : RealCache(heard, c) => RealCache(heard', c)
<1>1. ASSUME NEW n, NEW ip, NEW at, HeardFrom(heard, n, ip, at)
      PROVE  HeardFrom(heard', n, ip, at)
  BY <1>1 DEF HeardFrom, HeardGrows, ViewTypes
<1>2. ASSUME NEW s, RealSummary(heard, s)
      PROVE  RealSummary(heard', s)
  BY <1>1, <1>2 DEF RealSummary
<1>3. ASSUME NEW c, RealCache(heard, c)
      PROVE  RealCache(heard', c)
  BY <1>1, <1>3 DEF RealCache
<1> QED
  BY <1>1, <1>2, <1>3

(* Copying the EVT and then the STAT of a summary into the cache.          *)
LEMMA RefreshedIsReal ==
  ASSUME NEW h, NEW c, RealCache(h, c), NEW s, RealSummary(h, s)
  PROVE  RealCache(h, Showing!Refreshed(c, s))
<1>1. ASSUME NEW d, RealCache(h, d), NEW k \in {"evt", "stat"}
      PROVE  RealCache(h, Showing!Copied(d, s[k]))
  <2>1. CASE s[k].node = 0
    BY <1>1, <2>1 DEF Showing!Copied
  <2>2. CASE s[k].node # 0
    <3>1. HeardFrom(h, s[k].node, s[k].ip, s[k].at) /\ s[k] \in PacketRecords
      BY <1>1, <2>2 DEF RealSummary, SummaryRecords
    <3>2. s[k].node \in Nodes /\ [ip |-> s[k].ip, at |-> s[k].at] \in Entries
      BY <3>1 DEF HeardFrom, PacketRecords, Entries
    <3>3. Showing!Copied(d, s[k]) = [d EXCEPT ![s[k].node] = [ip |-> s[k].ip, at |-> s[k].at]]
      BY <2>2 DEF Showing!Copied
    <3> QED
      BY <1>1, <3>1, <3>2, <3>3 DEF RealCache
  <2> QED
    BY <2>1, <2>2
<1>2. RealCache(h, Showing!Copied(c, s["evt"]))
  BY <1>1
<1>3. RealCache(h, Showing!Copied(Showing!Copied(c, s["evt"]), s["stat"]))
  BY <1>1, <1>2
<1> QED
  BY <1>3 DEF Showing!Refreshed

(* The thread begins to look, or writes what it has read to the cache.     *)
LEMMA LookIsReal ==
  ASSUME ViewInv, NEW t \in LookerNames, UNCHANGED <<heard, summary>>
  PROVE  /\ Showing!BeginLook(t) => LooksAreReal'
         /\ Showing!EndLook(t) => LooksAreReal' /\ RealCache(heard, vCache')
<1>0. ViewTypes /\ RealSummary(heard, summary) /\ RealCache(heard, vCache) /\ LooksAreReal
  BY DEF ViewInv
<1>1. ASSUME Showing!BeginLook(t)
      PROVE  LooksAreReal'
  <2>1. /\ looks' = [looks EXCEPT ![t] = [busy |-> TRUE, seen |-> summary, now |-> now]]
        /\ summary \in SummaryRecords /\ now \in Nat
    BY <1>0, <1>1 DEF Showing!BeginLook, RealSummary, ViewTypes
  <2> QED
    BY <1>0, <2>1 DEF LooksAreReal
<1>2. ASSUME Showing!EndLook(t)
      PROVE  LooksAreReal' /\ RealCache(heard, vCache')
  <2>1. /\ looks' = [looks EXCEPT ![t] = Showing!NoLook]
        /\ vCache' = Showing!Refreshed(vCache, looks[t].seen)
    BY <1>2 DEF Showing!EndLook
  <2>2. /\ Showing!NoLook \in [busy : BOOLEAN, seen : SummaryRecords, now : Nat]
        /\ RealSummary(heard, Showing!NoLook.seen)
    BY ViewConstantsHold DEF Showing!NoLook, Showing!NoSummary, Showing!NoPacket, SummaryRecords,
       PacketRecords, RealSummary
  <2>3. LooksAreReal'
    BY <1>0, <2>1, <2>2 DEF LooksAreReal
  <2> QED
    BY <1>0, <2>1, <2>3, RefreshedIsReal DEF LooksAreReal
<1> QED
  BY <1>1, <1>2

(* A request that goes on, with an address or with fewer looks left.       *)
LEMMA RequestIsSent ==
  ASSUME NEW c \in Requests, NEW i \in Nat
  PROVE  /\ [c EXCEPT !.at = "wait", !.ip = i] \in Requests
         /\ [c EXCEPT !.at = "wait", !.ip = i].node = c.node
         /\ [c EXCEPT !.at = "wait", !.ip = i].ip = i
<1>1. [c EXCEPT !.at = "wait", !.ip = i] \in Requests
  BY Zenon DEF Requests
<1>2. /\ [c EXCEPT !.at = "wait", !.ip = i].node = c.node
      /\ [c EXCEPT !.at = "wait", !.ip = i].ip = i
  BY Zenon DEF Requests
<1> QED
  BY <1>1, <1>2

LEMMA RequestLooks ==
  ASSUME NEW c \in Requests, NEW p \in Int
  PROVE  /\ [c EXCEPT !.at = "cache", !.polls = p] \in Requests
         /\ [c EXCEPT !.at = "cache", !.polls = p].at = "cache"
         /\ [c EXCEPT !.at = "cache", !.polls = p].node = c.node
BY Zenon DEF Requests

LEMMA ViewStep ==
  ASSUME ViewInv, Showing!Next
  PROVE  ViewInv'
<1> USE ViewConstantsHold DEF ViewConstants
<1>0. /\ ViewTypes /\ RealSummary(heard, summary) /\ RealCache(heard, vCache) /\ LooksAreReal
      /\ CommandIsReal /\ ShownIsReal
  BY DEF ViewInv
(* A packet is the last word on its node.                                  *)
<1>1. ASSUME NEW k \in {"evt", "stat"}, NEW n \in Nodes, Showing!Packet(k, n)
      PROVE  ViewInv'
  <2> DEFINE r == [node |-> n, ip |-> address[n], at |-> now]
  <2>1. /\ summary' = [summary EXCEPT ![k] = r]
        /\ heard' = [heard EXCEPT ![n][address[n]] = now]
        /\ source' = [source EXCEPT ![n] = address[n]]
        /\ UNCHANGED <<address, vCache, looks, cmd, view, now>>
        /\ vLeft["packets"] > 0 /\ vLeft' = [vLeft EXCEPT !["packets"] = @ - 1]
    BY <1>1 DEF Showing!Packet, Showing!Spend
  <2>2. address[n] \in Addresses /\ now \in Nat /\ address[n] \in Nat
    BY <1>0 DEF ViewTypes
  <2>3. ViewTypes'
    <3> DEFINE h == [heard[n] EXCEPT ![address[n]] = now]
    <3>1. heard' = [heard EXCEPT ![n] = h] /\ h \in [Addresses -> Int]
      BY <1>0, <2>1, <2>2 DEF ViewTypes
    <3>2. \A a \in Addresses : h[a] <= now
      BY <1>0, <2>2 DEF ViewTypes
    <3> HIDE DEF h
    <3>3. heard' \in [Nodes -> [Addresses -> Int]] /\ \A m \in Nodes, a \in Addresses : heard'[m][a] <= now
      BY <1>0, <3>1, <3>2 DEF ViewTypes
    <3>4. source' \in [Nodes -> Nat]
      BY <1>0, <2>1, <2>2 DEF ViewTypes
    <3>5. vLeft' \in [packets : Nat, moves : Nat, commands : Nat, views : Nat, sessions : Nat]
      BY <1>0, <2>1 DEF ViewTypes
    <3> QED
      BY <1>0, <2>1, <3>3, <3>4, <3>5 DEF ViewTypes
  <2>4. HeardGrows
    BY <1>0, <2>1, <2>2 DEF ViewTypes, HeardGrows
  <2>5. RealSummary(heard', summary')
    <3>1. HeardFrom(heard', r.node, r.ip, r.at) /\ r \in PacketRecords
      BY <1>0, <2>1, <2>2 DEF HeardFrom, PacketRecords, ViewTypes
    <3>2. RealSummary(heard', summary)
      BY <1>0, <2>3, <2>4, HeardStays
    <3> HIDE DEF r
    <3> QED
      BY <1>0, <2>1, <3>1, <3>2 DEF RealSummary, SummaryRecords
  <2>6. RealCache(heard', vCache') /\ LooksAreReal'
    BY <1>0, <2>1, <2>3, <2>4, HeardStays DEF LooksAreReal
  <2>7. CommandIsReal' /\ ShownIsReal'
    BY <1>0, <2>1, <2>3, <2>4, HeardStays DEF CommandIsReal, ShownIsReal
  <2> QED
    BY <2>3, <2>5, <2>6, <2>7 DEF ViewInv
<1>2. ASSUME NEW n \in Nodes, NEW a \in Addresses, Showing!Move(n, a)
      PROVE  ViewInv'
  <2>1. ViewTypes'
    <3>1. address' \in [Nodes -> Addresses]
      BY <1>0, <1>2 DEF ViewTypes, Showing!Move
    <3>2. vLeft' \in [packets : Nat, moves : Nat, commands : Nat, views : Nat, sessions : Nat]
      BY <1>0, <1>2 DEF ViewTypes, Showing!Move, Showing!Spend
    <3> QED
      BY <1>0, <1>2, <3>1, <3>2 DEF ViewTypes, Showing!Move
  <2> QED
    BY <1>0, <1>2, <2>1 DEF ViewInv, LooksAreReal, CommandIsReal, ShownIsReal, Showing!Move
<1>3. CASE Showing!Tick
  <2>1. ViewTypes'
    BY <1>0, <1>3 DEF ViewTypes, Showing!Tick
  <2> QED
    BY <1>0, <1>3, <2>1 DEF ViewInv, LooksAreReal, CommandIsReal, ShownIsReal, Showing!Tick
<1>4. CASE Showing!Start \/ Showing!Stop
  <2>1. ViewTypes'
    BY <1>0, <1>4 DEF ViewTypes, Showing!Start, Showing!Stop, Showing!Forgotten, Showing!Spend
  <2>2. RealSummary(heard', summary')
    BY <1>4 DEF Showing!Start, Showing!Stop, Showing!NoSummary, Showing!NoPacket, RealSummary,
       SummaryRecords, PacketRecords
  <2>3. RealCache(heard', vCache')
    BY <1>4 DEF Showing!Start, Showing!Stop, Showing!Forgotten, Showing!Nowhere, RealCache, Entries
  <2> QED
    BY <1>0, <1>4, <2>1, <2>2, <2>3 DEF ViewInv, LooksAreReal, CommandIsReal, ShownIsReal,
       Showing!Start, Showing!Stop
<1>5. CASE Showing!GuiLooks \/ Showing!HttpLooks \/ Showing!GuiCopies
  <2>1. ViewTypes' /\ UNCHANGED <<heard, summary, cmd, view>>
    BY <1>0, <1>5 DEF ViewTypes, Showing!GuiLooks, Showing!HttpLooks, Showing!GuiCopies,
       Showing!Spend
  <2>2. LooksAreReal' /\ RealCache(heard, vCache')
    BY <1>0, <1>5, <2>1, LookIsReal DEF LookerNames, Showing!GuiLooks, Showing!HttpLooks,
       Showing!GuiCopies
  <2> QED
    BY <1>0, <2>1, <2>2 DEF ViewInv, CommandIsReal, ShownIsReal
(* What is shown as resolved is in the cache, and not too old.             *)
<1>6. ASSUME NEW n \in Nodes, Showing!HttpShows(n)
      PROVE  ViewInv'
  <2>1. /\ Showing!EndLook("http") /\ UNCHANGED <<heard, summary, cmd>> /\ ViewTypes'
        /\ view'.node = n /\ view'.ip = vCache'[n].ip /\ view'.at = looks["http"].now
        /\ view'.status = Showing!StatusOf(vCache'[n], looks["http"].now)
    BY <1>0, <1>6 DEF ViewTypes, Showing!HttpShows
  <2>2. LooksAreReal' /\ RealCache(heard, vCache')
    BY <2>1, LookIsReal DEF LookerNames
  <2>3. ShownIsReal'
    <3> SUFFICES ASSUME view'.status = "resolved" PROVE ShownIsReal'
      BY DEF ShownIsReal
    <3>1. vCache'[n].ip # 0 /\ ~(looks["http"].now - vCache'[n].at > StaleAfter)
      BY <2>1 DEF Showing!StatusOf
    <3>2. HeardFrom(heard, n, vCache'[n].ip, vCache'[n].at)
      BY <2>2, <3>1 DEF RealCache
    <3>3. vCache'[n].at \in Nat /\ looks["http"].now \in Nat
      BY <1>0, <3>2 DEF HeardFrom, LooksAreReal, LookerNames
    <3> QED
      BY <2>1, <3>1, <3>2, <3>3 DEF ShownIsReal
  <2> QED
    BY <1>0, <2>1, <2>2, <2>3 DEF ViewInv, CommandIsReal
<1>7. ASSUME NEW n \in Nodes, Showing!Click(n)
      PROVE  ViewInv'
  <2>1. ViewTypes' /\ UNCHANGED <<heard, summary, vCache, looks, view>>
    BY <1>0, <1>7 DEF ViewTypes, Showing!Click, Showing!Spend
  <2>2. /\ cmd' = [at |-> "cache", node |-> n, ip |-> 0, polls |-> Polls, before |-> source[n],
                   of |-> vLeft.sessions]
        /\ source[n] \in Nat /\ vLeft.sessions \in Nat
    BY <1>0, <1>7 DEF ViewTypes, Showing!Click, Showing!NoCommand
  <2>3. CommandIsReal'
    BY <2>2 DEF CommandIsReal, Requests
  <2> QED
    BY <1>0, <2>1, <2>3 DEF ViewInv, LooksAreReal, ShownIsReal
(* The address of a command is what the cache has of its node.             *)
<1>8. CASE Showing!FromCache
  <2>1. ViewTypes' /\ UNCHANGED <<heard, summary, vCache, looks, view>>
    BY <1>0, <1>8 DEF ViewTypes, Showing!FromCache
  <2>2. cmd.node \in Nodes /\ cmd \in Requests
    BY <1>0, <1>8 DEF CommandIsReal, Showing!FromCache
  <2>3. CommandIsReal'
    <3>1. CASE vCache[cmd.node].ip # 0 /\ cmd' = [cmd EXCEPT !.at = "wait", !.ip = vCache[cmd.node].ip]
      <4>1. HeardFrom(heard, cmd.node, vCache[cmd.node].ip, vCache[cmd.node].at)
        BY <1>0, <2>2, <3>1 DEF RealCache
      <4>2. HeardFrom(heard, cmd.node, vCache[cmd.node].ip, 0) /\ vCache[cmd.node].ip \in Nat
        <5>1. vCache[cmd.node].at <= heard[cmd.node][vCache[cmd.node].ip]
          BY <4>1 DEF HeardFrom
        <5>2. /\ cmd.node \in Nodes /\ vCache[cmd.node].ip \in Addresses
              /\ vCache[cmd.node].ip \in Nat /\ vCache[cmd.node].at \in Nat
          BY <4>1 DEF HeardFrom
        <5>3. heard[cmd.node][vCache[cmd.node].ip] \in Int
          BY <1>0, <5>2, HeardIsATime
        <5> QED
          BY <5>1, <5>2, <5>3 DEF HeardFrom
      <4>3. cmd' \in Requests
        BY <2>2, <3>1, <4>2, RequestIsSent, Zenon
      <4>4. cmd'.node = cmd.node /\ cmd'.ip = vCache[cmd.node].ip
        BY <2>2, <3>1, <4>2, RequestIsSent, Zenon
      <4> QED
        BY <2>1, <2>2, <4>2, <4>3, <4>4 DEF CommandIsReal
    <3>2. CASE \E s \in {"look", "refused"} : cmd' = [cmd EXCEPT !.at = s]
      BY <2>2, <3>2 DEF CommandIsReal, Requests
    <3> QED
      BY <1>8, <3>1, <3>2 DEF Showing!FromCache
  <2> QED
    BY <1>0, <2>1, <2>3 DEF ViewInv, LooksAreReal, ShownIsReal
<1>9. CASE Showing!CommandLooks
  <2>1. ViewTypes' /\ UNCHANGED <<heard, summary, vCache, view>>
    BY <1>0, <1>9 DEF ViewTypes, Showing!CommandLooks
  <2>2. CommandIsReal'
    <3>1. cmd' = [cmd EXCEPT !.at = "cache", !.polls = @ - 1] /\ cmd.at = "look"
      BY <1>9 DEF Showing!CommandLooks
    <3>2. cmd' \in Requests /\ cmd'.at = "cache" /\ cmd'.node = cmd.node
      <4>1. cmd \in Requests /\ cmd.polls - 1 \in Int
        BY <1>0 DEF CommandIsReal, Requests
      <4> QED
        BY <3>1, <4>1, RequestLooks, Zenon
    <3> QED
      BY <1>0, <3>1, <3>2 DEF CommandIsReal
  <2>3. LooksAreReal'
    BY <1>0, <1>9, <2>1, LookIsReal DEF LookerNames, LooksAreReal, Showing!CommandLooks
  <2> QED
    BY <1>0, <2>1, <2>2, <2>3 DEF ViewInv, ShownIsReal
<1>10. CASE Showing!CommandCopies
  <2>1. ViewTypes' /\ UNCHANGED <<heard, summary, cmd, view>>
    BY <1>0, <1>10 DEF ViewTypes, Showing!CommandCopies
  <2>2. LooksAreReal' /\ RealCache(heard, vCache')
    BY <1>10, <2>1, LookIsReal DEF LookerNames, Showing!CommandCopies
  <2> QED
    BY <1>0, <2>1, <2>2 DEF ViewInv, CommandIsReal, ShownIsReal
<1>11. CASE Showing!End \/ \E n \in Nodes : Showing!RebootVerified(n)
  <2>1. ViewTypes' /\ UNCHANGED <<heard, summary, vCache, looks, view>>
    BY <1>0, <1>11 DEF ViewTypes, Showing!End, Showing!RebootVerified
  <2>2. CommandIsReal'
    BY <1>0, <1>11, <2>1 DEF CommandIsReal, Requests, Showing!End, Showing!RebootVerified,
       Showing!NoCommand
  <2> QED
    BY <1>0, <2>1, <2>2 DEF ViewInv, LooksAreReal, ShownIsReal
<1> QED
  BY <1>1, <1>2, <1>3, <1>4, <1>5, <1>6, <1>7, <1>8, <1>9, <1>10, <1>11
  DEF Showing!Next, Showing!Worker

(* However the addresses of nodes change and the summaries of several      *)
(* nodes follow one another: a command goes to an address its own node was *)
(* heard from, and a node shown as reachable was heard there within the    *)
(* limit (_resolve_node_udp_ip, _refresh_control_plane_ip_cache).          *)
THEOREM AddressesAreTheNodes == MCSpec => []TargetIsTheNodes
<1>1. MCInit => ViewInv
  BY ViewStarts DEF MCInit, PanelIdle, NoPanel
<1>2. ViewInv /\ [MCNext]_mcVars => ViewInv'
  <2>1. ASSUME ViewInv, UNCHANGED places PROVE ViewInv'
    BY <2>1 DEF places, ViewInv, ViewTypes, LooksAreReal, CommandIsReal, ShownIsReal
  <2> QED
    BY <2>1, ViewStep, SendingIsShowing DEF MCNext, mcVars, Places, Panel, Campaign
<1>3. ViewInv => TargetIsTheNodes
  <2> SUFFICES ASSUME ViewInv PROVE Sending!TargetIsTheNodes /\ Showing!ResolvedMeansHeard
    BY DEF TargetIsTheNodes
  <2>1. Sending!TargetIsTheNodes
    BY DEF ViewInv, CommandIsReal, HeardFrom, Sending!TargetIsTheNodes
  <2>2. Showing!ResolvedMeansHeard
    <3> SUFFICES ASSUME view.status = "resolved"
                 PROVE  heard[view.node][view.ip] >= view.at - StaleAfter
      BY DEF Showing!ResolvedMeansHeard
    <3>1. view.at \in Nat
      BY DEF ViewInv, ShownIsReal
    <3>2. PICK t \in Nat : HeardFrom(heard, view.node, view.ip, t) /\ view.at - t <= StaleAfter
      BY DEF ViewInv, ShownIsReal
    <3>3. heard[view.node][view.ip] \in Int /\ t <= heard[view.node][view.ip]
      BY <3>2 DEF ViewInv, ViewTypes, HeardFrom
    <3> QED
      BY <3>1, <3>2, <3>3, ViewConstantsHold DEF ViewConstants
  <2> QED
    BY <2>1, <2>2
<1> QED
  BY <1>1, <1>2, <1>3, PTL DEF MCSpec
-----------------------------------------------------------------------------
(* The panel.  Records of its thread, of the last STATs and of the bounds, *)
(* for the nodes N of the part that runs.                                  *)
Asks(N) == [id : Int, cmd : {"none", "PING", "REBOOT_SOFT"}, node : N]
TxRecords == [seq : Int, order : Int]
Reasons == {"power", "soft"}
StatRecords == [up : Int, boot : Int, why : Reasons]
ThreadPlaces == {"none", "start", "send", "ping", "stat", "look", "quits", "quit"}
Threads(N) ==
  [run : Asks(N), at : ThreadPlaces, tx : TxRecords, base : StatRecords, last : Int,
   cut : BOOLEAN, back : BOOLEAN, tries : Int, since : Int, accepted : Int, missed : BOOLEAN]
Bounds == [runs : Int, other : Int, losses : Int, reboots : Int, sessions : Int, order : Int]
(* Types, for the nodes N.                                                 *)
PanelTypes(N) ==
  /\ avail \subseteq N /\ query \subseteq N /\ sel \in N \cup {0}
  /\ cur \in Asks(N) /\ worker \in Threads(N)
  /\ snap \in [N -> TxRecords] /\ local \in [N -> TxRecords]
  /\ seq \in 0..(SeqMod - 1) /\ left \in Bounds
  /\ session \in BOOLEAN

(* A set of nodes has a smallest, so that the selector has one to fall     *)
(* back on (Keep).                                                         *)
LEMMA LeastIsThere ==
  ASSUME NEW S \in SUBSET Nat, S # {}
  PROVE  \E x \in S : \A y \in S : x <= y
<1> DEFINE R == OpToRel(<, Nat)
<1>1. IsWellFoundedOn(R, Nat)
  BY NatLessThanWellFounded, Zenon
<1> HIDE DEF R
<1>2. \E x \in S : \A y \in S : ~(<<y, x>> \in R)
  BY <1>1, WFMin, Zenon
<1>3. PICK x \in S : \A y \in S : ~(<<y, x>> \in R)
  BY <1>2
<1>4. \A y \in S : ~(y < x)
  BY <1>3 DEF OpToRel, R
<1> QED
  BY <1>4

LEMMA KeepIsANode ==
  ASSUME NEW N \in SUBSET Nat, Base \subseteq N, NEW a \in SUBSET N, NEW q \in SUBSET N, NEW n
  PROVE  /\ Selector!Keep(n, a, q) \in N \cup {0}
         /\ Verifying!Keep(n, a, q) \in N \cup {0}
<1> DEFINE o == (Base \cup a) \cap q
<1>1. o \subseteq N /\ 0 \in Nat
  OBVIOUS
<1>2. ASSUME NEW S \in SUBSET N, S # {}
      PROVE  Selector!Min(S) \in S /\ Verifying!Min(S) \in S
  BY <1>2, LeastIsThere DEF Selector!Min, Verifying!Min
<1>3. Selector!Options(a, q) = o /\ Verifying!Options(a, q) = o
  BY DEF Selector!Options, Verifying!Options
<1> HIDE DEF o
<1> QED
  BY <1>1, <1>2, <1>3 DEF Selector!Keep, Verifying!Keep

(* Sequence numbers: the next one, and the difference of two.              *)
LEMMA NextNumber ==
  ASSUME NEW m \in Nat \ {0}, NEW s \in 0..(m - 1)
  PROVE  (s + 1) % m = IF s = m - 1 THEN 0 ELSE s + 1
OBVIOUS

LEMMA GapOfNumbers ==
  ASSUME NEW m \in Nat \ {0}, NEW d \in (1 - m)..(m - 1)
  PROVE  d % m = IF d < 0 THEN d + m ELSE d
OBVIOUS

-----------------------------------------------------------------------------
(* The selector's part.  A transaction carries the number of its place:    *)
(* behind the runtime's own by as many as followed it.                     *)
Behind(x, s, k) ==
  x = Selector!NoTx \/ /\ x.order \in 1..(k - 1) /\ x.seq \in 0..(SeqMod - 1)
                       /\ \/ x.seq = s - (k - 1 - x.order)
                          \/ x.seq = s - (k - 1 - x.order) + SeqMod
(* The runtime has a transaction as late.                                  *)
NotAfter(x, y) == x # Selector!NoTx => y # Selector!NoTx /\ x.order <= y.order

(* A signal comes from the thread of the command in hand.                  *)
Signal(what) == <<[what |-> what, id |-> cur.id]>>
SignalsTell ==
  \/ worker.at = "none" /\ (posted = <<>> \/ (held /\ posted = Signal("over")))
  \/ /\ worker.at # "none" /\ held /\ worker.run = cur
     /\ \/ worker.at \in {"start", "quit"} /\ posted = <<>>
        \/ worker.at = "quits" /\ (posted = Signal("result") \/ posted = Signal("error"))
OnlyPings ==
  /\ cur.cmd # "REBOOT_SOFT" /\ worker.run.cmd # "REBOOT_SOFT"
  /\ worker.at \in {"none", "start", "quits", "quit"}
(* Nobody stops the session.                                               *)
NoStops == session = TRUE /\ left.sessions = 0

(* As many transactions as commands that the bounds have left over.        *)
Started == IF worker.at = "start" THEN 1 ELSE 0
PlacesLeft ==
  /\ left.runs >= 0 /\ left.other >= 0 /\ left.order >= 1
  /\ left.order - 1 + left.runs + left.other + Started <= Runs + Elsewhere
TransactionsTell ==
  /\ \A n \in Nodes : /\ Behind(snap[n], seq, left.order) /\ Behind(local[n], seq, left.order)
                      /\ NotAfter(local[n], snap[n])
  /\ Behind(worker.tx, seq, left.order) /\ NotAfter(worker.tx, snap[worker.run.node])
SelectorInv ==
  PanelTypes(Nodes) /\ NoStops /\ SignalsTell /\ OnlyPings /\ PlacesLeft /\ TransactionsTell

-----------------------------------------------------------------------------
(* The part that verifies a reboot.  What was last said of a node - with    *)
(* uptime u, k restarts, reachable or not (a), the last one for reason y -  *)
(* is not more than it is by now.                                           *)
Agrees(s, u, k, a, y) ==
  s # Verifying!NoStat =>
    /\ s.up >= 0 /\ s.boot <= k
    /\ s.boot = k => s.up <= u /\ (a => s.why = y)
StatsTell ==
  /\ seen \in [Watched -> StatRecords] /\ pUp \in [Watched -> Nat] /\ boots \in [Watched -> Nat]
  /\ alive \in [Watched -> BOOLEAN] /\ why \in [Watched -> Reasons]
  /\ \A n \in Watched : Agrees(seen[n], pUp[n], boots[n], alive[n], why[n])

(* As long as the node has not restarted since the STAT noted, its reason   *)
(* is the one noted and its uptime has not fallen below the last one looked *)
(* at, and so with the STATs it sends.                                      *)
StatsAgree(w, s, u, k, a, y) ==
  /\ w.since <= k
  /\ s # Verifying!NoStat => w.since <= s.boot
  /\ w.base # Verifying!NoStat =>
       /\ w.base.boot = w.since
       /\ k = w.since /\ a => y = w.base.why
       /\ s # Verifying!NoStat /\ s.boot = w.since => s.why = w.base.why
  /\ w.last # -1 =>
       /\ k = w.since => w.last <= u
       /\ s # Verifying!NoStat /\ s.boot = w.since => w.last <= s.up
(* If only a node that was down left pings unanswered, it is down or has    *)
(* restarted since the command, and has if it answered again.               *)
PingsAgree(w, k, a) ==
  /\ w.accepted <= k
  /\ w.cut /\ ~w.missed => ~a \/ w.accepted < k
  /\ w.back /\ ~w.missed => w.accepted < k
VerificationTells ==
  LET n == worker.run.node IN
  /\ worker.at \in {"send", "ping", "stat", "look"} =>
       StatsAgree(worker, seen[n], pUp[n], boots[n], alive[n], why[n])
  /\ worker.at \in {"ping", "stat", "look"} => PingsAgree(worker, boots[n], alive[n])
  /\ worker.at \in {"start", "send"} => ~worker.cut /\ ~worker.back /\ ~worker.missed
Verdicts == {"none", "confirmed", "probable", "not_confirmed", "not_verified_no_ack"}
VerifyingInv ==
  PanelTypes(Watched) /\ StatsTell /\ VerificationTells /\ verdict \in [Watched -> Verdicts]

LEMMA SelectorConstants ==
  /\ Nodes \subseteq Nat /\ 0 \notin Nodes /\ 1 \in Base /\ Base \subseteq Nodes
  /\ Runs \in Nat /\ Elsewhere \in Nat /\ SeqMod \in Nat /\ SeqMod > 2
BY MCOperatorAssumption DEF Selector!ControlPanelAssumption

(* Once more transaction puts what is behind one further behind.           *)
LEMMA BehindGoesOn ==
  ASSUME NEW x \in TxRecords, NEW s \in 0..(SeqMod - 1), NEW k \in Nat \ {0}, k < SeqMod,
         Behind(x, s, k)
  PROVE  Behind(x, (s + 1) % SeqMod, k + 1)
<1>1. SeqMod \in Nat \ {0}
  BY SelectorConstants
<1> DEFINE t == (s + 1) % SeqMod
<1>2. t = IF s = SeqMod - 1 THEN 0 ELSE s + 1
  BY <1>1, NextNumber
<1> HIDE DEF t
<1>3. CASE x = Selector!NoTx
  BY <1>3 DEF Behind
<1>4. CASE x # Selector!NoTx
  <2>1. /\ x.order \in 1..(k - 1) /\ x.seq \in 0..(SeqMod - 1)
        /\ x.seq = s - (k - 1 - x.order) \/ x.seq = s - (k - 1 - x.order) + SeqMod
    BY <1>4 DEF Behind
  <2>2. \/ x.seq = t - (k + 1 - 1 - x.order)
        \/ x.seq = t - (k + 1 - 1 - x.order) + SeqMod
    BY <1>1, <1>2, <2>1
  <2> QED
    BY <2>1, <2>2 DEF Behind, t
<1> QED
  BY <1>3, <1>4

LEMMA BehindAtFirst ==
  ASSUME NEW s \in 0..(SeqMod - 1), NEW k \in Nat \ {0}
  PROVE  /\ (s + 1) % SeqMod \in 0..(SeqMod - 1)
         /\ Behind([seq |-> (s + 1) % SeqMod, order |-> k], (s + 1) % SeqMod, k + 1)
<1>1. (s + 1) % SeqMod \in 0..(SeqMod - 1)
  BY SelectorConstants, NextNumber
<1> DEFINE t == (s + 1) % SeqMod
<1> HIDE DEF t
<1>2. t \in 0..(SeqMod - 1) => Behind([seq |-> t, order |-> k], t, k + 1)
  BY DEF Behind
<1> QED
  BY <1>1, <1>2 DEF t

(* Of two transactions less than half the number space apart, the earlier  *)
(* is not taken for the newer (_is_newer_cmd_seq, effective transaction).  *)
LEMMA EarlierIsNotNewer ==
  ASSUME NEW x \in TxRecords, NEW y \in TxRecords, NEW s \in 0..(SeqMod - 1), NEW k \in Nat,
         k <= SeqMod \div 2 + 1, Behind(x, s, k), Behind(y, s, k),
         x # Selector!NoTx, y # Selector!NoTx, x.order < y.order
  PROVE  ~Selector!Newer(x.seq, y.seq)
<1>1. SeqMod \in Nat \ {0} /\ SeqMod > 2
  BY SelectorConstants
<1>2. /\ x.order \in 1..(k - 1) /\ x.seq \in 0..(SeqMod - 1)
      /\ x.seq = s - (k - 1 - x.order) \/ x.seq = s - (k - 1 - x.order) + SeqMod
  BY DEF Behind
<1>3. /\ y.order \in 1..(k - 1) /\ y.seq \in 0..(SeqMod - 1)
      /\ y.seq = s - (k - 1 - y.order) \/ y.seq = s - (k - 1 - y.order) + SeqMod
  BY DEF Behind
<1> DEFINE d == x.seq - y.seq
           g == y.order - x.order
<1>4. PICK h \in Nat : h = SeqMod \div 2 /\ 2 * h <= SeqMod
  BY <1>1
<1>5. g \in 1..(h - 1) /\ d \in (1 - SeqMod)..(SeqMod - 1) /\ (d = 0 - g \/ d = SeqMod - g)
  BY <1>1, <1>2, <1>3, <1>4
<1>6. d % SeqMod = IF d < 0 THEN d + SeqMod ELSE d
  BY <1>1, <1>5, GapOfNumbers
<1> HIDE DEF d, g
<1>7. d % SeqMod = SeqMod - g
  BY <1>1, <1>4, <1>5, <1>6
<1>8. SeqMod - g \notin 1..(h - 1)
  BY <1>1, <1>4, <1>5
<1> QED
  BY <1>4, <1>7, <1>8 DEF Selector!Newer, d

LEMMA SelectorStarts ==
  ASSUME Selector!Init
  PROVE  SelectorInv
<1> USE SelectorConstants DEF Selector!Init
<1>1. PanelTypes(Nodes)
  <2>1. worker \in Threads(Nodes)
    BY DEF Selector!Idle, Selector!Nobody, Selector!Default, Selector!NoTx, Selector!NoStat,
       Threads, ThreadPlaces, Asks, TxRecords, StatRecords, Reasons
  <2>2. cur \in Asks(Nodes) /\ left \in Bounds
    BY DEF Selector!Nobody, Selector!Default, Asks, Bounds
  <2>3. snap \in [Nodes -> TxRecords] /\ local \in [Nodes -> TxRecords] /\ seq \in 0..(SeqMod - 1)
    BY DEF Selector!NoTx, TxRecords
  <2> QED
    BY <2>1, <2>2, <2>3 DEF PanelTypes, Selector!Default
<1>2. SignalsTell /\ OnlyPings /\ NoStops
  BY DEF SignalsTell, OnlyPings, NoStops, Selector!Idle, Selector!Nobody
<1>3. PlacesLeft
  BY DEF PlacesLeft, Started, Selector!Idle
<1>4. TransactionsTell
  BY DEF TransactionsTell, Behind, NotAfter, Selector!Idle
<1> QED
  BY <1>1, <1>2, <1>3, <1>4 DEF SelectorInv

(* A transaction of the runtime, for a command or another source.          *)
LEMMA SelectorTransacts ==
  ASSUME PanelTypes(Nodes), TransactionsTell, NEW n \in Nodes, Selector!Transact(n),
         left.order \in Nat \ {0}, left.order < SeqMod, left'.order = left.order + 1
  PROVE  /\ seq' \in 0..(SeqMod - 1) /\ snap' \in [Nodes -> TxRecords]
         /\ \A m \in Nodes : /\ Behind(snap'[m], seq', left'.order) /\ Behind(local[m], seq', left'.order)
                             /\ NotAfter(local[m], snap'[m])
         /\ Behind(worker.tx, seq', left'.order) /\ NotAfter(worker.tx, snap'[worker.run.node])
         /\ NotAfter(snap'[n], snap'[n])
<1> DEFINE x == [seq |-> seq', order |-> left.order]
<1>1. seq' = (seq + 1) % SeqMod /\ snap' = [snap EXCEPT ![n] = x]
  BY DEF Selector!Transact
<1>2. seq \in 0..(SeqMod - 1) /\ snap \in [Nodes -> TxRecords] /\ local \in [Nodes -> TxRecords]
      /\ worker.tx \in TxRecords /\ worker.run.node \in Nodes
  BY DEF PanelTypes, Threads, Asks
<1>3. seq' \in 0..(SeqMod - 1) /\ Behind(x, seq', left'.order)
  BY <1>1, <1>2, BehindAtFirst
<1>4. x \in TxRecords /\ x # Selector!NoTx /\ x.order = left.order
  BY <1>3 DEF TxRecords, Selector!NoTx
<1> HIDE DEF x
<1>5. ASSUME NEW y \in TxRecords, Behind(y, seq, left.order)
      PROVE  Behind(y, seq', left'.order) /\ NotAfter(y, x)
  <2>1. Behind(y, seq', left'.order)
    BY <1>1, <1>2, <1>5, BehindGoesOn
  <2>2. NotAfter(y, x)
    BY <1>4, <1>5 DEF NotAfter, Behind
  <2> QED
    BY <2>1, <2>2
<1>6. snap' \in [Nodes -> TxRecords] /\ snap'[n] = x
  BY <1>1, <1>2, <1>4
<1>7. \A m \in Nodes : m # n => snap'[m] = snap[m]
  BY <1>1, <1>2
<1>8. ASSUME NEW y \in TxRecords, Behind(y, seq, left.order), NEW m \in Nodes, NotAfter(y, snap[m])
      PROVE  NotAfter(y, snap'[m])
  BY <1>5, <1>6, <1>7, <1>8
<1>9. \A m \in Nodes : Behind(snap'[m], seq', left'.order)
  BY <1>2, <1>3, <1>5, <1>6, <1>7 DEF TransactionsTell
<1>10. \A m \in Nodes : Behind(local[m], seq', left'.order) /\ NotAfter(local[m], snap'[m])
  BY <1>2, <1>5, <1>8 DEF TransactionsTell
<1>11. Behind(worker.tx, seq', left'.order) /\ NotAfter(worker.tx, snap'[worker.run.node])
  BY <1>2, <1>5, <1>8 DEF TransactionsTell
<1>12. NotAfter(snap'[n], snap'[n])
  BY <1>4, <1>6 DEF NotAfter
<1> QED
  BY <1>3, <1>6, <1>9, <1>10, <1>11, <1>12

(* What is left of the bounds after a transaction, whatever its outcome.   *)
LEMMA BoundsAfter ==
  ASSUME NEW b \in Bounds, NEW x \in Int
  PROVE  /\ [b EXCEPT !.losses = x, !.order = b.order + 1] \in Bounds
         /\ [b EXCEPT !.losses = x, !.order = b.order + 1].runs = b.runs
         /\ [b EXCEPT !.losses = x, !.order = b.order + 1].other = b.other
         /\ [b EXCEPT !.losses = x, !.order = b.order + 1].losses = x
         /\ [b EXCEPT !.losses = x, !.order = b.order + 1].sessions = b.sessions
         /\ [b EXCEPT !.losses = x, !.order = b.order + 1].order = b.order + 1
<1>1. b.order + 1 \in Int
  BY DEF Bounds
<1> QED
  BY <1>1, Zenon DEF Bounds

LEMMA ThreadHas ==
  ASSUME NEW N, NEW w \in Threads(N), NEW x \in TxRecords
  PROVE  /\ [w EXCEPT !.tx = x] \in Threads(N)
         /\ [w EXCEPT !.tx = x].tx = x
         /\ [w EXCEPT !.tx = x].run = w.run
BY Zenon DEF Threads

LEMMA ThreadAt ==
  ASSUME NEW N, NEW w \in Threads(N), NEW s \in ThreadPlaces
  PROVE  /\ [w EXCEPT !.at = s] \in Threads(N)
         /\ [w EXCEPT !.at = s].at = s
         /\ [w EXCEPT !.at = s].tx = w.tx
         /\ [w EXCEPT !.at = s].run = w.run
BY Zenon DEF Threads

LEMMA ThreadEndsAt ==
  ASSUME NEW N, NEW w \in Threads(N), NEW w2, NEW s \in {"quits", "quit", "none"},
         w2 = [w EXCEPT !.at = s]
  PROVE  w2 \in Threads(N) /\ w2.at = s /\ w2.tx = w.tx /\ w2.run = w.run
<1>1. s \in ThreadPlaces
  BY DEF ThreadPlaces
<1> QED
  BY <1>1, ThreadAt, Zenon

(* What leaves the thread, its signals and the transactions alone.         *)
LEMMA SelectorRests ==
  ASSUME SelectorInv, UNCHANGED <<held, cur, worker, posted, seq, snap, local, session>>,
         avail' \subseteq Nodes, query' \subseteq Nodes, sel' \in Nodes \cup {0},
         left' \in Bounds, left'.runs = left.runs, left'.other = left.other,
         left'.sessions = left.sessions, left'.order = left.order
  PROVE  SelectorInv'
<1>1. PanelTypes(Nodes)'
  BY DEF SelectorInv, PanelTypes
<1>2. SignalsTell' /\ OnlyPings' /\ NoStops'
  BY DEF SelectorInv, SignalsTell, Signal, OnlyPings, NoStops
<1>3. PlacesLeft'
  BY DEF SelectorInv, PlacesLeft, Started
<1>4. TransactionsTell'
  BY DEF SelectorInv, TransactionsTell
<1> QED
  BY <1>1, <1>2, <1>3, <1>4 DEF SelectorInv

LEMMA SelectorClicks ==
  ASSUME SelectorInv, NEW c \in {"PING"}, Selector!Click(c)
  PROVE  SelectorInv'
<1> USE SelectorConstants
<1>0. PanelTypes(Nodes) /\ NoStops /\ SignalsTell /\ OnlyPings /\ PlacesLeft /\ TransactionsTell
  BY DEF SelectorInv
<1>1. /\ cur' = [id |-> Runs - left.runs + 1, cmd |-> c, node |-> Selector!Target]
      /\ worker' = [Selector!Idle EXCEPT !.run = cur', !.at = "start"]
      /\ held' /\ ~held /\ left.runs > 0 /\ left' = [left EXCEPT !["runs"] = @ - 1]
      /\ UNCHANGED <<avail, query, sel, posted, session, seq, snap, local>>
  BY DEF Selector!Click, Selector!Spend, Selector!selection
<1>2. Selector!Target \in Nodes /\ Runs - left.runs + 1 \in Int
  BY <1>0 DEF PanelTypes, Bounds, Selector!Target, Selector!Default
<1>3. cur' \in Asks(Nodes) /\ cur'.cmd = "PING"
  BY <1>1, <1>2 DEF Asks
<1>4. worker' = [run |-> cur', at |-> "start", tx |-> Selector!NoTx, base |-> Selector!NoStat, last |-> -1,
                 cut |-> FALSE, back |-> FALSE, tries |-> 0, since |-> 0, accepted |-> 0, missed |-> FALSE]
  BY <1>1 DEF Selector!Idle
<1>5. worker' \in Threads(Nodes) /\ worker'.at = "start" /\ worker'.tx = Selector!NoTx /\ worker'.run = cur'
  BY <1>3, <1>4 DEF Threads, ThreadPlaces, TxRecords, StatRecords, Reasons, Selector!NoTx, Selector!NoStat
<1>6. left' \in Bounds /\ left'.runs = left.runs - 1 /\ left'.other = left.other
      /\ left'.sessions = left.sessions /\ left'.order = left.order
  BY <1>0, <1>1 DEF PanelTypes, Bounds
<1>7. worker.at = "none" /\ posted = <<>>
  BY <1>0, <1>1 DEF SignalsTell
<1>8. PanelTypes(Nodes)'
  BY <1>0, <1>1, <1>3, <1>5, <1>6 DEF PanelTypes
<1>9. SignalsTell' /\ OnlyPings' /\ NoStops'
  <2>1. NoStops'
    BY <1>0, <1>1, <1>6 DEF NoStops
  <2> QED
    BY <1>1, <1>3, <1>4, <1>7, <2>1 DEF SignalsTell, OnlyPings
<1>10. PlacesLeft'
  <2>1. left.runs \in Int /\ left.other \in Int /\ left.order \in Int
    BY <1>0 DEF PanelTypes, Bounds
  <2> QED
    BY <1>0, <1>1, <1>5, <1>6, <1>7, <2>1 DEF PlacesLeft, Started
<1>11. TransactionsTell'
  <2>1. Behind(worker'.tx, seq', left'.order) /\ NotAfter(worker'.tx, snap'[worker'.run.node])
    BY <1>5 DEF Behind, NotAfter
  <2> QED
    BY <1>0, <1>1, <1>6, <2>1 DEF TransactionsTell
<1> QED
  BY <1>8, <1>9, <1>10, <1>11 DEF SelectorInv

(* A ping that is answered or lost; the next number is the runtime's.      *)
LEMMA SelectorPings ==
  ASSUME Runs + Elsewhere <= SeqMod \div 2, SelectorInv, Selector!SendPing
  PROVE  SelectorInv'
<1> USE SelectorConstants
<1> DEFINE n == worker.run.node
<1>0. PanelTypes(Nodes) /\ NoStops /\ SignalsTell /\ OnlyPings /\ PlacesLeft /\ TransactionsTell
  BY DEF SelectorInv
<1>1. PICK ok \in BOOLEAN : Selector!Lost(n, ok)
  BY DEF Selector!SendPing
<1>2. /\ worker.at = "start" /\ Selector!Transact(n)
      /\ worker' = [[worker EXCEPT !.tx = snap'[n]] EXCEPT !.at = "quits"]
      /\ posted' = Append(posted, [what |-> "result", id |-> [worker EXCEPT !.tx = snap'[n]].run.id])
      /\ UNCHANGED <<avail, query, sel, held, cur, session, local>>
  BY DEF Selector!SendPing, Selector!Post, Selector!selection
<1>3. n \in Nodes /\ worker \in Threads(Nodes) /\ left \in Bounds /\ left.order \in Nat \ {0}
  BY <1>0 DEF PanelTypes, Threads, Asks, PlacesLeft, Bounds
<1>4. left' \in Bounds /\ left'.runs = left.runs /\ left'.other = left.other
      /\ left'.sessions = left.sessions /\ left'.order = left.order + 1
  <2> DEFINE x == IF ~ok /\ alive[n] THEN left.losses - 1 ELSE left.losses
  <2>1. left' = [left EXCEPT !.losses = x, !.order = left.order + 1]
    BY <1>1 DEF Selector!Lost
  <2>2. x \in Int
    BY <1>3 DEF Bounds
  <2> HIDE DEF x
  <2> QED
    BY <1>3, <2>1, <2>2, BoundsAfter, Zenon
<1>5. left.order < SeqMod
  <2>1. left.runs \in Nat /\ left.other \in Nat /\ left.order \in Nat
    BY <1>0, <1>3 DEF Bounds, PlacesLeft
  <2>2. Started \in {0, 1} /\ SeqMod \div 2 < SeqMod
    BY DEF Started
  <2> QED
    BY <1>0, <2>1, <2>2 DEF PlacesLeft
<1> HIDE DEF n
<1>6. /\ seq' \in 0..(SeqMod - 1) /\ snap' \in [Nodes -> TxRecords]
      /\ \A m \in Nodes : /\ Behind(snap'[m], seq', left'.order) /\ Behind(local[m], seq', left'.order)
                          /\ NotAfter(local[m], snap'[m])
      /\ NotAfter(snap'[n], snap'[n])
  BY <1>0, <1>2, <1>3, <1>4, <1>5, SelectorTransacts
<1>7. snap'[n] \in TxRecords
  BY <1>3, <1>6
<1>8. /\ worker' \in Threads(Nodes) /\ worker'.at = "quits" /\ worker'.tx = snap'[n]
      /\ worker'.run = worker.run /\ [worker EXCEPT !.tx = snap'[n]].run = worker.run
  <2> DEFINE v == [worker EXCEPT !.tx = snap'[n]]
  <2>1. v \in Threads(Nodes) /\ v.tx = snap'[n] /\ v.run = worker.run
    BY <1>3, <1>7, ThreadHas, Zenon
  <2>2. worker' = [v EXCEPT !.at = "quits"]
    BY <1>2
  <2>3. [worker EXCEPT !.tx = snap'[n]].run = worker.run
    BY <2>1
  <2> HIDE DEF v
  <2>4. /\ worker' \in Threads(Nodes) /\ worker'.at = "quits"
        /\ worker'.tx = v.tx /\ worker'.run = v.run
    BY <2>1, <2>2, ThreadEndsAt
  <2> QED
    BY <2>1, <2>3, <2>4
<1>9. posted = <<>> /\ worker.run = cur /\ held
  BY <1>0, <1>2 DEF SignalsTell
<1>10. PanelTypes(Nodes)'
  BY <1>0, <1>2, <1>4, <1>6, <1>8 DEF PanelTypes
<1>11. SignalsTell' /\ OnlyPings' /\ NoStops'
  <2>1. NoStops'
    BY <1>0, <1>2, <1>4 DEF NoStops
  <2> QED
    BY <1>0, <1>2, <1>8, <1>9, <2>1 DEF SignalsTell, Signal, OnlyPings
<1>12. PlacesLeft'
  <2>1. left.runs \in Int /\ left.other \in Int /\ left.order \in Int
    BY <1>3 DEF Bounds
  <2>2. Started = 1 /\ Started' = 0
    BY <1>2, <1>8 DEF Started
  <2> QED
    BY <1>0, <1>4, <2>1, <2>2 DEF PlacesLeft
<1>13. TransactionsTell'
  BY <1>2, <1>6, <1>7, <1>8, <1>3 DEF TransactionsTell, n
<1> QED
  BY <1>10, <1>11, <1>12, <1>13 DEF SelectorInv

LEMMA SelectorOther ==
  ASSUME Runs + Elsewhere <= SeqMod \div 2, SelectorInv, NEW n \in Nodes, Selector!Other(n)
  PROVE  SelectorInv'
<1> USE SelectorConstants
<1>0. PanelTypes(Nodes) /\ NoStops /\ SignalsTell /\ OnlyPings /\ PlacesLeft /\ TransactionsTell
  BY DEF SelectorInv
<1>1. /\ left.other > 0 /\ Selector!Transact(n)
      /\ left' = [left EXCEPT !.other = @ - 1, !.order = @ + 1]
      /\ UNCHANGED <<avail, query, sel, held, cur, worker, posted, session, local>>
  BY DEF Selector!Other, Selector!selection
<1>2. left \in Bounds /\ left.order \in Nat \ {0}
  BY <1>0 DEF PanelTypes, PlacesLeft, Bounds
<1>3. left' \in Bounds /\ left'.runs = left.runs /\ left'.other = left.other - 1
      /\ left'.sessions = left.sessions /\ left'.order = left.order + 1
  <2>1. left.other - 1 \in Int /\ left.order + 1 \in Int
    BY <1>2 DEF Bounds
  <2> QED
    BY <1>1, <1>2, <2>1, Zenon DEF Bounds
<1>4. left.order < SeqMod
  <2>1. left.runs \in Nat /\ left.other \in Nat /\ left.order \in Nat
    BY <1>0, <1>2 DEF Bounds, PlacesLeft
  <2>2. Started \in {0, 1} /\ SeqMod \div 2 < SeqMod
    BY DEF Started
  <2> QED
    BY <1>0, <2>1, <2>2 DEF PlacesLeft
<1>5. /\ seq' \in 0..(SeqMod - 1) /\ snap' \in [Nodes -> TxRecords]
      /\ \A m \in Nodes : /\ Behind(snap'[m], seq', left'.order) /\ Behind(local[m], seq', left'.order)
                          /\ NotAfter(local[m], snap'[m])
      /\ Behind(worker.tx, seq', left'.order) /\ NotAfter(worker.tx, snap'[worker.run.node])
  BY <1>0, <1>1, <1>2, <1>3, <1>4, SelectorTransacts
<1>6. PanelTypes(Nodes)'
  BY <1>0, <1>1, <1>3, <1>5 DEF PanelTypes
<1>7. SignalsTell' /\ OnlyPings' /\ NoStops'
  BY <1>0, <1>1 DEF SignalsTell, Signal, OnlyPings, NoStops
<1>8. PlacesLeft'
  BY <1>0, <1>1, <1>2, <1>3 DEF PlacesLeft, Started, Bounds
<1>9. TransactionsTell'
  BY <1>1, <1>5 DEF TransactionsTell
<1> QED
  BY <1>6, <1>7, <1>8, <1>9 DEF SelectorInv

(* The interface handles what a thread has posted, and the thread ends.    *)
LEMMA SelectorHandles ==
  ASSUME SelectorInv, Selector!Finish \/ Selector!ThreadEnds \/ Selector!ThreadFinished
  PROVE  SelectorInv'
<1>0. PanelTypes(Nodes) /\ NoStops /\ SignalsTell /\ OnlyPings /\ PlacesLeft /\ TransactionsTell
  BY DEF SelectorInv
<1>1. CASE Selector!Finish
  <2>1. /\ posted # <<>> /\ Head(posted).what \in {"result", "error"}
        /\ worker' = [worker EXCEPT !.at = "quit"] /\ posted' = Tail(posted)
        /\ local' = local \/ local' = [local EXCEPT ![worker.run.node] = worker.tx]
        /\ UNCHANGED <<avail, query, sel, held, cur, seq, session, snap, left>>
    BY <1>1 DEF Selector!Finish, Selector!Registers, Selector!selection
  <2>2. worker.at = "quits" /\ Tail(posted) = <<>> /\ held /\ worker.run = cur
    <3>1. posted # Signal("over")
      BY <2>1 DEF Signal
    <3>2. worker.at = "quits" /\ held /\ worker.run = cur /\ (posted = Signal("result") \/ posted = Signal("error"))
      BY <1>0, <2>1, <3>1 DEF SignalsTell
    <3>3. Tail(Signal("result")) = <<>> /\ Tail(Signal("error")) = <<>>
      BY DEF Signal
    <3> QED
      BY <3>2, <3>3
  <2>3. worker \in Threads(Nodes)
    BY <1>0 DEF PanelTypes
  <2>4. worker' \in Threads(Nodes) /\ worker'.at = "quit" /\ worker'.tx = worker.tx /\ worker'.run = worker.run
    BY <2>1, <2>3, ThreadEndsAt
  <2>5. worker.tx \in TxRecords /\ worker.run.node \in Nodes
    BY <2>3 DEF Threads, Asks
  <2>6. /\ local' \in [Nodes -> TxRecords]
        /\ \A m \in Nodes : Behind(local'[m], seq, left.order) /\ NotAfter(local'[m], snap[m])
    BY <1>0, <2>1, <2>5 DEF PanelTypes, TransactionsTell
  <2>7. PanelTypes(Nodes)'
    BY <1>0, <2>1, <2>4, <2>6 DEF PanelTypes
  <2>8. SignalsTell' /\ OnlyPings' /\ NoStops'
    BY <1>0, <2>1, <2>2, <2>4 DEF SignalsTell, OnlyPings, NoStops
  <2>9. PlacesLeft'
    BY <1>0, <2>1, <2>2, <2>4 DEF PlacesLeft, Started
  <2>10. TransactionsTell'
    BY <1>0, <2>1, <2>4, <2>6 DEF TransactionsTell
  <2> QED
    BY <2>7, <2>8, <2>9, <2>10 DEF SelectorInv
<1>2. CASE Selector!ThreadEnds
  <2>1. /\ worker.at = "quit" /\ worker' = [worker EXCEPT !.at = "none"]
        /\ posted' = Append(posted, [what |-> "over", id |-> worker.run.id])
        /\ UNCHANGED <<avail, query, sel, held, cur, seq, session, snap, local, left>>
    BY <1>2 DEF Selector!ThreadEnds, Selector!selection
  <2>2. posted = <<>> /\ held /\ worker.run = cur
    BY <1>0, <2>1 DEF SignalsTell
  <2>3. worker \in Threads(Nodes)
    BY <1>0 DEF PanelTypes
  <2>4. worker' \in Threads(Nodes) /\ worker'.at = "none" /\ worker'.tx = worker.tx /\ worker'.run = worker.run
    BY <2>1, <2>3, ThreadEndsAt
  <2>5. PanelTypes(Nodes)'
    BY <1>0, <2>1, <2>4 DEF PanelTypes
  <2>6. SignalsTell' /\ OnlyPings' /\ NoStops'
    BY <1>0, <2>1, <2>2, <2>4 DEF SignalsTell, Signal, OnlyPings, NoStops
  <2>7. PlacesLeft'
    BY <1>0, <2>1, <2>4 DEF PlacesLeft, Started
  <2>8. TransactionsTell'
    BY <1>0, <2>1, <2>4 DEF TransactionsTell
  <2> QED
    BY <2>5, <2>6, <2>7, <2>8 DEF SelectorInv
<1>3. CASE Selector!ThreadFinished
  <2>1. /\ posted # <<>> /\ Head(posted).what = "over" /\ cur' = Selector!Nobody /\ posted' = Tail(posted)
        /\ UNCHANGED <<avail, query, sel, worker, seq, session, snap, local, left>>
    BY <1>3 DEF Selector!ThreadFinished, Selector!selection
  <2>2. worker.at = "none" /\ Tail(posted) = <<>>
    <3>1. posted # Signal("result") /\ posted # Signal("error")
      BY <2>1 DEF Signal
    <3>2. worker.at = "none" /\ posted = Signal("over")
      BY <1>0, <2>1, <3>1 DEF SignalsTell
    <3>3. Tail(posted) = <<>>
      BY <3>2 DEF Signal
    <3> QED
      BY <3>2, <3>3
  <2>3. cur' \in Asks(Nodes) /\ cur'.cmd = "none"
    BY <2>1, SelectorConstants DEF Selector!Nobody, Selector!Default, Asks
  <2>4. PanelTypes(Nodes)'
    BY <1>0, <2>1, <2>3 DEF PanelTypes
  <2>5. SignalsTell' /\ OnlyPings' /\ NoStops'
    BY <1>0, <2>1, <2>2, <2>3 DEF SignalsTell, OnlyPings, NoStops
  <2>6. PlacesLeft' /\ TransactionsTell'
    BY <1>0, <2>1 DEF PlacesLeft, Started, TransactionsTell
  <2> QED
    BY <2>4, <2>5, <2>6 DEF SelectorInv
<1> QED
  BY <1>1, <1>2, <1>3

LEMMA SelectorStep ==
  ASSUME Runs + Elsewhere <= SeqMod \div 2, SelectorInv, Selector!Next
  PROVE  SelectorInv'
<1> USE SelectorConstants
<1>0. PanelTypes(Nodes) /\ NoStops /\ SignalsTell /\ OnlyPings /\ PlacesLeft /\ TransactionsTell
  BY DEF SelectorInv
<1>1. CASE Selector!Select \/ Selector!Refresh \/ Selector!Search
  <2>1. /\ UNCHANGED <<held, cur, worker, posted, seq, snap, local, session, left>>
        /\ avail' \in SUBSET Nodes /\ query' \in SUBSET Nodes
    BY <1>0, <1>1 DEF Selector!Select, Selector!Refresh, Selector!Search, PanelTypes
  <2>2. sel' \in Nodes \cup {0}
    <3>1. CASE Selector!Select
      BY <1>0, <3>1 DEF Selector!Select, Selector!Options, PanelTypes
    <3>2. CASE Selector!Refresh \/ Selector!Search
      <4>1. sel' = Selector!Keep(Selector!Target, avail', query')
        BY <3>2 DEF Selector!Refresh, Selector!Search
      <4> QED
        BY <2>1, <4>1, KeepIsANode
    <3> QED
      BY <1>1, <3>1, <3>2
  <2>3. left \in Bounds
    BY <1>0 DEF PanelTypes
  <2> QED
    BY <2>1, <2>2, <2>3, SelectorRests
<1>2. ASSUME NEW c \in {"PING"}, Selector!Click(c)
      PROVE  SelectorInv'
  BY <1>2, SelectorClicks
<1>3. CASE Selector!Thread
  <2>1. session = TRUE /\ worker.run.cmd # "REBOOT_SOFT" /\ worker.at \notin {"send", "ping", "stat", "look"}
    BY <1>0 DEF NoStops, OnlyPings
  <2>2. ~Selector!Fails /\ ~Selector!Note
    BY <2>1 DEF Selector!Fails, Selector!Note
  <2>3. ~Selector!SendReboot /\ ~Selector!Ping
    BY <2>1, Zenon DEF Selector!SendReboot, Selector!Ping
  <2>4. ~Selector!AskForStat /\ ~Selector!Look
    BY <2>1, Zenon DEF Selector!AskForStat, Selector!Look
  <2> QED
    BY <1>3, <2>2, <2>3, <2>4, SelectorPings DEF Selector!Thread
<1>4. CASE Selector!Finish \/ Selector!ThreadEnds \/ Selector!ThreadFinished
  BY <1>4, SelectorHandles
<1>5. ASSUME NEW n \in Nodes, Selector!Forget(n)
      PROVE  SelectorInv'
  <2>1. /\ local' = [local EXCEPT ![n] = Selector!NoTx]
        /\ UNCHANGED <<avail, query, sel, held, cur, worker, posted, seq, snap, session, left>>
    BY <1>5 DEF Selector!Forget, Selector!selection
  <2>2. /\ local' \in [Nodes -> TxRecords]
        /\ \A m \in Nodes : Behind(local'[m], seq, left.order) /\ NotAfter(local'[m], snap[m])
    BY <1>0, <2>1 DEF PanelTypes, TransactionsTell, TxRecords, Selector!NoTx, Behind, NotAfter
  <2>3. PanelTypes(Nodes)'
    BY <1>0, <2>1, <2>2 DEF PanelTypes
  <2>4. SignalsTell' /\ OnlyPings' /\ NoStops' /\ PlacesLeft'
    BY <1>0, <2>1 DEF SignalsTell, Signal, OnlyPings, NoStops, PlacesLeft, Started
  <2>5. TransactionsTell'
    BY <1>0, <2>1, <2>2 DEF TransactionsTell
  <2> QED
    BY <2>3, <2>4, <2>5 DEF SelectorInv
<1>6. ASSUME NEW n \in Nodes, Selector!Tick(n) \/ Selector!Stat(n) \/ Selector!Down(n) \/ Selector!Up(n)
      PROVE  SelectorInv'
  <2>1. UNCHANGED <<avail, query, sel, held, cur, worker, posted, seq, snap, local, session>>
    BY <1>6 DEF Selector!Tick, Selector!Stat, Selector!Down, Selector!Up, Selector!selection
  <2>2. left' = left \/ left' = [left EXCEPT !["reboots"] = @ - 1]
    BY <1>6 DEF Selector!Tick, Selector!Stat, Selector!Down, Selector!Up, Selector!Spend
  <2>3. /\ left' \in Bounds /\ left'.runs = left.runs /\ left'.other = left.other
        /\ left'.sessions = left.sessions /\ left'.order = left.order
    BY <1>0, <2>2 DEF PanelTypes, Bounds
  <2>4. avail \subseteq Nodes /\ query \subseteq Nodes /\ sel \in Nodes \cup {0}
    BY <1>0 DEF PanelTypes
  <2> QED
    BY <2>1, <2>3, <2>4, SelectorRests
<1>7. ASSUME NEW n \in Nodes, Selector!Other(n)
      PROVE  SelectorInv'
  BY <1>7, SelectorOther
<1>8. ~Selector!Session
  BY <1>0 DEF NoStops, Selector!Session, Selector!Spend
<1> QED
  BY <1>1, <1>2, <1>3, <1>4, <1>5, <1>6, <1>7, <1>8 DEF Selector!Next

(* However signals, refreshes and other senders interleave, while no more  *)
(* commands are sent than half the number space: the transaction shown for *)
(* a node is the runtime's latest or a later one, also where the numbers   *)
(* wrap around, and a signal is of the command in hand                     *)
(* (_select_effective_transaction_state, _on_thread_finished).              *)
THEOREM NewestTransactionIsShown ==
  ASSUME Runs + Elsewhere <= SeqMod \div 2
  PROVE  MCSpec => []NewestIsShown
<1> DEFINE I == part = "selector" => SelectorInv
<1>1. MCInit => I
  BY SelectorStarts DEF MCInit
<1>2. I /\ [MCNext]_mcVars => I'
  <2>1. ASSUME I, part' = part, UNCHANGED panel PROVE I'
    BY <2>1 DEF panel, SelectorInv, PanelTypes, NoStops, SignalsTell, Signal, OnlyPings, PlacesLeft,
       Started, TransactionsTell
  <2> QED
    BY <2>1, SelectorStep DEF MCNext, mcVars, Places, Panel, Campaign
<1>3. I => NewestIsShown
  <2> SUFFICES ASSUME SelectorInv PROVE Selector!ShownIsLatest /\ Selector!SignalsAreOfThisRun
    BY DEF NewestIsShown
  <2>0. PanelTypes(Nodes) /\ SignalsTell /\ PlacesLeft /\ TransactionsTell
    BY DEF SelectorInv
  <2>1. ASSUME NEW n \in Nodes, snap[n] # Selector!NoTx
        PROVE  Selector!Effective(n).order >= snap[n].order
    <3>1. /\ snap[n] \in TxRecords /\ local[n] \in TxRecords /\ NotAfter(local[n], snap[n])
          /\ Behind(snap[n], seq, left.order) /\ Behind(local[n], seq, left.order)
          /\ seq \in 0..(SeqMod - 1)
      BY <2>0 DEF PanelTypes, TransactionsTell
    <3>2. left.order \in Nat /\ left.order <= SeqMod \div 2 + 1
      BY <2>0, SelectorConstants DEF PlacesLeft, PanelTypes, Started, Bounds
    <3>3. local[n] # Selector!NoTx /\ local[n].order < snap[n].order
            => ~Selector!Newer(local[n].seq, snap[n].seq)
      BY <2>1, <3>1, <3>2, EarlierIsNotNewer
    <3>4. snap[n].order \in Int /\ local[n].order \in Int
      BY <3>1 DEF TxRecords
    <3> QED
      BY <2>1, <3>3, <3>4 DEF Selector!Effective
  <2>2. \A i \in DOMAIN posted : posted[i].id = cur.id
    BY <2>0 DEF SignalsTell, Signal
  <2> QED
    BY <2>1, <2>2 DEF Selector!ShownIsLatest, Selector!SignalsAreOfThisRun
<1> HIDE DEF I
<1> QED
  BY <1>1, <1>2, <1>3, PTL DEF MCSpec

-----------------------------------------------------------------------------
(* The verification of a reboot.                                           *)
LEMMA WatchedConstants ==
  /\ Watched \subseteq Nat /\ 0 \notin Watched /\ 1 \in Base /\ Base \subseteq Watched
  /\ {Checks, Reboots, MaxUp, Losses, Sessions, Probes} \subseteq Nat /\ SeqMod \in Nat /\ SeqMod > 2
BY MCOperatorAssumption DEF Verifying!ControlPanelAssumption

(* What the thread's record has become.                                    *)
RecordIs(v, N, run, at, base, last, cut, back, since, accepted, missed) ==
  /\ v \in Threads(N) /\ v.run = run /\ v.at = at /\ v.base = base /\ v.last = last
  /\ v.cut = cut /\ v.back = back
  /\ v.since = since /\ v.accepted = accepted /\ v.missed = missed
(* Only its place has changed.                                             *)
GoesTo(v, N, w, at) ==
  RecordIs(v, N, w.run, at, w.base, w.last, w.cut, w.back, w.since, w.accepted, w.missed)

LEMMA ThreadGoes ==
  ASSUME NEW N, NEW w \in Threads(N), NEW s \in ThreadPlaces
  PROVE  GoesTo([w EXCEPT !.at = s], N, w, s)
BY Zenon DEF Threads, RecordIs, GoesTo

LEMMA ThreadNotes ==
  ASSUME NEW N, NEW w \in Threads(N), NEW b \in StatRecords, NEW u \in Int, NEW k \in Int
  PROVE  RecordIs([w EXCEPT !.at = "send", !.base = b, !.last = u, !.since = k],
                 N, w.run, "send", b, u, w.cut, w.back, k, w.accepted, w.missed)
<1>1. "send" \in ThreadPlaces
  BY DEF ThreadPlaces
<1> QED
  BY <1>1, Zenon DEF Threads, RecordIs

LEMMA ThreadSends ==
  ASSUME NEW N, NEW w \in Threads(N), NEW x \in TxRecords, NEW k \in Int
  PROVE  RecordIs([w EXCEPT !.at = "ping", !.tx = x, !.accepted = k],
                 N, w.run, "ping", w.base, w.last, w.cut, w.back, w.since, k, w.missed)
<1>1. "ping" \in ThreadPlaces
  BY DEF ThreadPlaces
<1> QED
  BY <1>1, Zenon DEF Threads, RecordIs

LEMMA ThreadLooks ==
  ASSUME NEW N, NEW w \in Threads(N), NEW u \in Int
  PROVE  RecordIs([w EXCEPT !.last = u],
                 N, w.run, w.at, w.base, u, w.cut, w.back, w.since, w.accepted, w.missed)
BY Zenon DEF Threads, RecordIs

LEMMA ThreadOf ==
  ASSUME NEW N, NEW w \in Threads(N)
  PROVE  /\ w.run \in Asks(N) /\ w.run.node \in N /\ w.at \in ThreadPlaces /\ w.tx \in TxRecords
         /\ w.base \in StatRecords /\ w.last \in Int /\ w.tries \in Int
         /\ w.cut \in BOOLEAN /\ w.back \in BOOLEAN /\ w.missed \in BOOLEAN
         /\ w.since \in Int /\ w.accepted \in Int
BY DEF Threads, Asks

LEMMA VerifyingStarts ==
  ASSUME Verifying!Init
  PROVE  VerifyingInv
<1> USE WatchedConstants DEF Verifying!Init
<1>1. worker \in Threads(Watched) /\ cur \in Asks(Watched)
  BY DEF Verifying!Idle, Verifying!Nobody, Verifying!Default, Verifying!NoTx, Verifying!NoStat,
     Threads, ThreadPlaces, Asks, TxRecords, StatRecords, Reasons
<1>2. left \in Bounds
  BY DEF Bounds, Verifying!ControlPanelAssumption, MCOperatorAssumption
<1>3. snap \in [Watched -> TxRecords] /\ local \in [Watched -> TxRecords] /\ seq \in 0..(SeqMod - 1)
  BY DEF Verifying!NoTx, TxRecords
<1>4. PanelTypes(Watched)
  BY <1>1, <1>2, <1>3 DEF PanelTypes, Verifying!Default
<1>5. StatsTell
  BY DEF StatsTell, StatRecords, Reasons, Verifying!NoStat, Agrees
<1>6. VerificationTells
  BY DEF VerificationTells, Verifying!Idle
<1>7. verdict \in [Watched -> Verdicts]
  BY DEF Verdicts
<1> QED
  BY <1>4, <1>5, <1>6, <1>7 DEF VerifyingInv

-----------------------------------------------------------------------------
(* The nodes.  A step of one, as the thread that watches it can tell: it    *)
(* stays as it is, its uptime goes on, a STAT is taken in, it goes down, it *)
(* comes back, or what was known of it is cleared.                          *)
GoesOn(s, u, k, a, y, s2, u2, k2, a2, y2) ==
  \/ s2 = s /\ u2 = u /\ k2 = k /\ a2 = a /\ y2 = y
  \/ s2 = s /\ u2 = u + 1 /\ k2 = k /\ a2 = a /\ y2 = y
  \/ s2 = [up |-> u, boot |-> k, why |-> y] /\ a /\ u2 = u /\ k2 = k /\ a2 = a /\ y2 = y
  \/ s2 = s /\ u2 = u /\ k2 = k /\ ~a2
  \/ s2 = s /\ u2 = 0 /\ k2 = k + 1 /\ ~a /\ y2 = y
  \/ s2 = Verifying!NoStat /\ u2 = u /\ k2 = k /\ a2 = a /\ y2 = y

LEMMA StatIs ==
  ASSUME NEW u \in Nat, NEW k \in Nat, NEW y \in Reasons
  PROVE  LET s == [up |-> u, boot |-> k, why |-> y] IN
         s \in StatRecords /\ s.up = u /\ s.boot = k /\ s.why = y /\ s # Verifying!NoStat
BY DEF StatRecords, Verifying!NoStat

NodesRest == UNCHANGED <<seen, pUp, boots, alive, why>>
NodesMove ==
  /\ pUp' \in [Watched -> Nat] /\ boots' \in [Watched -> Nat] /\ seen' \in [Watched -> StatRecords]
  /\ alive' \in [Watched -> BOOLEAN] /\ why' \in [Watched -> Reasons]
  /\ \A m \in Watched : GoesOn(seen[m], pUp[m], boots[m], alive[m], why[m],
                              seen'[m], pUp'[m], boots'[m], alive'[m], why'[m])

(* What was noted, looked at and said stays in agreement with the node.     *)
LEMMA GoesOnAs ==
  ASSUME NEW s \in StatRecords, NEW u \in Nat, NEW k \in Nat, NEW a, NEW y \in Reasons,
         NEW s2, NEW u2, NEW k2, NEW a2, NEW y2 \in Reasons, a \in BOOLEAN, a2 \in BOOLEAN,
         GoesOn(s, u, k, a, y, s2, u2, k2, a2, y2)
  PROVE  \E t \in StatRecords :
           /\ t.up = u /\ t.boot = k /\ t.why = y /\ t # Verifying!NoStat
           /\ \/ s2 = s /\ u2 = u /\ k2 = k /\ a2 = a /\ y2 = y
              \/ s2 = s /\ u2 = u + 1 /\ k2 = k /\ a2 = a /\ y2 = y
              \/ s2 = t /\ a /\ u2 = u /\ k2 = k /\ a2 = a /\ y2 = y
              \/ s2 = s /\ u2 = u /\ k2 = k /\ ~a2
              \/ s2 = s /\ u2 = 0 /\ k2 = k + 1 /\ ~a /\ y2 = y
              \/ s2 = Verifying!NoStat /\ u2 = u /\ k2 = k /\ a2 = a /\ y2 = y
<1> DEFINE t == [up |-> u, boot |-> k, why |-> y]
<1>1. t \in StatRecords /\ t.up = u /\ t.boot = k /\ t.why = y /\ t # Verifying!NoStat
  BY StatIs
<1> HIDE DEF t
<1>2. \/ s2 = s /\ u2 = u /\ k2 = k /\ a2 = a /\ y2 = y
      \/ s2 = s /\ u2 = u + 1 /\ k2 = k /\ a2 = a /\ y2 = y
      \/ s2 = t /\ a /\ u2 = u /\ k2 = k /\ a2 = a /\ y2 = y
      \/ s2 = s /\ u2 = u /\ k2 = k /\ ~a2
      \/ s2 = s /\ u2 = 0 /\ k2 = k + 1 /\ ~a /\ y2 = y
      \/ s2 = Verifying!NoStat /\ u2 = u /\ k2 = k /\ a2 = a /\ y2 = y
  BY DEF GoesOn, t
<1> QED
  BY <1>1, <1>2

LEMMA NodeAgrees ==
  ASSUME NEW s \in StatRecords, NEW u \in Nat, NEW k \in Nat, NEW a, NEW y \in Reasons,
         NEW s2, NEW u2, NEW k2, NEW a2, NEW y2 \in Reasons, a \in BOOLEAN, a2 \in BOOLEAN,
         GoesOn(s, u, k, a, y, s2, u2, k2, a2, y2), Agrees(s, u, k, a, y)
  PROVE  s2 \in StatRecords /\ u2 \in Nat /\ k2 \in Nat /\ Agrees(s2, u2, k2, a2, y2)
<1>1. PICK t \in StatRecords :
        /\ t.up = u /\ t.boot = k /\ t.why = y /\ t # Verifying!NoStat
        /\ \/ s2 = s /\ u2 = u /\ k2 = k /\ a2 = a /\ y2 = y
           \/ s2 = s /\ u2 = u + 1 /\ k2 = k /\ a2 = a /\ y2 = y
           \/ s2 = t /\ a /\ u2 = u /\ k2 = k /\ a2 = a /\ y2 = y
           \/ s2 = s /\ u2 = u /\ k2 = k /\ ~a2
           \/ s2 = s /\ u2 = 0 /\ k2 = k + 1 /\ ~a /\ y2 = y
           \/ s2 = Verifying!NoStat /\ u2 = u /\ k2 = k /\ a2 = a /\ y2 = y
  BY GoesOnAs
<1>2. s.up \in Int /\ s.boot \in Int
  BY DEF StatRecords
<1>3. Verifying!NoStat \in StatRecords
  BY DEF Verifying!NoStat, StatRecords, Reasons
<1>4. s2 \in StatRecords /\ u2 \in Nat /\ k2 \in Nat
  BY <1>1, <1>3
<1>5. Agrees(s2, u2, k2, a2, y2)
  BY <1>1, <1>2 DEF Agrees
<1> QED
  BY <1>4, <1>5

LEMMA ThreadAgrees ==
  ASSUME NEW s \in StatRecords, NEW u \in Nat, NEW k \in Nat, NEW a, NEW y \in Reasons,
         NEW s2, NEW u2, NEW k2, NEW a2, NEW y2 \in Reasons, a \in BOOLEAN, a2 \in BOOLEAN,
         GoesOn(s, u, k, a, y, s2, u2, k2, a2, y2), Agrees(s, u, k, a, y),
         NEW w \in Threads(Watched)
  PROVE  /\ StatsAgree(w, s, u, k, a, y) => StatsAgree(w, s2, u2, k2, a2, y2)
         /\ PingsAgree(w, k, a) => PingsAgree(w, k2, a2)
<1>1. PICK t \in StatRecords :
        /\ t.up = u /\ t.boot = k /\ t.why = y /\ t # Verifying!NoStat
        /\ \/ s2 = s /\ u2 = u /\ k2 = k /\ a2 = a /\ y2 = y
           \/ s2 = s /\ u2 = u + 1 /\ k2 = k /\ a2 = a /\ y2 = y
           \/ s2 = t /\ a /\ u2 = u /\ k2 = k /\ a2 = a /\ y2 = y
           \/ s2 = s /\ u2 = u /\ k2 = k /\ ~a2
           \/ s2 = s /\ u2 = 0 /\ k2 = k + 1 /\ ~a /\ y2 = y
           \/ s2 = Verifying!NoStat /\ u2 = u /\ k2 = k /\ a2 = a /\ y2 = y
  BY GoesOnAs
<1>2. s.up \in Int /\ s.boot \in Int /\ w.since \in Int /\ w.last \in Int /\ w.accepted \in Int
  BY ThreadOf DEF StatRecords
<1>3. StatsAgree(w, s, u, k, a, y) => StatsAgree(w, s2, u2, k2, a2, y2)
  BY <1>1, <1>2 DEF StatsAgree, Agrees
<1>4. PingsAgree(w, k, a) => PingsAgree(w, k2, a2)
  BY <1>1, <1>2 DEF PingsAgree
<1> QED
  BY <1>3, <1>4

LEMMA NodesResting ==
  ASSUME StatsTell, NodesRest
  PROVE  NodesMove
BY DEF StatsTell, NodesRest, NodesMove, GoesOn

LEMMA OneHeard ==
  ASSUME StatsTell, NEW n \in Watched, alive[n], Verifying!Hears(n), UNCHANGED <<pUp, boots, alive, why>>
  PROVE  NodesMove
<1> DEFINE t == [up |-> pUp[n], boot |-> boots[n], why |-> why[n]]
<1>1. seen' = [seen EXCEPT ![n] = t]
  BY DEF Verifying!Hears
<1>2. t \in StatRecords
  BY StatIs DEF StatsTell
<1>3. seen' \in [Watched -> StatRecords] /\ seen'[n] = t /\ \A m \in Watched \ {n} : seen'[m] = seen[m]
  BY <1>1, <1>2 DEF StatsTell
<1> QED
  BY <1>3 DEF StatsTell, NodesMove, GoesOn

LEMMA NodeSteps ==
  ASSUME StatsTell,
         \/ \E n \in Watched : Verifying!Tick(n) \/ Verifying!Stat(n) \/ Verifying!Down(n) \/ Verifying!Up(n)
         \/ Verifying!Session
  PROVE  NodesMove /\ UNCHANGED worker
<1>0. /\ pUp \in [Watched -> Nat] /\ boots \in [Watched -> Nat] /\ seen \in [Watched -> StatRecords]
      /\ alive \in [Watched -> BOOLEAN] /\ why \in [Watched -> Reasons]
  BY DEF StatsTell
<1>1. ASSUME NEW n \in Watched, Verifying!Tick(n)
      PROVE  NodesMove /\ UNCHANGED worker
  <2>1. pUp' = [pUp EXCEPT ![n] = pUp[n] + 1] /\ UNCHANGED <<seen, boots, alive, why, worker>>
    BY <1>1 DEF Verifying!Tick
  <2>2. pUp' \in [Watched -> Nat] /\ pUp'[n] = pUp[n] + 1 /\ \A m \in Watched \ {n} : pUp'[m] = pUp[m]
    BY <1>0, <2>1
  <2> QED
    BY <1>0, <2>1, <2>2 DEF NodesMove, GoesOn
<1>2. ASSUME NEW n \in Watched, Verifying!Stat(n)
      PROVE  NodesMove /\ UNCHANGED worker
  BY <1>2, OneHeard DEF Verifying!Stat, Verifying!nodeVars
<1>3. ASSUME NEW n \in Watched, Verifying!Down(n)
      PROVE  NodesMove /\ UNCHANGED worker
  <2>1. PICK r \in Reasons : why' = [why EXCEPT ![n] = r]
    BY <1>3 DEF Verifying!Down, Reasons
  <2>2. alive' = [alive EXCEPT ![n] = FALSE] /\ UNCHANGED <<seen, pUp, boots, worker>>
    BY <1>3 DEF Verifying!Down
  <2>3. /\ alive' \in [Watched -> BOOLEAN] /\ why' \in [Watched -> Reasons] /\ ~alive'[n]
        /\ \A m \in Watched \ {n} : alive'[m] = alive[m] /\ why'[m] = why[m]
    BY <1>0, <2>1, <2>2
  <2> QED
    BY <1>0, <2>2, <2>3 DEF NodesMove, GoesOn
<1>4. ASSUME NEW n \in Watched, Verifying!Up(n)
      PROVE  NodesMove /\ UNCHANGED worker
  <2>1. /\ boots' = [boots EXCEPT ![n] = boots[n] + 1] /\ pUp' = [pUp EXCEPT ![n] = 0]
        /\ alive' = [alive EXCEPT ![n] = TRUE] /\ ~alive[n] /\ UNCHANGED <<seen, why, worker>>
    BY <1>4 DEF Verifying!Up
  <2>2. /\ boots' \in [Watched -> Nat] /\ pUp' \in [Watched -> Nat] /\ alive' \in [Watched -> BOOLEAN]
        /\ boots'[n] = boots[n] + 1 /\ pUp'[n] = 0
        /\ \A m \in Watched \ {n} : boots'[m] = boots[m] /\ pUp'[m] = pUp[m] /\ alive'[m] = alive[m]
    BY <1>0, <2>1
  <2> QED
    BY <1>0, <2>1, <2>2 DEF NodesMove, GoesOn
<1>5. CASE Verifying!Session
  <2>1. seen' = [m \in Watched |-> Verifying!NoStat] /\ UNCHANGED <<pUp, boots, alive, why, worker>>
    BY <1>5 DEF Verifying!Session, Verifying!nodeVars
  <2>2. Verifying!NoStat \in StatRecords
    BY DEF Verifying!NoStat, StatRecords, Reasons
  <2> QED
    BY <1>0, <2>1, <2>2 DEF NodesMove, GoesOn
<1> QED
  BY <1>1, <1>2, <1>3, <1>4, <1>5

-----------------------------------------------------------------------------
(* The records keep their types.                                           *)
LEMMA VerifyingTransacts ==
  ASSUME PanelTypes(Watched), NEW n \in Watched, Verifying!Transact(n)
  PROVE  seq' \in 0..(SeqMod - 1) /\ snap' \in [Watched -> TxRecords]
<1>1. seq' = (seq + 1) % SeqMod /\ snap' = [snap EXCEPT ![n] = [seq |-> seq', order |-> left.order]]
  BY DEF Verifying!Transact
<1>2. seq' \in 0..(SeqMod - 1) /\ left.order \in Int
  BY <1>1, WatchedConstants, NextNumber DEF PanelTypes, Bounds
<1> QED
  BY <1>1, <1>2 DEF PanelTypes, TxRecords

LEMMA VerifyingLoses ==
  ASSUME left \in Bounds, NEW n, NEW ok \in BOOLEAN, Verifying!Lost(n, ok)
  PROVE  left' \in Bounds
<1> DEFINE x == IF ~ok /\ alive[n] THEN left.losses - 1 ELSE left.losses
<1>1. left' = [left EXCEPT !.losses = x, !.order = left.order + 1]
  BY DEF Verifying!Lost
<1>2. x \in Int
  BY DEF Bounds
<1> HIDE DEF x
<1> QED
  BY <1>1, <1>2, BoundsAfter, Zenon

(* What each action makes of the thread, the numbers and the verdicts.  The *)
(* thread's own actions leave the nodes alone; only a STAT may come in.     *)
Verdict(n, v) == v \in Verdicts /\ verdict' = [verdict EXCEPT ![n] = v]

LEMMA NoteSays ==
  ASSUME PanelTypes(Watched), StatsTell, Verifying!Note
  PROVE  LET n == worker.run.node IN
         /\ worker.at = "start" /\ NodesRest /\ verdict' = verdict
         /\ RecordIs(worker', Watched, worker.run, "send", seen[n], seen[n].up, worker.cut, worker.back,
                    IF seen[n] = Verifying!NoStat THEN boots[n] ELSE seen[n].boot,
                    worker.accepted, worker.missed)
         /\ UNCHANGED <<avail, query, sel, cur, session, local, seq, snap, left>>
<1> DEFINE n == worker.run.node
           k == IF seen[n] = Verifying!NoStat THEN boots[n] ELSE seen[n].boot
<1>1. worker \in Threads(Watched) /\ n \in Watched
  BY ThreadOf DEF PanelTypes
<1>2. seen[n] \in StatRecords /\ seen[n].up \in Int /\ k \in Int
  BY <1>1 DEF StatsTell, StatRecords
<1>3. /\ worker.at = "start" /\ NodesRest /\ verdict' = verdict
      /\ UNCHANGED <<avail, query, sel, cur, session, local, seq, snap, left>>
  BY DEF Verifying!Note, Verifying!nodeVars, Verifying!selection, NodesRest
<1>4. worker' = [worker EXCEPT !.at = "send", !.base = seen[n], !.last = seen[n].up, !.since = k]
  BY DEF Verifying!Note, Verifying!NodeStat
<1> HIDE DEF n, k
<1>5. RecordIs(worker', Watched, worker.run, "send", seen[n], seen[n].up, worker.cut, worker.back, k,
              worker.accepted, worker.missed)
  BY <1>1, <1>2, <1>4, ThreadNotes
<1> QED
  BY <1>3, <1>5 DEF n, k

LEMMA RebootSays ==
  ASSUME PanelTypes(Watched), StatsTell, Verifying!SendReboot
  PROVE  LET n == worker.run.node IN
         /\ worker.at = "send" /\ NodesRest /\ left' \in Bounds
         /\ seq' \in 0..(SeqMod - 1) /\ snap' \in [Watched -> TxRecords]
         /\ UNCHANGED <<avail, query, sel, cur, session, local>>
         /\ \/ worker' \in Threads(Watched) /\ worker'.at = "quits" /\ Verdict(n, "not_verified_no_ack")
            \/ /\ verdict' = verdict
               /\ RecordIs(worker', Watched, worker.run, "ping", worker.base, worker.last, worker.cut,
                          worker.back, worker.since, boots[n], worker.missed)
<1> DEFINE n == worker.run.node
<1>1. worker \in Threads(Watched) /\ n \in Watched /\ left \in Bounds
  BY ThreadOf DEF PanelTypes
<1>2. PICK ok \in BOOLEAN :
        /\ Verifying!Lost(n, ok) /\ Verifying!Transact(n)
        /\ \/ /\ worker' = [[worker EXCEPT !.tx = snap'[n]] EXCEPT !.at = "quits"]
              /\ verdict' = [verdict EXCEPT ![n] = "not_verified_no_ack"]
           \/ /\ worker' = [worker EXCEPT !.at = "ping", !.tx = snap'[n], !.accepted = boots[n]]
              /\ verdict' = verdict
  BY Zenon DEF Verifying!SendReboot, Verifying!Post
<1>3. worker.at = "send" /\ NodesRest /\ UNCHANGED <<avail, query, sel, cur, session, local>>
  BY Zenon DEF Verifying!SendReboot, Verifying!selection, NodesRest
<1>4. left' \in Bounds
  BY <1>1, <1>2, VerifyingLoses
<1>5. seq' \in 0..(SeqMod - 1) /\ snap' \in [Watched -> TxRecords]
  BY <1>1, <1>2, VerifyingTransacts
<1>6. snap'[n] \in TxRecords /\ boots[n] \in Int
  BY <1>1, <1>5 DEF StatsTell
<1> HIDE DEF n
<1>7. CASE /\ worker' = [[worker EXCEPT !.tx = snap'[n]] EXCEPT !.at = "quits"]
           /\ verdict' = [verdict EXCEPT ![n] = "not_verified_no_ack"]
  <2> DEFINE v == [worker EXCEPT !.tx = snap'[n]]
  <2>1. v \in Threads(Watched)
    BY <1>1, <1>6, ThreadHas, Zenon
  <2>2. worker' = [v EXCEPT !.at = "quits"]
    BY <1>7
  <2> HIDE DEF v
  <2>3. worker' \in Threads(Watched) /\ worker'.at = "quits"
    BY <2>1, <2>2, ThreadEndsAt
  <2> QED
    BY <1>3, <1>4, <1>5, <1>7, <2>3 DEF Verdict, Verdicts, n
<1>8. CASE /\ worker' = [worker EXCEPT !.at = "ping", !.tx = snap'[n], !.accepted = boots[n]]
           /\ verdict' = verdict
  <2>1. RecordIs(worker', Watched, worker.run, "ping", worker.base, worker.last, worker.cut,
                worker.back, worker.since, boots[n], worker.missed)
    BY <1>1, <1>6, <1>8, ThreadSends
  <2> QED
    BY <1>3, <1>4, <1>5, <1>8, <2>1 DEF n
<1> QED
  BY <1>2, <1>7, <1>8

LEMMA PingSays ==
  ASSUME PanelTypes(Watched), Verifying!Ping
  PROVE  \E ok \in BOOLEAN, s \in {"stat", "look"} :
           LET n == worker.run.node IN
           /\ worker.at = "ping" /\ NodesRest /\ left' \in Bounds /\ verdict' = verdict
           /\ seq' \in 0..(SeqMod - 1) /\ snap' \in [Watched -> TxRecords]
           /\ UNCHANGED <<avail, query, sel, cur, session, local>>
           /\ ok => alive[n]
           /\ RecordIs(worker', Watched, worker.run, s, worker.base, worker.last, worker.cut \/ ~ok,
                      worker.cut /\ ok, worker.since, worker.accepted, worker.missed \/ (~ok /\ alive[n]))
<1> DEFINE n == worker.run.node
<1>1. /\ worker \in Threads(Watched) /\ n \in Watched /\ left \in Bounds /\ worker.tries + 1 \in Int
      /\ seq \in 0..(SeqMod - 1) /\ snap \in [Watched -> TxRecords]
  BY ThreadOf DEF PanelTypes
<1>2. PICK ok \in BOOLEAN :
        /\ IF session THEN Verifying!Answered(n, ok) /\ Verifying!Lost(n, ok) /\ Verifying!Transact(n)
           ELSE ~ok /\ UNCHANGED <<left, seq, snap>>
        /\ worker' = [worker EXCEPT !.at = IF (worker.tries + 1) % 3 = 0 THEN "stat" ELSE "look",
                        !.tries = worker.tries + 1, !.cut = worker.cut \/ ~ok, !.back = worker.cut /\ ok,
                        !.missed = worker.missed \/ (~ok /\ alive[n])]
  BY Zenon DEF Verifying!Ping
<1>3. worker.at = "ping" /\ NodesRest /\ verdict' = verdict /\ UNCHANGED <<avail, query, sel, cur, session, local>>
  BY Zenon DEF Verifying!Ping, Verifying!nodeVars, Verifying!selection, NodesRest
<1>4. left' \in Bounds
  BY <1>1, <1>2, VerifyingLoses
<1>5. seq' \in 0..(SeqMod - 1) /\ snap' \in [Watched -> TxRecords]
  BY <1>1, <1>2, VerifyingTransacts
<1>6. ok => alive[n]
  BY <1>2 DEF Verifying!Answered
<1> DEFINE s == IF (worker.tries + 1) % 3 = 0 THEN "stat" ELSE "look"
           t == worker.tries + 1
<1>7. s \in {"stat", "look"} /\ s \in ThreadPlaces
  BY DEF ThreadPlaces
<1>8. PICK b, c, d :
        /\ b \in BOOLEAN /\ b = (worker.cut \/ ~ok)
        /\ c \in BOOLEAN /\ c = (worker.cut /\ ok)
        /\ d \in BOOLEAN /\ d = (worker.missed \/ (~ok /\ alive[n]))
  OBVIOUS
<1>9. worker' = [worker EXCEPT !.at = s, !.tries = t, !.cut = b, !.back = c, !.missed = d]
  BY <1>2, <1>8
<1> HIDE DEF s, t
<1>10. RecordIs(worker', Watched, worker.run, s, worker.base, worker.last, b, c, worker.since,
                worker.accepted, d)
  <2>1. /\ worker \in Threads(Watched) /\ s \in ThreadPlaces /\ t \in Int
        /\ b \in BOOLEAN /\ c \in BOOLEAN /\ d \in BOOLEAN
    BY <1>1, <1>7, <1>8 DEF t
  <2>2. RecordIs([worker EXCEPT !.at = s, !.tries = t, !.cut = b, !.back = c, !.missed = d],
                 Watched, worker.run, s, worker.base, worker.last, b, c, worker.since,
                 worker.accepted, d)
    BY <2>1, Zenon DEF Threads, RecordIs
  <2> QED
    BY <1>9, <2>2, Zenon
<1> QED
  BY <1>3, <1>4, <1>5, <1>6, <1>7, <1>8, <1>10

LEMMA AskSays ==
  ASSUME PanelTypes(Watched), StatsTell, Verifying!AskForStat
  PROVE  /\ worker.at = "stat" /\ NodesMove /\ left' \in Bounds /\ verdict' = verdict
         /\ seq' \in 0..(SeqMod - 1) /\ snap' \in [Watched -> TxRecords]
         /\ UNCHANGED <<avail, query, sel, cur, session, local>>
         /\ GoesTo(worker', Watched, worker, "look")
<1> DEFINE n == worker.run.node
<1>1. /\ worker \in Threads(Watched) /\ n \in Watched /\ left \in Bounds
      /\ seq \in 0..(SeqMod - 1) /\ snap \in [Watched -> TxRecords]
  BY ThreadOf DEF PanelTypes
<1>2. /\ worker.at = "stat" /\ verdict' = verdict /\ UNCHANGED <<avail, query, sel, cur, session, local>>
      /\ worker' = [worker EXCEPT !.at = "look"] /\ UNCHANGED <<pUp, boots, alive, why>>
  BY DEF Verifying!AskForStat, Verifying!nodeVars, Verifying!selection
<1>3. \/ \E ok \in BOOLEAN : Verifying!Lost(n, ok) /\ Verifying!Transact(n)
      \/ UNCHANGED <<left, seq, snap>>
  BY DEF Verifying!AskForStat
<1>4. left' \in Bounds
  BY <1>1, <1>3, VerifyingLoses
<1>5. seq' \in 0..(SeqMod - 1) /\ snap' \in [Watched -> TxRecords]
  BY <1>1, <1>3, VerifyingTransacts
<1>6. UNCHANGED seen \/ (alive[n] /\ Verifying!Hears(n))
  BY DEF Verifying!AskForStat
<1>7. NodesMove
  <2>1. CASE UNCHANGED seen
    BY <1>2, <2>1, NodesResting DEF NodesRest
  <2>2. CASE alive[n] /\ Verifying!Hears(n)
    BY <1>1, <1>2, <2>2, OneHeard
  <2> QED
    BY <1>6, <2>1, <2>2
<1>8. GoesTo(worker', Watched, worker, "look")
  <2>1. "look" \in ThreadPlaces
    BY DEF ThreadPlaces
  <2> QED
    BY <1>1, <1>2, <2>1, ThreadGoes
<1> QED
  BY <1>2, <1>4, <1>5, <1>7, <1>8

(* A look that confirms a restart has a STAT for evidence, or an answer     *)
(* after a silence.                                                         *)
LEMMA LookSays ==
  ASSUME PanelTypes(Watched), StatsTell, Verifying!Look
  PROVE  LET n == worker.run.node
             s == seen[n]
             u == IF s = Verifying!NoStat THEN worker.last ELSE s.up IN
         /\ worker.at = "look" /\ NodesRest
         /\ UNCHANGED <<avail, query, sel, cur, session, local, left, seq, snap>>
         /\ \/ /\ worker' \in Threads(Watched) /\ worker'.at = "quits"
               /\ \E v \in {"confirmed", "probable", "not_confirmed"} :
                    /\ Verdict(n, v)
                    /\ v = "confirmed" => Verifying!Told(worker, s) \/ worker.back
            \/ /\ verdict' = verdict
               /\ RecordIs(worker', Watched, worker.run, "ping", worker.base, u, worker.cut,
                          worker.back, worker.since, worker.accepted, worker.missed)
<1> DEFINE n == worker.run.node
           s == seen[n]
           u == IF s = Verifying!NoStat THEN worker.last ELSE s.up
           w == [worker EXCEPT !.last = u]
           r == Verifying!Told(worker, s) \/ worker.back
<1>1. worker \in Threads(Watched) /\ n \in Watched /\ worker.last \in Int
  BY ThreadOf DEF PanelTypes
<1>2. u \in Int
  BY <1>1 DEF StatsTell, StatRecords
<1>3. \/ /\ worker' = [w EXCEPT !.at = "quits"]
         /\ verdict' = [verdict EXCEPT ![n] = IF r THEN "confirmed"
                                              ELSE IF worker.cut THEN "probable" ELSE "not_confirmed"]
      \/ worker' = [w EXCEPT !.at = "ping"] /\ verdict' = verdict
  BY Zenon DEF Verifying!Look, Verifying!NodeStat, Verifying!Post
<1>4. /\ worker.at = "look" /\ NodesRest
      /\ UNCHANGED <<avail, query, sel, cur, session, local, left, seq, snap>>
  BY Zenon DEF Verifying!Look, Verifying!nodeVars, Verifying!selection, NodesRest
<1> HIDE DEF u
<1>5. RecordIs(w, Watched, worker.run, worker.at, worker.base, u, worker.cut, worker.back,
              worker.since, worker.accepted, worker.missed)
  BY <1>1, <1>2, ThreadLooks, Zenon
<1>6. w \in Threads(Watched)
  BY <1>5 DEF RecordIs
<1> HIDE DEF w, r
<1>7. CASE /\ worker' = [w EXCEPT !.at = "quits"]
           /\ verdict' = [verdict EXCEPT ![n] = IF r THEN "confirmed"
                                                ELSE IF worker.cut THEN "probable" ELSE "not_confirmed"]
  <2>1. worker' \in Threads(Watched) /\ worker'.at = "quits"
    BY <1>6, <1>7, ThreadEndsAt
  <2>2. \E v \in {"confirmed", "probable", "not_confirmed"} : Verdict(n, v) /\ (v = "confirmed" => r)
    BY <1>7 DEF Verdict, Verdicts
  <2> QED
    BY <1>4, <2>1, <2>2 DEF r
<1>8. CASE worker' = [w EXCEPT !.at = "ping"] /\ verdict' = verdict
  <2>1. "ping" \in ThreadPlaces
    BY DEF ThreadPlaces
  <2>2. GoesTo(worker', Watched, w, "ping")
    BY <1>6, <1>8, <2>1, ThreadGoes
  <2>3. RecordIs(worker', Watched, worker.run, "ping", worker.base, u, worker.cut,
                worker.back, worker.since, worker.accepted, worker.missed)
    BY <1>5, <2>2 DEF GoesTo, RecordIs
  <2> QED
    BY <1>4, <1>8, <2>3 DEF u
<1> QED
  BY <1>3, <1>7, <1>8

(* The other actions: a click, a PING, an exception, the signals, and what  *)
(* the operator, the nodes, the session and other senders do.               *)
Leaves(w, v) ==
  \/ v = w
  \/ v.at = "start" /\ ~v.cut /\ ~v.back /\ ~v.missed
  \/ v.at \in {"quit", "none"}
  \/ v.at = "quits" /\ w.at \in {"start", "send"}

LEMMA ClickSays ==
  ASSUME PanelTypes(Watched), NEW c \in {"REBOOT_SOFT"}, Verifying!Click(c)
  PROVE  PanelTypes(Watched)' /\ NodesRest /\ verdict' = verdict /\ Leaves(worker, worker')
<1> USE WatchedConstants
<1>1. /\ cur' = [id |-> Checks - left.runs + 1, cmd |-> c, node |-> Verifying!Target]
      /\ worker' = [Verifying!Idle EXCEPT !.run = cur', !.at = "start"]
      /\ left' = [left EXCEPT !["runs"] = @ - 1] /\ verdict' = verdict
      /\ UNCHANGED <<avail, query, sel, session, seq, snap, local>> /\ NodesRest
  BY DEF Verifying!Click, Verifying!Spend, Verifying!selection, Verifying!nodeVars, NodesRest
<1>2. Verifying!Target \in Watched /\ Checks - left.runs + 1 \in Int
  BY DEF PanelTypes, Bounds, Verifying!Target, Verifying!Default
<1>3. cur' \in Asks(Watched)
  BY <1>1, <1>2 DEF Asks
<1>4. worker' = [run |-> cur', at |-> "start", tx |-> Verifying!NoTx, base |-> Verifying!NoStat, last |-> -1,
                 cut |-> FALSE, back |-> FALSE, tries |-> 0, since |-> 0, accepted |-> 0, missed |-> FALSE]
  BY <1>1 DEF Verifying!Idle
<1>5. worker' \in Threads(Watched)
  BY <1>3, <1>4 DEF Threads, ThreadPlaces, TxRecords, StatRecords, Reasons, Verifying!NoTx, Verifying!NoStat
<1>6. worker'.at = "start" /\ ~worker'.cut /\ ~worker'.back /\ ~worker'.missed
  BY <1>4
<1>7. left' \in Bounds
  BY <1>1 DEF PanelTypes, Bounds
<1> QED
  BY <1>1, <1>3, <1>5, <1>6, <1>7 DEF PanelTypes, Leaves

LEMMA SelectingSays ==
  ASSUME PanelTypes(Watched), Verifying!Select \/ Verifying!Refresh \/ Verifying!Search
  PROVE  PanelTypes(Watched)' /\ NodesRest /\ verdict' = verdict /\ worker' = worker
<1> USE WatchedConstants
<1>1. /\ UNCHANGED <<cur, worker, seq, snap, local, session, left, verdict>>
      /\ avail' \in SUBSET Watched /\ query' \in SUBSET Watched /\ NodesRest
  BY DEF Verifying!Select, Verifying!Refresh, Verifying!Search, PanelTypes, NodesRest, Verifying!nodeVars
<1>2. sel' \in Watched \cup {0}
  <2>1. CASE Verifying!Select
    BY <2>1 DEF Verifying!Select, Verifying!Options, PanelTypes
  <2>2. CASE Verifying!Refresh \/ Verifying!Search
    <3>1. sel' = Verifying!Keep(Verifying!Target, avail', query')
      BY <2>2 DEF Verifying!Refresh, Verifying!Search
    <3> QED
      BY <1>1, <3>1, KeepIsANode
  <2> QED
    BY <2>1, <2>2
<1> QED
  BY <1>1, <1>2 DEF PanelTypes

LEMMA SignalsSay ==
  ASSUME PanelTypes(Watched),
         \/ Verifying!Fails \/ Verifying!SendPing \/ Verifying!Finish \/ Verifying!ThreadEnds
         \/ Verifying!ThreadFinished
  PROVE  PanelTypes(Watched)' /\ NodesRest /\ verdict' = verdict /\ Leaves(worker, worker')
<1>0. /\ worker \in Threads(Watched) /\ worker.run.node \in Watched /\ worker.tx \in TxRecords
      /\ left \in Bounds
  BY ThreadOf DEF PanelTypes
<1> DEFINE n == worker.run.node
<1>1. CASE Verifying!Fails
  <2>1. /\ worker.at \in {"start", "send"} /\ worker' = [worker EXCEPT !.at = "quits"] /\ NodesRest
        /\ UNCHANGED <<avail, query, sel, cur, seq, session, snap, local, left, verdict>>
    BY <1>1 DEF Verifying!Fails, Verifying!Post, Verifying!selection, Verifying!nodeVars, NodesRest
  <2>2. worker' \in Threads(Watched) /\ worker'.at = "quits"
    BY <1>0, <2>1, ThreadEndsAt
  <2> QED
    BY <2>1, <2>2 DEF PanelTypes, Leaves
<1>2. CASE Verifying!SendPing
  <2>1. PICK ok \in BOOLEAN : Verifying!Lost(n, ok)
    BY <1>2 DEF Verifying!SendPing
  <2>2. /\ Verifying!Transact(n) /\ worker.at = "start" /\ verdict' = verdict /\ NodesRest
        /\ worker' = [[worker EXCEPT !.tx = snap'[n]] EXCEPT !.at = "quits"]
        /\ UNCHANGED <<avail, query, sel, cur, session, local>>
    BY <1>2 DEF Verifying!SendPing, Verifying!Post, Verifying!selection, Verifying!nodeVars, NodesRest
  <2>3. left' \in Bounds
    BY <1>0, <2>1, VerifyingLoses
  <2>4. seq' \in 0..(SeqMod - 1) /\ snap' \in [Watched -> TxRecords]
    BY <1>0, <2>2, VerifyingTransacts
  <2> DEFINE v == [worker EXCEPT !.tx = snap'[n]]
  <2>5. v \in Threads(Watched)
    BY <1>0, <2>4, ThreadHas
  <2>6. worker' = [v EXCEPT !.at = "quits"]
    BY <2>2
  <2> HIDE DEF v
  <2>7. worker' \in Threads(Watched) /\ worker'.at = "quits"
    BY <2>5, <2>6, ThreadEndsAt
  <2> QED
    BY <2>2, <2>3, <2>4, <2>7 DEF PanelTypes, Leaves
<1>3. CASE Verifying!Finish
  <2>1. /\ worker' = [worker EXCEPT !.at = "quit"] /\ verdict' = verdict /\ NodesRest
        /\ local' = local \/ local' = [local EXCEPT ![n] = worker.tx]
        /\ UNCHANGED <<avail, query, sel, cur, seq, session, snap, left>>
    BY <1>3 DEF Verifying!Finish, Verifying!Registers, Verifying!selection, Verifying!nodeVars, NodesRest
  <2>2. worker' \in Threads(Watched) /\ worker'.at = "quit"
    BY <1>0, <2>1, ThreadEndsAt
  <2>3. local' \in [Watched -> TxRecords]
    BY <1>0, <2>1 DEF PanelTypes
  <2> QED
    BY <2>1, <2>2, <2>3 DEF PanelTypes, Leaves
<1>4. CASE Verifying!ThreadEnds
  <2>1. /\ worker' = [worker EXCEPT !.at = "none"] /\ NodesRest
        /\ UNCHANGED <<avail, query, sel, cur, seq, session, snap, local, left, verdict>>
    BY <1>4 DEF Verifying!ThreadEnds, Verifying!selection, Verifying!nodeVars, NodesRest
  <2>2. worker' \in Threads(Watched) /\ worker'.at = "none"
    BY <1>0, <2>1, ThreadEndsAt
  <2> QED
    BY <2>1, <2>2 DEF PanelTypes, Leaves
<1>5. CASE Verifying!ThreadFinished
  <2>1. /\ cur' = Verifying!Nobody /\ NodesRest
        /\ UNCHANGED <<avail, query, sel, worker, seq, session, snap, local, left, verdict>>
    BY <1>5 DEF Verifying!ThreadFinished, Verifying!selection, Verifying!nodeVars, NodesRest
  <2>2. cur' \in Asks(Watched)
    BY <2>1, WatchedConstants DEF Verifying!Nobody, Verifying!Default, Asks
  <2> QED
    BY <2>1, <2>2 DEF PanelTypes, Leaves
<1> QED
  BY <1>1, <1>2, <1>3, <1>4, <1>5

LEMMA OutsideSays ==
  ASSUME PanelTypes(Watched), StatsTell, verdict \in [Watched -> Verdicts],
         \/ \E n \in Watched : \/ Verifying!Forget(n) \/ Verifying!Tick(n) \/ Verifying!Stat(n)
                               \/ Verifying!Down(n) \/ Verifying!Up(n) \/ Verifying!Other(n)
         \/ Verifying!Session
  PROVE  PanelTypes(Watched)' /\ NodesMove /\ verdict' \in [Watched -> Verdicts] /\ worker' = worker
<1> USE WatchedConstants
<1>0. left \in Bounds
  BY DEF PanelTypes
<1>1. ASSUME NEW n \in Watched, Verifying!Forget(n)
      PROVE  PanelTypes(Watched)' /\ NodesRest /\ verdict' = verdict /\ worker' = worker
  <2>1. /\ local' = [local EXCEPT ![n] = Verifying!NoTx] /\ NodesRest
        /\ UNCHANGED <<avail, query, sel, cur, worker, seq, session, snap, left, verdict>>
    BY <1>1 DEF Verifying!Forget, Verifying!selection, Verifying!nodeVars, NodesRest
  <2>2. local' \in [Watched -> TxRecords]
    BY <2>1 DEF PanelTypes, TxRecords, Verifying!NoTx
  <2> QED
    BY <2>1, <2>2 DEF PanelTypes
<1>2. ASSUME NEW n \in Watched, Verifying!Tick(n) \/ Verifying!Stat(n) \/ Verifying!Down(n) \/ Verifying!Up(n)
      PROVE  PanelTypes(Watched)' /\ verdict' = verdict
  <2>1. UNCHANGED <<avail, query, sel, cur, worker, seq, snap, local, session, verdict>>
    BY <1>2 DEF Verifying!Tick, Verifying!Stat, Verifying!Down, Verifying!Up, Verifying!selection
  <2>2. left' = left \/ left' = [left EXCEPT !["reboots"] = @ - 1]
    BY <1>2 DEF Verifying!Tick, Verifying!Stat, Verifying!Down, Verifying!Up, Verifying!Spend
  <2>3. left' \in Bounds
    BY <1>0, <2>2 DEF Bounds
  <2> QED
    BY <2>1, <2>3 DEF PanelTypes
<1>3. ASSUME NEW n \in Watched, Verifying!Other(n)
      PROVE  PanelTypes(Watched)' /\ NodesRest /\ verdict' = verdict /\ worker' = worker
  <2>1. /\ Verifying!Transact(n) /\ left' = [left EXCEPT !.other = @ - 1, !.order = @ + 1] /\ NodesRest
        /\ UNCHANGED <<avail, query, sel, cur, worker, local, session, verdict>>
    BY <1>3 DEF Verifying!Other, Verifying!selection, Verifying!nodeVars, NodesRest
  <2>2. left.other - 1 \in Int /\ left.order + 1 \in Int
    BY <1>0 DEF Bounds
  <2>3. left' \in Bounds
    BY <1>0, <2>1, <2>2, Zenon DEF Bounds
  <2>4. seq' \in 0..(SeqMod - 1) /\ snap' \in [Watched -> TxRecords]
    BY <2>1, VerifyingTransacts
  <2> QED
    BY <2>1, <2>3, <2>4 DEF PanelTypes
<1>4. CASE Verifying!Session
  <2>1. /\ session' = ~session /\ seq' = SeqMod - 1 /\ snap' = [m \in Watched |-> Verifying!NoTx]
        /\ verdict' = [m \in Watched |-> "none"]
        /\ left' = left \/ left' = [left EXCEPT !["sessions"] = @ - 1]
        /\ UNCHANGED <<avail, query, sel, cur, worker, local>>
    BY <1>4 DEF Verifying!Session, Verifying!Spend, Verifying!selection
  <2>2. left' \in Bounds
    BY <1>0, <2>1 DEF Bounds
  <2>3. seq' \in 0..(SeqMod - 1) /\ snap' \in [Watched -> TxRecords] /\ session' \in BOOLEAN
    BY <2>1 DEF TxRecords, Verifying!NoTx, PanelTypes
  <2>4. verdict' \in [Watched -> Verdicts]
    BY <2>1 DEF Verdicts
  <2>5. PanelTypes(Watched)'
    BY <2>1, <2>2, <2>3 DEF PanelTypes
  <2> QED
    BY <1>4, <2>1, <2>4, <2>5, NodeSteps
<1> QED
  BY <1>1, <1>2, <1>3, <1>4, NodeSteps, NodesResting

LEMMA OthersSay ==
  ASSUME VerifyingInv, Verifying!Next, ~Verifying!Note, ~Verifying!SendReboot, ~Verifying!Ping,
         ~Verifying!AskForStat, ~Verifying!Look
  PROVE  PanelTypes(Watched)' /\ NodesMove /\ verdict' \in [Watched -> Verdicts]
         /\ (worker' = worker \/ (Leaves(worker, worker') /\ NodesRest))
<1>0. PanelTypes(Watched) /\ StatsTell /\ verdict \in [Watched -> Verdicts]
  BY DEF VerifyingInv
<1>1. CASE \E c \in {"REBOOT_SOFT"} : Verifying!Click(c)
  BY <1>0, <1>1, ClickSays, NodesResting
<1>2. CASE Verifying!Select \/ Verifying!Refresh \/ Verifying!Search
  BY <1>0, <1>2, SelectingSays, NodesResting
<1>3. CASE \/ Verifying!Fails \/ Verifying!SendPing \/ Verifying!Finish \/ Verifying!ThreadEnds
           \/ Verifying!ThreadFinished
  BY <1>0, <1>3, SignalsSay, NodesResting
<1>4. CASE \/ \E n \in Watched : \/ Verifying!Forget(n) \/ Verifying!Tick(n) \/ Verifying!Stat(n)
                                 \/ Verifying!Down(n) \/ Verifying!Up(n) \/ Verifying!Other(n)
           \/ Verifying!Session
  BY <1>0, <1>4, OutsideSays
<1> QED
  BY <1>1, <1>2, <1>3, <1>4 DEF Verifying!Next, Verifying!Thread

LEMMA TypesKeep ==
  ASSUME VerifyingInv, Verifying!Next
  PROVE  PanelTypes(Watched)' /\ NodesMove /\ StatsTell' /\ verdict' \in [Watched -> Verdicts]
<1>0. PanelTypes(Watched) /\ StatsTell /\ verdict \in [Watched -> Verdicts]
  BY DEF VerifyingInv
<1>1. PanelTypes(Watched)' /\ NodesMove /\ verdict' \in [Watched -> Verdicts]
  <2>1. CASE Verifying!Note
    BY <1>0, <2>1, NoteSays, NodesResting DEF PanelTypes, RecordIs
  <2>2. CASE Verifying!SendReboot
    BY <1>0, <2>2, RebootSays, NodesResting DEF PanelTypes, RecordIs, Verdict
  <2>3. CASE Verifying!Ping
    BY <1>0, <2>3, PingSays, NodesResting DEF PanelTypes, RecordIs
  <2>4. CASE Verifying!AskForStat
    BY <1>0, <2>4, AskSays DEF PanelTypes, RecordIs, GoesTo
  <2>5. CASE Verifying!Look
    BY <1>0, <2>5, LookSays, NodesResting DEF PanelTypes, RecordIs, Verdict
  <2>6. CASE ~(\/ Verifying!Note \/ Verifying!SendReboot \/ Verifying!Ping \/ Verifying!AskForStat
               \/ Verifying!Look)
    BY <2>6, OthersSay
  <2> QED
    BY <2>1, <2>2, <2>3, <2>4, <2>5, <2>6
<1>2. StatsTell'
  <2>1. \A m \in Watched : Agrees(seen'[m], pUp'[m], boots'[m], alive'[m], why'[m])
    <3> SUFFICES ASSUME NEW m \in Watched
                 PROVE  Agrees(seen'[m], pUp'[m], boots'[m], alive'[m], why'[m])
      OBVIOUS
    <3>1. /\ seen[m] \in StatRecords /\ pUp[m] \in Nat /\ boots[m] \in Nat /\ alive[m] \in BOOLEAN
          /\ why[m] \in Reasons /\ Agrees(seen[m], pUp[m], boots[m], alive[m], why[m])
      BY <1>0 DEF StatsTell
    <3>2. /\ alive'[m] \in BOOLEAN /\ why'[m] \in Reasons
          /\ GoesOn(seen[m], pUp[m], boots[m], alive[m], why[m],
                   seen'[m], pUp'[m], boots'[m], alive'[m], why'[m])
      BY <1>1 DEF NodesMove
    <3> QED
      BY <3>1, <3>2, NodeAgrees
  <2> QED
    BY <1>1, <2>1 DEF StatsTell, NodesMove
<1> QED
  BY <1>1, <1>2

LEMMA VerificationKeeps ==
  ASSUME VerifyingInv, Verifying!Next
  PROVE  VerificationTells'
<1> DEFINE n == worker.run.node
           Stats(w, m) == StatsAgree(w, seen[m], pUp[m], boots[m], alive[m], why[m])
           Pings(w, m) == PingsAgree(w, boots[m], alive[m])
<1>0. PanelTypes(Watched) /\ StatsTell /\ VerificationTells
  BY DEF VerifyingInv
<1>1. worker \in Threads(Watched) /\ n \in Watched
  BY <1>0, ThreadOf DEF PanelTypes
<1>2. /\ worker.at \in {"send", "ping", "stat", "look"} => Stats(worker, n)
      /\ worker.at \in {"ping", "stat", "look"} => Pings(worker, n)
      /\ worker.at \in {"start", "send"} => ~worker.cut /\ ~worker.back /\ ~worker.missed
  BY <1>0 DEF VerificationTells
<1>3. /\ seen[n] \in StatRecords /\ pUp[n] \in Nat /\ boots[n] \in Nat /\ alive[n] \in BOOLEAN
      /\ why[n] \in Reasons /\ Agrees(seen[n], pUp[n], boots[n], alive[n], why[n])
      /\ seen[n].up \in Int /\ seen[n].boot \in Int
  BY <1>0, <1>1 DEF StatsTell, StatRecords
<1>4. /\ StatsAgree(worker, seen[n], pUp[n], boots[n], alive[n], why[n])
           => StatsAgree(worker, seen'[n], pUp'[n], boots'[n], alive'[n], why'[n])
      /\ PingsAgree(worker, boots[n], alive[n]) => PingsAgree(worker, boots'[n], alive'[n])
  <2>1. NodesMove
    BY TypesKeep
  <2>2. /\ alive'[n] \in BOOLEAN /\ why'[n] \in Reasons
        /\ GoesOn(seen[n], pUp[n], boots[n], alive[n], why[n],
                 seen'[n], pUp'[n], boots'[n], alive'[n], why'[n])
    BY <1>1, <2>1 DEF NodesMove
  <2> QED
    BY <1>1, <1>3, <2>2, ThreadAgrees
<1>5. CASE worker' = worker
  BY <1>2, <1>4, <1>5 DEF VerificationTells
<1>6. CASE Verifying!AskForStat
  <2>1. worker.at = "stat" /\ GoesTo(worker', Watched, worker, "look")
    BY <1>0, <1>6, AskSays
  <2>2. /\ worker'.run = worker.run /\ worker'.at = "look" /\ worker'.base = worker.base
        /\ worker'.last = worker.last /\ worker'.cut = worker.cut /\ worker'.back = worker.back
        /\ worker'.since = worker.since /\ worker'.accepted = worker.accepted
        /\ worker'.missed = worker.missed
    BY <2>1 DEF GoesTo, RecordIs
  <2>3. /\ StatsAgree(worker, seen'[n], pUp'[n], boots'[n], alive'[n], why'[n])
        /\ PingsAgree(worker, boots'[n], alive'[n])
    BY <1>2, <1>4, <2>1
  <2>4. /\ StatsAgree(worker', seen'[n], pUp'[n], boots'[n], alive'[n], why'[n])
        /\ PingsAgree(worker', boots'[n], alive'[n])
    BY <2>2, <2>3 DEF StatsAgree, PingsAgree
  <2> QED
    BY <2>2, <2>4 DEF VerificationTells
<1> USE DEF NodesRest
<1>7. CASE Verifying!Note
  <2>1. /\ worker.at = "start" /\ NodesRest
        /\ RecordIs(worker', Watched, worker.run, "send", seen[n], seen[n].up, worker.cut, worker.back,
                   IF seen[n] = Verifying!NoStat THEN boots[n] ELSE seen[n].boot,
                   worker.accepted, worker.missed)
    BY <1>0, <1>7, NoteSays
  <2>2. /\ worker'.run = worker.run /\ worker'.at = "send" /\ worker'.base = seen[n]
        /\ worker'.last = seen[n].up /\ worker'.cut = worker.cut /\ worker'.back = worker.back
        /\ worker'.since = (IF seen[n] = Verifying!NoStat THEN boots[n] ELSE seen[n].boot)
        /\ worker'.missed = worker.missed
    BY <2>1 DEF RecordIs
  <2>3. seen[n].up # -1 => seen[n] # Verifying!NoStat
    BY DEF Verifying!NoStat
  <2>4. StatsAgree(worker', seen[n], pUp[n], boots[n], alive[n], why[n])
    BY <1>3, <2>2, <2>3 DEF StatsAgree, Agrees
  <2> QED
    BY <1>2, <2>1, <2>2, <2>4 DEF VerificationTells
<1>8. CASE Verifying!SendReboot
  <2>1. /\ worker.at = "send" /\ NodesRest
        /\ \/ worker'.at = "quits"
           \/ RecordIs(worker', Watched, worker.run, "ping", worker.base, worker.last, worker.cut,
                      worker.back, worker.since, boots[n], worker.missed)
    BY <1>0, <1>8, RebootSays
  <2>2. CASE worker'.at = "quits"
    BY <2>2 DEF VerificationTells
  <2>3. CASE RecordIs(worker', Watched, worker.run, "ping", worker.base, worker.last, worker.cut,
                     worker.back, worker.since, boots[n], worker.missed)
    <3>1. /\ worker'.run = worker.run /\ worker'.at = "ping" /\ worker'.base = worker.base
          /\ worker'.last = worker.last /\ ~worker'.cut /\ ~worker'.back
          /\ worker'.since = worker.since /\ worker'.accepted = boots[n]
      BY <1>2, <2>1, <2>3 DEF RecordIs
    <3>2. StatsAgree(worker', seen[n], pUp[n], boots[n], alive[n], why[n])
      BY <1>2, <2>1, <3>1 DEF StatsAgree
    <3>3. PingsAgree(worker', boots[n], alive[n])
      BY <1>3, <3>1 DEF PingsAgree
    <3> QED
      BY <2>1, <3>1, <3>2, <3>3 DEF VerificationTells
  <2> QED
    BY <2>1, <2>2, <2>3
<1>9. CASE Verifying!Ping
  <2>1. PICK ok \in BOOLEAN, s \in {"stat", "look"} :
          /\ worker.at = "ping" /\ NodesRest /\ (ok => alive[n])
          /\ RecordIs(worker', Watched, worker.run, s, worker.base, worker.last, worker.cut \/ ~ok,
                     worker.cut /\ ok, worker.since, worker.accepted, worker.missed \/ (~ok /\ alive[n]))
    BY <1>0, <1>9, PingSays
  <2>2. /\ worker'.run = worker.run /\ worker'.at = s /\ worker'.base = worker.base
        /\ worker'.last = worker.last /\ worker'.since = worker.since /\ worker'.accepted = worker.accepted
        /\ worker'.cut = (worker.cut \/ ~ok) /\ worker'.back = (worker.cut /\ ok)
        /\ worker'.missed = (worker.missed \/ (~ok /\ alive[n]))
    BY <2>1 DEF RecordIs
  <2>3. StatsAgree(worker', seen[n], pUp[n], boots[n], alive[n], why[n])
    BY <1>2, <2>1, <2>2 DEF StatsAgree
  <2>4. PingsAgree(worker', boots[n], alive[n])
    <3>1. PingsAgree(worker, boots[n], alive[n]) /\ alive[n] \in BOOLEAN
      BY <1>2, <1>3, <2>1
    <3> QED
      BY <2>1, <2>2, <3>1 DEF PingsAgree
  <2> QED
    BY <2>1, <2>2, <2>3, <2>4 DEF VerificationTells
<1>10. CASE Verifying!Look
  <2> DEFINE u == IF seen[n] = Verifying!NoStat THEN worker.last ELSE seen[n].up
  <2>1. /\ worker.at = "look" /\ NodesRest
        /\ \/ worker'.at = "quits"
           \/ RecordIs(worker', Watched, worker.run, "ping", worker.base, u, worker.cut,
                      worker.back, worker.since, worker.accepted, worker.missed)
    BY <1>0, <1>10, LookSays
  <2>2. CASE worker'.at = "quits"
    BY <2>2 DEF VerificationTells
  <2>3. CASE RecordIs(worker', Watched, worker.run, "ping", worker.base, u, worker.cut,
                     worker.back, worker.since, worker.accepted, worker.missed)
    <3>1. /\ worker'.run = worker.run /\ worker'.at = "ping" /\ worker'.base = worker.base
          /\ worker'.last = u /\ worker'.cut = worker.cut /\ worker'.back = worker.back
          /\ worker'.since = worker.since /\ worker'.accepted = worker.accepted
          /\ worker'.missed = worker.missed
      BY <2>3 DEF RecordIs
    <3>2. worker.since \in Int /\ worker.last \in Int
      BY <1>1, ThreadOf
    <3>3. StatsAgree(worker', seen[n], pUp[n], boots[n], alive[n], why[n])
      BY <1>2, <1>3, <2>1, <3>1, <3>2 DEF StatsAgree, Agrees
    <3>4. PingsAgree(worker', boots[n], alive[n])
      BY <1>2, <2>1, <3>1 DEF PingsAgree
    <3> QED
      BY <2>1, <3>1, <3>3, <3>4 DEF VerificationTells
  <2> QED
    BY <2>1, <2>2, <2>3
<1>11. CASE ~(\/ Verifying!Note \/ Verifying!SendReboot \/ Verifying!Ping \/ Verifying!AskForStat
              \/ Verifying!Look) /\ worker' # worker
  <2>1. Leaves(worker, worker')
    BY <1>11, OthersSay
  <2> QED
    BY <1>11, <2>1 DEF VerificationTells, Leaves
<1> QED
  BY <1>5, <1>6, <1>7, <1>8, <1>9, <1>10, <1>11

(* Evidence in a STAT is of a restart since the one noted; an answer after  *)
(* a silence, of one since the command was accepted.                        *)
LEMMA RestartsAreReal ==
  ASSUME VerifyingInv, Verifying!Next
  PROVE  Verifying!RestartIsReal
<1> SUFFICES ASSUME worker.at = "look", worker'.at = "quits", verdict'[worker.run.node] = "confirmed"
             PROVE  IF Verifying!Told(worker, seen[worker.run.node])
                    THEN boots[worker.run.node] > worker.since
                    ELSE worker.missed \/ boots[worker.run.node] > worker.accepted
  BY DEF Verifying!RestartIsReal, Verifying!Confirms, Verifying!NodeStat
<1> DEFINE n == worker.run.node
<1>0. /\ PanelTypes(Watched) /\ StatsTell /\ VerificationTells /\ verdict \in [Watched -> Verdicts]
      /\ worker \in Threads(Watched) /\ n \in Watched
  BY ThreadOf DEF VerifyingInv, PanelTypes
<1>1. /\ StatsAgree(worker, seen[n], pUp[n], boots[n], alive[n], why[n])
      /\ PingsAgree(worker, boots[n], alive[n])
      /\ Agrees(seen[n], pUp[n], boots[n], alive[n], why[n])
      /\ boots[n] \in Nat /\ seen[n].boot \in Int /\ seen[n].up \in Int
      /\ worker.since \in Int /\ worker.last \in Int /\ worker.accepted \in Int
  BY <1>0, ThreadOf DEF VerificationTells, StatsTell, StatRecords
<1>2. Verifying!Look
  <2>1. worker' # worker /\ ~Leaves(worker, worker')
    BY DEF Leaves
  <2>2. ~Verifying!Note /\ ~Verifying!SendReboot /\ ~Verifying!Ping /\ ~Verifying!AskForStat
    BY <1>0, NoteSays, RebootSays, PingSays, AskSays
  <2> QED
    BY <2>1, <2>2, OthersSay
<1>3. Verifying!Told(worker, seen[n]) \/ worker.back
  <2>1. PICK v : Verdict(n, v) /\ (v = "confirmed" => Verifying!Told(worker, seen[n]) \/ worker.back)
    <3>1. ~RecordIs(worker', Watched, worker.run, "ping", worker.base,
                   IF seen[n] = Verifying!NoStat THEN worker.last ELSE seen[n].up, worker.cut,
                   worker.back, worker.since, worker.accepted, worker.missed)
      BY DEF RecordIs
    <3> QED
      BY <1>0, <1>2, <3>1, LookSays
  <2>2. v = "confirmed"
    BY <1>0, <2>1 DEF Verdict
  <2> QED
    BY <2>1, <2>2
<1>4. CASE Verifying!Told(worker, seen[n])
  <2> SUFFICES boots[n] > worker.since
    BY <1>4
  <2>1. CASE Verifying!Dropped(worker, seen[n])
    BY <1>1, <2>1 DEF Verifying!Dropped, StatsAgree, Agrees
  <2>2. CASE Verifying!Changed(worker, seen[n])
    <3>1. /\ seen[n] # Verifying!NoStat /\ worker.base # Verifying!NoStat
          /\ seen[n].why # worker.base.why \/ seen[n].boot # worker.base.boot
      BY <2>2 DEF Verifying!Changed
    <3>2. seen[n].boot # worker.since
      BY <1>1, <3>1 DEF StatsAgree
    <3> QED
      BY <1>1, <3>1, <3>2 DEF StatsAgree, Agrees
  <2> QED
    BY <1>4, <2>1, <2>2 DEF Verifying!Told
<1>5. CASE ~Verifying!Told(worker, seen[n])
  BY <1>1, <1>3, <1>5 DEF PingsAgree
<1> QED
  BY <1>4, <1>5

(* The selection stays where it is while it can (_rebuild_node_selector).   *)
LEMMA SelectionStays ==
  ASSUME NEW N \in SUBSET Nat, 0 \notin N, Base \subseteq N, avail' \in SUBSET N \/ query' \in SUBSET N,
         \/ sel' = Selector!Keep(Selector!Target, avail', query')
         \/ sel' = Verifying!Keep(Verifying!Target, avail', query')
         \/ sel' = Stopped!Keep(Stopped!Target, avail', query')
  PROVE  Selector!SelectedIsKept
<1> SUFFICES ASSUME sel \in (Base \cup avail') \cap query' PROVE sel' = sel
  BY DEF Selector!SelectedIsKept
<1>1. sel # 0
  OBVIOUS
<1> QED
  BY <1>1 DEF Selector!Keep, Verifying!Keep, Stopped!Keep, Selector!Target, Verifying!Target,
     Stopped!Target, Selector!Options, Verifying!Options, Stopped!Options

(* Besides a refresh and a search nothing fills the selector again.        *)
LEMMA SelectorFills ==
  ASSUME Selector!Next
  PROVE  \/ UNCHANGED <<avail, query>>
         \/ /\ avail' \in SUBSET Nodes \/ query' \in SUBSET Nodes
            /\ sel' = Selector!Keep(Selector!Target, avail', query')
<1>1. CASE Selector!Refresh \/ Selector!Search
  BY <1>1 DEF Selector!Refresh, Selector!Search
<1>2. CASE Selector!Select \/ Selector!Session
  BY <1>2 DEF Selector!Select, Selector!Session, Selector!selection
<1>3. ASSUME NEW c, Selector!Click(c)
      PROVE  UNCHANGED <<avail, query>>
  BY <1>3 DEF Selector!Click, Selector!selection
<1>4. CASE Selector!Fails \/ Selector!SendPing
  BY <1>4 DEF Selector!Fails, Selector!SendPing, Selector!selection
<1>5. CASE Selector!Note \/ Selector!SendReboot
  BY <1>5, Zenon DEF Selector!Note, Selector!SendReboot, Selector!selection
<1>6. CASE Selector!Ping \/ Selector!AskForStat \/ Selector!Look
  BY <1>6, Zenon DEF Selector!Ping, Selector!AskForStat, Selector!Look, Selector!selection
<1>7. CASE Selector!Finish \/ Selector!ThreadEnds \/ Selector!ThreadFinished
  BY <1>7 DEF Selector!Finish, Selector!ThreadEnds, Selector!ThreadFinished, Selector!selection
<1>8. ASSUME NEW n, \/ Selector!Forget(n) \/ Selector!Tick(n) \/ Selector!Stat(n)
                    \/ Selector!Down(n) \/ Selector!Up(n) \/ Selector!Other(n)
      PROVE  UNCHANGED <<avail, query>>
  BY <1>8 DEF Selector!Forget, Selector!Tick, Selector!Stat, Selector!Down, Selector!Up, Selector!Other, Selector!selection
<1> QED
  BY <1>1, <1>2, <1>3, <1>4, <1>5, <1>6, <1>7, <1>8 DEF Selector!Next, Selector!Thread

LEMMA StoppedFills ==
  ASSUME Stopped!Next
  PROVE  \/ UNCHANGED <<avail, query>>
         \/ /\ avail' \in SUBSET Watched \/ query' \in SUBSET Watched
            /\ sel' = Stopped!Keep(Stopped!Target, avail', query')
<1>1. CASE Stopped!Refresh \/ Stopped!Search
  BY <1>1 DEF Stopped!Refresh, Stopped!Search
<1>2. CASE Stopped!Select \/ Stopped!Session
  BY <1>2 DEF Stopped!Select, Stopped!Session, Stopped!selection
<1>3. ASSUME NEW c, Stopped!Click(c)
      PROVE  UNCHANGED <<avail, query>>
  BY <1>3 DEF Stopped!Click, Stopped!selection
<1>4. CASE Stopped!Fails \/ Stopped!SendPing
  BY <1>4 DEF Stopped!Fails, Stopped!SendPing, Stopped!selection
<1>5. CASE Stopped!Note \/ Stopped!SendReboot
  BY <1>5, Zenon DEF Stopped!Note, Stopped!SendReboot, Stopped!selection
<1>6. CASE Stopped!Ping \/ Stopped!AskForStat \/ Stopped!Look
  BY <1>6, Zenon DEF Stopped!Ping, Stopped!AskForStat, Stopped!Look, Stopped!selection
<1>7. CASE Stopped!Finish \/ Stopped!ThreadEnds \/ Stopped!ThreadFinished
  BY <1>7 DEF Stopped!Finish, Stopped!ThreadEnds, Stopped!ThreadFinished, Stopped!selection
<1>8. ASSUME NEW n, \/ Stopped!Forget(n) \/ Stopped!Tick(n) \/ Stopped!Stat(n)
                    \/ Stopped!Down(n) \/ Stopped!Up(n) \/ Stopped!Other(n)
      PROVE  UNCHANGED <<avail, query>>
  BY <1>8 DEF Stopped!Forget, Stopped!Tick, Stopped!Stat, Stopped!Down, Stopped!Up, Stopped!Other, Stopped!selection
<1> QED
  BY <1>1, <1>2, <1>3, <1>4, <1>5, <1>6, <1>7, <1>8 DEF Stopped!Next, Stopped!Thread

LEMMA VerifyingFills ==
  ASSUME Verifying!Next
  PROVE  \/ UNCHANGED <<avail, query>>
         \/ /\ avail' \in SUBSET Watched \/ query' \in SUBSET Watched
            /\ sel' = Verifying!Keep(Verifying!Target, avail', query')
<1>1. CASE Verifying!Refresh \/ Verifying!Search
  BY <1>1 DEF Verifying!Refresh, Verifying!Search
<1>2. CASE Verifying!Select \/ Verifying!Session
  BY <1>2 DEF Verifying!Select, Verifying!Session, Verifying!selection
<1>3. ASSUME NEW c, Verifying!Click(c)
      PROVE  UNCHANGED <<avail, query>>
  BY <1>3 DEF Verifying!Click, Verifying!selection
<1>4. CASE Verifying!Fails \/ Verifying!SendPing
  BY <1>4 DEF Verifying!Fails, Verifying!SendPing, Verifying!selection
<1>5. CASE Verifying!Note \/ Verifying!SendReboot
  BY <1>5, Zenon DEF Verifying!Note, Verifying!SendReboot, Verifying!selection
<1>6. CASE Verifying!Ping \/ Verifying!AskForStat \/ Verifying!Look
  BY <1>6, Zenon DEF Verifying!Ping, Verifying!AskForStat, Verifying!Look, Verifying!selection
<1>7. CASE Verifying!Finish \/ Verifying!ThreadEnds \/ Verifying!ThreadFinished
  BY <1>7 DEF Verifying!Finish, Verifying!ThreadEnds, Verifying!ThreadFinished, Verifying!selection
<1>8. ASSUME NEW n, \/ Verifying!Forget(n) \/ Verifying!Tick(n) \/ Verifying!Stat(n)
                    \/ Verifying!Down(n) \/ Verifying!Up(n) \/ Verifying!Other(n)
      PROVE  UNCHANGED <<avail, query>>
  BY <1>8 DEF Verifying!Forget, Verifying!Tick, Verifying!Stat, Verifying!Down, Verifying!Up, Verifying!Other, Verifying!selection
<1> QED
  BY <1>1, <1>2, <1>3, <1>4, <1>5, <1>6, <1>7, <1>8 DEF Verifying!Next, Verifying!Thread

LEMMA VerifyingStep ==
  ASSUME VerifyingInv, Verifying!Next
  PROVE  VerifyingInv'
BY TypesKeep, VerificationKeeps DEF VerifyingInv

(* For any nodes, pings, losses, restarts and sessions that stop and start: *)
(* when the verification reports a restart on evidence in a STAT, the node  *)
(* has restarted since the last STAT the panel had of it when it was about  *)
(* to send the command; when it does for an answer after a silence, and no  *)
(* ping of it was lost or raised, since the command was accepted; and       *)
(* neither a search nor a refresh of the selector moves the selection under *)
(* the cursor (_probe_reboot_effect, _rebuild_node_selector).               *)
THEOREM ConfirmedRestartsAreReal == MCSpec => PanelIsTrue
<1> DEFINE I == part = "verifying" => VerifyingInv
<1>1. MCInit => I
  BY VerifyingStarts DEF MCInit
<1>2. I /\ [MCNext]_mcVars => I'
  <2>1. ASSUME I, part' = part, UNCHANGED panel PROVE I'
    BY <2>1 DEF panel, VerifyingInv, PanelTypes, StatsTell, VerificationTells
  <2> QED
    BY <2>1, VerifyingStep DEF MCNext, mcVars, Places, Panel, Campaign
<1> DEFINE A == /\ Selector!SelectedIsKept
                /\ part = "verifying" => Verifying!RestartIsReal
<1>3. I /\ [MCNext]_mcVars => [A]_mcVars
  <2> SUFFICES ASSUME I, MCNext PROVE A
    OBVIOUS
  <2>1. CASE UNCHANGED panel
    BY <2>1 DEF panel, Selector!SelectedIsKept, Verifying!RestartIsReal, Verifying!Confirms
  <2>2. CASE part = "selector" /\ Selector!Next
    BY <2>2, SelectorFills, SelectionStays, SelectorConstants DEF Selector!SelectedIsKept
  <2>3. CASE part = "stopped" /\ Stopped!Next
    BY <2>3, StoppedFills, SelectionStays, WatchedConstants DEF Selector!SelectedIsKept
  <2>4. CASE part = "verifying" /\ Verifying!Next
    <3>1. Selector!SelectedIsKept
      BY <2>4, VerifyingFills, SelectionStays, WatchedConstants DEF Selector!SelectedIsKept
    <3> QED
      BY <2>4, <3>1, RestartsAreReal
  <2> QED
    BY <2>1, <2>2, <2>3, <2>4 DEF MCNext, Places, Panel, Campaign
<1> HIDE DEF I, A
<1>4. MCSpec => []I
  BY <1>1, <1>2, PTL DEF MCSpec
<1>5. MCSpec => [][A]_mcVars
  BY <1>3, <1>4, PTL DEF MCSpec
<1> QED
  BY <1>5 DEF PanelIsTrue, A
=============================================================================
