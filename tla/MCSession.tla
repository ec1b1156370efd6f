----------------------------- MODULE MCSession -----------------------------
(* Sessions of the controller, stopped between commands (with two workers)  *)
(* or in the middle of one (with a worker, and a third session); and within *)
(* a session, the results of commands to two nodes on their way from the    *)
(* runtime to the controller's cache and the panel.  A behaviour exercises  *)
(* one of the three, chosen at the start.                                   *)
EXTENDS SessionLifecycle

CONSTANTS
  Lone,           \* the only worker of the part with overlaps
  TwoSessions,    \* start requests of the part without
  Nodes, SeqMod, Start, MaxCommands   \* of RuntimeStatus

VARIABLES
  part,
  issued, thread, kept, cache, done, poll   \* of RuntimeStatus

outcomes == <<issued, thread, kept, cache, done, poll>>
mcvars == <<part, vars, outcomes>>

Results == INSTANCE RuntimeStatus WITH
  Threads <- Workers, OnePerNode <- TRUE, rows <- kept

ASSUME MCSessionAssumption == Lone \in Workers /\ Results!StatusAssumption

MCInit ==
  /\ Init /\ Results!Init
  /\ part \in {"quiet", "overlap", "results"}
  /\ part = "results" => spec = "udp"

(* What a step of the session may do in the part that is exercised. *)
Allowed ==
  \/ part = "quiet" /\ attempt' <= TwoSessions /\ ~overlapped'
  \/ part = "overlap" /\ \A w \in Workers \ {Lone} : worker'[w] = worker[w]
SessionOnly == Allowed /\ UNCHANGED <<part, outcomes>>
ResultsOnly == part = "results" /\ UNCHANGED <<part, vars>>

MCNext ==
  \/ Next /\ SessionOnly
  \/ ResultsOnly /\ Results!Next

(* The fairness of the two modules, terms of different parts joined. *)
MCFairness ==
  /\ WF_mcvars((Main /\ SessionOnly) \/ (ResultsOnly /\ Results!WritePoll))
  /\ \A w \in Workers :
       WF_mcvars((Work(w) /\ SessionOnly) \/ (ResultsOnly /\ Results!Step(w)))
  /\ \A n \in Nodes : SF_mcvars(ResultsOnly /\ Results!ReadForPoll(n))

MCSpec == MCInit /\ [][MCNext]_mcvars /\ MCFairness

-----------------------------------------------------------------------------
(* The runtime keeps the newest result of each node, in whatever order the  *)
(* results of several nodes' commands arrive.                               *)
RuntimeKeepsNewest == part = "results" => Results!RuntimeKeepsNewest

(* A runtime the controller has dropped gives the port of the answers back, *)
(* whatever its workers were doing; and the panel ends up with the newest   *)
(* result of each node: no stale poll stays.                                *)
WorkSettles == DroppedListenerCloses /\ Results!PanelCatchesUp
=============================================================================
