---------------------------- MODULE ControlPlane ----------------------------
(***************************************************************************)
(* The control plane end to end: the application's transactions            *)
(* (CommandTransaction) and a node's command gate (ControlNode) over a     *)
(* network that loses, duplicates and reorders.  Everything the node gets  *)
(* comes from the application, and every answer of the node goes to the    *)
(* application's ACK port.  The histories are kept across restarts.        *)
(***************************************************************************)
EXTENDS Naturals, FiniteSets, Sequences

CONSTANTS
  Clients, Targets, MaxRetries, SeqSpace, CounterCap, MaxRuntimes, MaxCommands,
  AllowedArgs, SourceCap, CacheCap, CacheTtl, Window, RateCap, RebootDelay,
  LastArrival, Horizon,
  MaxBoots   \* bound: restarts of the node in a behaviour

VARIABLES
  runtime, built, port, seqOf, counterOf, pending, begun, pc, use, sent,
  attempt, saw, outcome, wire, acks, answered, stolen,
  now, source, cache, rebootAt, setting, ota, otaReboot, link, reply, ran, judged,
  spent, born,
  boots,     \* restarts of the node so far
  numbered,  \* history: keys of the commands allocated
  ranEver    \* history: keys of the commands the node dispatched, in any boot

AppAddress == "app"

Node == INSTANCE ControlNode WITH
  Sources <- {AppAddress},
  Frames <- [src : {AppAddress}, seq : Nat, nonce : Nat,
             cmd : {t.cmd : t \in Targets}, arg : {1}, auth : {TRUE},
             bcast : {FALSE}]
App == INSTANCE CommandTransaction WITH Verdicts <- Node!Statuses

appVars == <<runtime, built, port, seqOf, counterOf, pending, begun, pc, use,
             sent, attempt, saw, outcome, wire, acks, answered, stolen>>
nodeVars == <<now, source, cache, rebootAt, setting, ota, otaReboot, link, reply,
              ran, judged, spent, born>>
vars == <<appVars, nodeVars, boots, numbered, ranEver>>

PlaneAssumption ==
  /\ App!TransactionAssumption
  /\ {t.cmd : t \in Targets} \subseteq Node!Commands
  /\ SourceCap \in Nat \ {0} /\ CacheCap \in Nat \ {0}
  /\ CacheTtl \in Nat /\ Window \in Nat \ {0} /\ RateCap \in Nat \ {0}
  /\ RebootDelay \in Nat /\ LastArrival \in Nat /\ Horizon \in Nat
  /\ MaxBoots \in Nat
ASSUME PlaneConstants == PlaneAssumption

\* The frame as the node parses it: the tag is right, the target is the node.
Received(f) ==
  [src |-> AppAddress, seq |-> f.seq, nonce |-> f.nonce, cmd |-> f.cmd,
   arg |-> 1, auth |-> TRUE, bcast |-> FALSE]
KeysRun(run) == [i \in DOMAIN run |-> <<run[i].seq, run[i].cmd, run[i].nonce>>]

Init ==
  /\ App!Init /\ Node!Init
  /\ boots = 0 /\ numbered = {} /\ ranEver = {}

\* Every step of the application.
ClientSteps(c) ==
  /\ App!Begin(c) \/ App!ClientStep(c)
  /\ numbered' = IF pc[c] = "allocate" /\ pc'[c] = "bump"
                   THEN numbered \cup {App!Key(sent'[c])} ELSE numbered
  /\ UNCHANGED <<nodeVars, boots, ranEver>>

Disturbance ==
  /\ App!StartSession \/ App!StopSession \/ App!LoseCommand \/ App!LoseAck
  /\ UNCHANGED <<nodeVars, boots, numbered, ranEver>>

\* A command reaches the node, which answers it to the ACK port.
NodeReceives ==
  /\ \E f \in wire : /\ Node!Receive(Received(f))
                     /\ App!Answer(f, reply'.status)
  /\ ranEver' = ranEver \cup {KeysRun(ran')[i] : i \in DOMAIN ran'}
  /\ UNCHANGED <<boots, numbered>>

\* The node's network stays: what is sent while it is away is lost, as any
\* command or answer may be, and a standing loop takes no step.
NodeLoop ==
  /\ \/ Node!ScheduleOtaReboot \/ Node!OtaCheckBegins \/ Node!OtaCheckEnds
     \/ Node!OtaVerified \/ Node!Tick
  /\ UNCHANGED <<appVars, boots, numbered, ranEver>>

NodeRestarts ==
  /\ boots < MaxBoots
  /\ Node!Restart \/ Node!PowerLoss
  /\ boots' = boots + 1
  /\ UNCHANGED <<appVars, numbered, ranEver>>

Next ==
  \/ \E c \in Clients : ClientSteps(c)
  \/ Disturbance
  \/ NodeReceives
  \/ NodeLoop
  \/ NodeRestarts

Spec == Init /\ [][Next]_vars

----------------------------------------------------------------------------
(* What the control plane promises (RemoteCommand). *)

\* What a client is still asking for, as the client of RemoteCommand sees it:
\* its command has an identity once the frame has its nonce.
Asked(c) ==
  IF pc[c] = "idle" THEN <<"none">>
  ELSE IF pc[c] \in {"listen", "bind", "allocate"} THEN <<"new">>
  ELSE App!Key(sent[c])
PromisedFailures ==
  (Node!Statuses \ {"OK"})
    \cup {"TIMEOUT", "INVALID_ACK_SEEN", "UNMATCHED_ACK_SEEN", "LISTENER_NOT_RUNNING",
          "SEND_ERROR"}

Remote == INSTANCE RemoteCommand WITH
  Commands <- (0..(SeqSpace - 1)) \X {t.cmd : t \in Targets}
                \X (0..((MaxRuntimes + 1) * CounterCap)),
  Failures <- PromisedFailures,
  asked <- [c \in Clients |-> Asked(c)],
  result <- [c \in Clients |-> outcome[c].status],
  ranNow <- KeysRun(ran)

\* The application and the node together keep the promise: a command is run
\* at most once per boot of the node, only after it was asked for, and OK is
\* reported only of a command that was run, whatever is lost, repeated, late
\* or restarted (_execute_transaction, buildAckForFrameWithSecurity).
KeepsPromise == Remote!Spec

\* A fresh command of the only client is never refused as a replay, neither
\* it nor its retries, whatever became of earlier commands and sessions: the
\* nonces grow over sessions and the node still has its answer to the first
\* attempt (next_nonce, findExactAckCacheEntry).
FreshCommandIsNoReplay ==
  \A c \in Clients :
    outcome[c].status \notin {"NONCE_REUSED", "NONCE_OUT_OF_WINDOW"}
=============================================================================
