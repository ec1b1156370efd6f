------------------------- MODULE CommandTransaction -------------------------
(***************************************************************************)
(* Command transactions of the desktop application: a client (the panel's  *)
(* worker, an HTTP thread of the remote service, the OTA orchestrator on   *)
(* the main thread) sends a command to a node and polls the ACK port until *)
(* its ACK comes, resending the same command after every timeout.          *)
(*                                                                         *)
(* All clients share the runtime of the session: its sequence and nonce    *)
(* counters, its table of pending commands and its ACK listener, none of   *)
(* them locked.  A client that reads the port takes whatever datagram is   *)
(* there.  Stopping the session closes the listener under its clients and  *)
(* drops the runtime; a client that still holds the old runtime goes on    *)
(* with it.  The network loses, duplicates and reorders; a node answers a  *)
(* command each time it arrives with any verdict at all (ControlPlane puts *)
(* the firmware's command gate in its place).                              *)
(***************************************************************************)
EXTENDS Naturals, FiniteSets

CONSTANTS
  Clients,      \* threads that send commands
  Targets,      \* what is sent where: records [node, cmd]
  Verdicts,     \* statuses a node's ACK may carry
  MaxRetries,   \* max_retries of a transaction
  SeqSpace,     \* 2^16: cmd_seq wraps here
  CounterCap,   \* 2^32: nonces of different control epochs do not overlap
  MaxRuntimes,  \* bound: runtimes built in a behaviour
  MaxCommands   \* bound: transactions begun in a behaviour

\* What a transaction reports without a node's verdict.
LocalOutcomes == {"none", "TIMEOUT", "INVALID_ACK_SEEN", "UNMATCHED_ACK_SEEN",
                  "LISTENER_NOT_RUNNING", "SEND_ERROR"}

TransactionAssumption ==
  /\ MaxRetries \in Nat /\ SeqSpace \in Nat \ {0} /\ CounterCap \in Nat \ {0}
  /\ MaxRuntimes \in Nat /\ MaxCommands \in Nat
  /\ Verdicts \cap LocalOutcomes = {}
ASSUME ConstantsAssumption == TransactionAssumption

VARIABLES
  runtime,   \* the controller's runtime, 0 when None
  built,     \* runtimes built so far
  port,      \* the runtime whose listener is bound to ACK_PORT, 0 when none
  seqOf,     \* CmdSequenceManager._next_seq of every runtime
  counterOf, \* NonceManager._cmd_counter of every runtime
  pending,   \* PendingCommandStore of every runtime: records [key, owner]
  begun,     \* transactions begun so far
  pc,        \* where each client is in its transaction
  use,       \* the runtime each client works on
  sent,      \* active_sent of each client, from its allocation on
  attempt,   \* attempt_index
  saw,       \* what else the client read: invalid_ack_seen, unmatched_ack_seen
  outcome,   \* the result of each client's last transaction
  wire,      \* command datagrams in the network
  acks,      \* ACK datagrams in the network or in the port's buffer
  answered,  \* history: the verdicts nodes gave, records [frame, status]
  stolen     \* history: keys whose ACK a client took from a waiting owner

vars == <<runtime, built, port, seqOf, counterOf, pending, begun, pc, use, sent,
          attempt, saw, outcome, wire, acks, answered, stolen>>

Runtimes == 1..MaxRuntimes
shared == <<runtime, built, port, seqOf, counterOf, pending, begun>>
network == <<wire, acks, answered>>

NoCommand == [node |-> 0]
NoOutcome == [status |-> "none", frame |-> NoCommand]

compose_nonce(r, n) == r * CounterCap + n
\* Slip: a wrapped cmd_seq identifies the command.
KeyWithoutNonce(f) == <<f.seq, f.cmd>>
Key(f) == <<f.seq, f.cmd, f.nonce>>
Frames == [node : {t.node : t \in Targets}, cmd : {t.cmd : t \in Targets},
           seq : Nat, nonce : Nat]

Goto(c, step) == pc' = [pc EXCEPT ![c] = step]

Init ==
  /\ runtime = 0 /\ built = 0 /\ port = 0 /\ begun = 0
  /\ seqOf = [r \in Runtimes |-> 0]
  /\ counterOf = [r \in Runtimes |-> 0]
  /\ pending = [r \in Runtimes |-> {}]
  /\ pc = [c \in Clients |-> "idle"]
  /\ use = [c \in Clients |-> 0]
  /\ sent = [c \in Clients |-> NoCommand]
  /\ attempt = [c \in Clients |-> 0]
  /\ saw = [c \in Clients |-> {}]
  /\ outcome = [c \in Clients |-> NoOutcome]
  /\ wire = {} /\ acks = {} /\ answered = {} /\ stolen = {}

----------------------------------------------------------------------------
(* The end of a transaction: its result, and the listener of a dropped      *)
(* runtime closes with the last client that holds the runtime.              *)

HeldByOthers(c) == \E d \in Clients \ {c} : pc[d] # "idle" /\ use[d] = use[c]

Finish(c, status) ==
  /\ outcome' = [outcome EXCEPT ![c] = [status |-> status, frame |-> sent[c]]]
  /\ Goto(c, "idle")
  /\ sent' = [sent EXCEPT ![c] = NoCommand]
  /\ attempt' = [attempt EXCEPT ![c] = 0]
  /\ saw' = [saw EXCEPT ![c] = {}]
  /\ port' = IF port = use[c] /\ runtime # use[c] /\ ~HeldByOthers(c)
               THEN 0 ELSE port

\* pending_store.discard_sent_command
Discard(c) ==
  pending' = [pending EXCEPT ![use[c]] = {e \in @ : e.key # Key(sent[c])}]

----------------------------------------------------------------------------
(* Before the first send. *)

\* The runtime is there or is built; NonceManager has the steps of building.
Begin(c) ==
  /\ pc[c] = "idle" /\ begun < MaxCommands
  /\ begun' = begun + 1
  /\ \/ runtime # 0 /\ UNCHANGED <<runtime, built>>
     \/ /\ runtime = 0 /\ built < MaxRuntimes
        /\ built' = built + 1 /\ runtime' = built + 1
  /\ use' = [use EXCEPT ![c] = runtime']
  /\ \E t \in Targets :
       sent' = [sent EXCEPT ![c] = [node |-> t.node, cmd |-> t.cmd,
                                    seq |-> 0, nonce |-> 0]]
  /\ Goto(c, "listen")
  /\ outcome' = [outcome EXCEPT ![c] = NoOutcome]
  /\ UNCHANGED <<port, seqOf, counterOf, pending, attempt, saw, network, stolen>>

\* _ensure_listener_running finds the listener open, or goes to open it.
CheckListener(c) ==
  /\ pc[c] = "listen"
  /\ Goto(c, IF port = use[c] THEN "allocate" ELSE "bind")
  /\ UNCHANGED <<shared, use, sent, attempt, saw, outcome, network, stolen>>

OpenListener(c) ==
  /\ pc[c] = "bind" /\ port \in {0, use[c]}
  /\ port' = use[c]
  /\ Goto(c, "allocate")
  /\ UNCHANGED <<runtime, built, seqOf, counterOf, pending, begun, use, sent,
                 attempt, saw, outcome, network, stolen>>

\* The port is taken: by another runtime, or by another client of this one
\* between start's look at the socket and its bind.
OpenFails(c) ==
  /\ pc[c] = "bind" /\ port # 0
  /\ Finish(c, "LISTENER_NOT_RUNNING")
  /\ UNCHANGED <<runtime, built, seqOf, counterOf, pending, begun, use, network,
                 stolen>>

\* A new cmd_seq and a nonce; the nonce counter moves in a step of its own.
\* (That no other thread uses up the whole sequence space between the two draws
\* is taken for granted: they are one step.)
Allocate(c) ==
  /\ pc[c] = "allocate" /\ counterOf[use[c]] < CounterCap
  /\ LET r == use[c] IN
     /\ sent' = [sent EXCEPT ![c].seq = seqOf[r],
                             ![c].nonce = compose_nonce(r, counterOf[r])]
     /\ seqOf' = [seqOf EXCEPT ![r] = (@ + 1) % SeqSpace]
  /\ Goto(c, "bump")
  /\ UNCHANGED <<runtime, built, port, counterOf, pending, begun, use, attempt,
                 saw, outcome, network, stolen>>

\* The counter of this control epoch is used up; the cmd_seq is gone as well.
CounterExhausted(c) ==
  /\ pc[c] = "allocate" /\ counterOf[use[c]] >= CounterCap
  /\ seqOf' = [seqOf EXCEPT ![use[c]] = (@ + 1) % SeqSpace]
  /\ Finish(c, "SEND_ERROR")
  /\ UNCHANGED <<runtime, built, counterOf, pending, begun, use, network, stolen>>

BumpCounter(c) ==
  /\ pc[c] = "bump"
  /\ counterOf' = [counterOf EXCEPT ![use[c]] = @ + 1]
  /\ Goto(c, "send")
  /\ UNCHANGED <<runtime, built, port, seqOf, pending, begun, use, sent, attempt,
                 saw, outcome, network, stolen>>

----------------------------------------------------------------------------
(* One attempt: send, register, wait. *)

\* The first send and every resend put the same bytes on the wire.
Send(c) ==
  /\ pc[c] = "send"
  /\ wire' = wire \cup {sent[c]}
  /\ attempt' = [attempt EXCEPT ![c] = @ + 1]
  /\ Goto(c, "register")
  /\ UNCHANGED <<shared, use, sent, saw, outcome, acks, answered, stolen>>

SendFails(c) ==
  /\ pc[c] = "send"
  /\ Finish(c, "SEND_ERROR")
  /\ UNCHANGED <<runtime, built, seqOf, counterOf, pending, begun, use, network,
                 stolen>>

\* Slip: a resend is not registered.
RegisterFirstSend(c) ==
  /\ pc[c] = "register"
  /\ pending' = IF attempt[c] > 1 THEN pending ELSE
       [pending EXCEPT ![use[c]] = {e \in @ : e.key # Key(sent[c])}
                                      \cup {[key |-> Key(sent[c]), owner |-> c]}]
  /\ Goto(c, "wait")
  /\ UNCHANGED <<runtime, built, port, seqOf, counterOf, begun, use, sent,
                 attempt, saw, outcome, network, stolen>>

\* The command is pending only after it was sent.
Register(c) ==
  /\ pc[c] = "register"
  /\ pending' = [pending EXCEPT ![use[c]] =
                   {e \in @ : e.key # Key(sent[c])}
                     \cup {[key |-> Key(sent[c]), owner |-> c]}]
  /\ Goto(c, "wait")
  /\ UNCHANGED <<runtime, built, port, seqOf, counterOf, begun, use, sent,
                 attempt, saw, outcome, network, stolen>>

\* A client of another command loses its ACK to whoever reads it.
Owners(a) == {d \in Clients : /\ pc[d] \in {"register", "wait", "send"}
                              /\ attempt[d] > 0 /\ Key(sent[d]) = Key(a)}

\* poll_once finds the client's own ACK.
ReceiveOwnAck(c) ==
  /\ pc[c] = "wait" /\ port = use[c]
  /\ \E a \in acks :
       /\ Key(a) = Key(sent[c])
       /\ \E e \in pending[use[c]] : e.key = Key(a)
       /\ acks' = acks \ {a}
       /\ Finish(c, a.status)
  /\ Discard(c)
  /\ UNCHANGED <<runtime, built, seqOf, counterOf, begun, use, wire, answered,
                 stolen>>

\* poll_once finds another pending command's ACK, or one nobody waits for.
ReceiveOtherAck(c) ==
  /\ pc[c] = "wait" /\ port = use[c]
  /\ \E a \in acks :
       /\ ~(/\ Key(a) = Key(sent[c])
            /\ \E e \in pending[use[c]] : e.key = Key(a))
       /\ acks' = acks \ {a}
       /\ pending' = [pending EXCEPT ![use[c]] = {e \in @ : e.key # Key(a)}]
       /\ stolen' = IF Owners(a) = {} THEN stolen ELSE stolen \cup {Key(a)}
  /\ saw' = [saw EXCEPT ![c] = @ \cup {"unmatched"}]
  /\ UNCHANGED <<runtime, built, port, seqOf, counterOf, begun, pc, use, sent,
                 attempt, outcome, wire, answered>>

\* poll_once finds a datagram that is no ACK.
ReceiveInvalid(c) ==
  /\ pc[c] = "wait" /\ port = use[c] /\ "invalid" \notin saw[c]
  /\ saw' = [saw EXCEPT ![c] = @ \cup {"invalid"}]
  /\ UNCHANGED <<shared, pc, use, sent, attempt, outcome, network, stolen>>

\* poll_once raises: the listener was closed, or reading the socket failed.
ListenerLost(c) ==
  /\ pc[c] = "wait"
  /\ Discard(c)
  /\ Finish(c, "LISTENER_NOT_RUNNING")
  /\ UNCHANGED <<runtime, built, seqOf, counterOf, begun, use, network, stolen>>

FinalStatus(c) == IF "invalid" \in saw[c] THEN "INVALID_ACK_SEEN"
                  ELSE IF "unmatched" \in saw[c] THEN "UNMATCHED_ACK_SEEN"
                  ELSE "TIMEOUT"

\* Slip: the attempts are not counted.
RetryUncounted(c) ==
  /\ pc[c] = "wait" /\ attempt[c] <= MaxRetries
  /\ Discard(c)
  /\ Goto(c, "send")
  /\ attempt' = [attempt EXCEPT ![c] = 0]
  /\ UNCHANGED <<runtime, built, port, seqOf, counterOf, begun, use, sent, saw,
                 outcome, network, stolen>>

\* The attempt's time is up: the next attempt, or the end.
Retry(c) ==
  /\ pc[c] = "wait" /\ attempt[c] <= MaxRetries
  /\ Discard(c)
  /\ Goto(c, "send")
  /\ UNCHANGED <<runtime, built, port, seqOf, counterOf, begun, use, sent,
                 attempt, saw, outcome, network, stolen>>

\* Slip: the command stays pending.
GiveUpKeepingEntry(c) ==
  /\ pc[c] = "wait" /\ attempt[c] > MaxRetries
  /\ Finish(c, FinalStatus(c))
  /\ UNCHANGED <<runtime, built, seqOf, counterOf, pending, begun, use, network,
                 stolen>>

GiveUp(c) ==
  /\ pc[c] = "wait" /\ attempt[c] > MaxRetries
  /\ Discard(c)
  /\ Finish(c, FinalStatus(c))
  /\ UNCHANGED <<runtime, built, seqOf, counterOf, begun, use, network, stolen>>

----------------------------------------------------------------------------
(* The session and the world outside. *)

\* start_session builds the runtime as soon as the session runs, and a command
\* for a node whose address is unknown leaves nothing but a runtime behind.
StartSession ==
  /\ runtime = 0 /\ built < MaxRuntimes
  /\ built' = built + 1 /\ runtime' = built + 1
  /\ UNCHANGED <<port, seqOf, counterOf, pending, begun, pc, use, sent, attempt,
                 saw, outcome, network, stolen>>

\* stop_session and reload_config close the listener whoever is waiting.
StopSession ==
  /\ runtime # 0
  /\ runtime' = 0
  /\ port' = IF port = runtime THEN 0 ELSE port
  /\ UNCHANGED <<built, seqOf, counterOf, pending, begun, pc, use, sent, attempt,
                 saw, outcome, network, stolen>>

\* A node answers a command that reached it; the command may have a duplicate
\* that is still under way.
Answer(f, v) ==
  /\ answered' = answered \cup {[frame |-> f, status |-> v]}
  /\ acks' = acks \cup {[node |-> f.node, cmd |-> f.cmd, seq |-> f.seq,
                         nonce |-> f.nonce, status |-> v]}
  /\ wire' \in {wire, wire \ {f}}
  /\ UNCHANGED <<shared, pc, use, sent, attempt, saw, outcome, stolen>>

NodeAnswers == \E f \in wire, v \in Verdicts : Answer(f, v)

LoseCommand ==
  \E f \in wire :
    /\ wire' = wire \ {f}
    /\ UNCHANGED <<shared, pc, use, sent, attempt, saw, outcome, acks, answered,
                   stolen>>

LoseAck ==
  \E a \in acks :
    /\ acks' = acks \ {a}
    /\ UNCHANGED <<shared, pc, use, sent, attempt, saw, outcome, wire, answered,
                   stolen>>

ClientStep(c) ==
  \/ CheckListener(c) \/ OpenListener(c) \/ OpenFails(c)
  \/ Allocate(c) \/ CounterExhausted(c) \/ BumpCounter(c)
  \/ Send(c) \/ SendFails(c) \/ Register(c)
  \/ ReceiveOwnAck(c) \/ ReceiveOtherAck(c) \/ ReceiveInvalid(c)
  \/ ListenerLost(c) \/ Retry(c) \/ GiveUp(c)

Next ==
  \/ \E c \in Clients : Begin(c) \/ ClientStep(c)
  \/ StartSession \/ StopSession
  \/ NodeAnswers \/ LoseCommand \/ LoseAck

\* A thread that is in a transaction is scheduled, and the clock reaches the
\* deadline of its wait however many datagrams it reads before.
Fairness == \A c \in Clients :
  WF_vars(ClientStep(c)) /\ WF_vars(Retry(c) \/ GiveUp(c))

Spec == Init /\ [][Next]_vars /\ Fairness

----------------------------------------------------------------------------
(* Properties. *)

TypeOK ==
  /\ runtime \in 0..built /\ port \in 0..built
  /\ built \in 0..MaxRuntimes /\ begun \in 0..MaxCommands
  /\ seqOf \in [Runtimes -> 0..(SeqSpace - 1)]
  /\ counterOf \in [Runtimes -> Nat]
  /\ pc \in [Clients -> {"idle", "listen", "bind", "allocate", "bump", "send",
                         "register", "wait"}]
  /\ use \in [Clients -> 0..built]
  /\ sent \in [Clients -> Frames \cup {NoCommand}]
  /\ attempt \in [Clients -> 0..(MaxRetries + 1)]
  /\ saw \in [Clients -> SUBSET {"invalid", "unmatched"}]
  /\ outcome \in [Clients -> [status : Verdicts \cup LocalOutcomes,
                              frame : Frames \cup {NoCommand}]]
  /\ pending \in [Runtimes -> SUBSET [key : Nat \X {t.cmd : t \in Targets} \X Nat,
                                    owner : Clients]]
  /\ wire \subseteq Frames
  /\ \A a \in acks : a.status \in Verdicts
  /\ answered \subseteq [frame : Frames, status : Verdicts]

\* A transaction that reports a node's verdict reports the one its target gave
\* to this very command, whatever late, duplicated or foreign ACKs the shared
\* port delivered and however often the runtime was replaced
\* (correlate_parsed_ack, _same_command_identity).
VerdictIsForThisCommand ==
  \A c \in Clients :
    outcome[c].status \in Verdicts => outcome[c] \in answered

\* The pending table holds exactly commands some client waits for, each under
\* the client's name: what active_node_ids reports as an active transaction
\* is one, after every error path (register_sent_command after the send,
\* discard_sent_command at the deadline).
PendingIsAwaited ==
  \A r \in Runtimes : \A e \in pending[r] :
    /\ pc[e.owner] = "wait" /\ use[e.owner] = r
    /\ Key(sent[e.owner]) = e.key

\* As long as only one client has sent commands, whoever waits can still be
\* matched and no ACK for a command under way is ever read and dropped, although
\* the command is registered only after it was sent (the send-register-poll
\* order of _execute_transaction).
TookPart(c) == pc[c] # "idle" \/ outcome[c] # NoOutcome
NoAckIsStolen ==
  (\A c, d \in Clients : TookPart(c) /\ TookPart(d) => c = d) =>
    /\ stolen = {}
    /\ \A c \in Clients : pc[c] = "wait" =>
         \E e \in pending[use[c]] : e.owner = c /\ e.key = Key(sent[c])

\* Every transaction ends, whatever the network, the session and the other
\* clients do.
TransactionEnds ==
  \A c \in Clients : pc[c] # "idle" ~> pc[c] = "idle"
=============================================================================
