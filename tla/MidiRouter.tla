----------------------------- MODULE MidiRouter -----------------------------
(***************************************************************************)
(* The MIDI output of a session: a router with one port per bus, a queue   *)
(* filled by the receiver threads and emptied by a flusher thread.         *)
(*                                                                         *)
(* enqueue looks the bus up without the lock and appends with it; flush    *)
(* takes the whole queue with the lock and sends without it.  close stops  *)
(* the flusher, waits for it for two seconds, flushes once more itself and *)
(* closes the ports one by one.  A router is opened at most once: every    *)
(* start of a backend builds a new one, and closes it when opening fails.  *)
(***************************************************************************)
EXTENDS Integers, Sequences, FiniteSets

CONSTANTS
  Buses,       \* numbers a configured output may have
  Producers,   \* threads that send notes
  StrictPorts, \* cfg.midi.strict_ports
  SlowPort,    \* a send may outlast the two seconds close waits for
  MaxMsgs      \* bound: messages queued in a behaviour

RouterAssumption ==
  /\ Buses \subseteq Nat /\ IsFiniteSet(Buses)
  /\ StrictPorts \in BOOLEAN /\ SlowPort \in BOOLEAN /\ MaxMsgs \in Nat

VARIABLES
  outputs,  \* buses the configuration names
  phase,    \* "new", "open", "failed", "join", "flush", "ports", "closed"
  ports,    \* buses whose port is open
  flusher,  \* the flusher thread: "none", "wait", "due", "send", "ended"
  queue,    \* messages waiting for a flush: [id, bus]
  batch,    \* what the flusher took and has not sent
  last,     \* what close took and has not sent
  holds,    \* the bus a producer looked up and is about to queue for, or None
  issued,   \* messages queued so far: ids are given in queue order
  sent,     \* history: what reached a port, in order
  lost,     \* history: ids whose port was closed or refused them
  final     \* history: how many messages were queued when close took the rest

router == <<outputs, phase, ports>>
producing == <<holds, issued>>
history == <<sent, lost>>
vars == <<router, flusher, queue, batch, last, producing, history, final>>
None == -1

Message == [id : 1..MaxMsgs, bus : Buses]
TypeOK ==
  /\ outputs \subseteq Buses /\ ports \subseteq outputs
  /\ phase \in {"new", "open", "failed", "join", "flush", "ports", "closed"}
  /\ {queue, batch, last, sent} \subseteq Seq(Message)
  /\ flusher \in {"none", "wait", "due", "send", "ended"}
  /\ holds \in [Producers -> Buses \cup {None}]
  /\ issued \in 0..MaxMsgs /\ lost \subseteq 1..MaxMsgs /\ final \in 0..MaxMsgs

(* from_config keeps the well-formed outputs, or the defaults if none is:  *)
(* at least one bus.                                                       *)
Init ==
  /\ outputs \in SUBSET Buses \ {{}}
  /\ phase = "new" /\ ports = {} /\ flusher = "none"
  /\ queue = <<>> /\ batch = <<>> /\ last = <<>> /\ sent = <<>>
  /\ holds = [p \in Producers |-> None]
  /\ issued = 0 /\ lost = {} /\ final = 0

-----------------------------------------------------------------------------
(* A bus whose output cannot be resolved or opened is left out, or, with   *)
(* strict ports, ends the opening there: outputs are opened in the order   *)
(* of their numbers.                                                       *)
OpenedPorts ==
  IF StrictPorts
  THEN {{b \in outputs : b < c} : c \in outputs} \cup {outputs}
  ELSE SUBSET outputs
OpenFails(opened) == opened = {} \/ (StrictPorts /\ opened # outputs)

Open ==
  /\ phase = "new"
  /\ \E opened \in OpenedPorts :
       /\ ports' = opened
       /\ phase' = IF OpenFails(opened) THEN "failed" ELSE "open"
       /\ flusher' = IF OpenFails(opened) THEN "none" ELSE "wait"
  /\ UNCHANGED <<outputs, queue, batch, last, producing, history, final>>

-----------------------------------------------------------------------------
(* send_note_on, send_note_off and send_raw_midi: a value out of range     *)
(* raises and a bus that is not open drops the message; neither changes    *)
(* the router.                                                             *)
LookUpBus(p, b) ==
  /\ phase # "new" /\ holds[p] = None
  /\ b \in ports
  /\ holds' = [holds EXCEPT ![p] = b]
  /\ UNCHANGED <<router, flusher, queue, batch, last, issued, history, final>>

Enqueue(p) ==
  /\ holds[p] # None /\ issued < MaxMsgs
  /\ issued' = issued + 1
  /\ queue' = Append(queue, [id |-> issued + 1, bus |-> holds[p]])
  /\ holds' = [holds EXCEPT ![p] = None]
  /\ UNCHANGED <<router, flusher, batch, last, history, final>>

-----------------------------------------------------------------------------
(* One message of a taken queue: a port that was closed meanwhile, and a   *)
(* port that refuses it, lose the message and nothing else.                *)
Deliver(m) ==
  \/ m.bus \in ports /\ sent' = Append(sent, m) /\ UNCHANGED lost
  \/ lost' = lost \cup {m.id} /\ UNCHANGED sent

(* wait(period) returns before the stop event is set: this flush runs even *)
(* if close is called meanwhile.                                           *)
FlushDue ==
  /\ flusher = "wait" /\ phase = "open" /\ queue # <<>>
  /\ flusher' = "due"
  /\ UNCHANGED <<router, queue, batch, last, producing, history, final>>

\* Slip: flush copies the queue and does not clear it.
FlushTakeCopy ==
  /\ flusher = "due"
  /\ batch' = queue /\ queue' = queue /\ flusher' = "send"
  /\ UNCHANGED <<router, last, producing, history, final>>
FlushTake ==
  /\ flusher = "due"
  /\ batch' = queue /\ queue' = <<>> /\ flusher' = "send"
  /\ UNCHANGED <<router, last, producing, history, final>>

FlushSend ==
  /\ flusher = "send" /\ batch # <<>>
  /\ Deliver(Head(batch))
  /\ batch' = Tail(batch)
  /\ UNCHANGED <<router, flusher, queue, last, producing, final>>

FlushDone ==
  /\ flusher = "send" /\ batch = <<>>
  /\ flusher' = "wait"
  /\ UNCHANGED <<router, queue, batch, last, producing, history, final>>

(* The stop event ends the flusher between two flushes. *)
FlusherEnds ==
  /\ flusher = "wait" /\ phase # "open"
  /\ flusher' = "ended"
  /\ UNCHANGED <<router, queue, batch, last, producing, history, final>>

-----------------------------------------------------------------------------
Close ==
  /\ phase \in {"open", "failed"}
  /\ phase' = "join"
  /\ UNCHANGED <<outputs, ports, flusher, queue, batch, last, producing, history, final>>

(* join(timeout=2.0) *)
Joined == flusher \in {"none", "ended"} \/ SlowPort

CloseTake ==
  /\ phase = "join" /\ Joined
  /\ last' = queue /\ queue' = <<>> /\ phase' = "flush" /\ final' = issued
  /\ UNCHANGED <<outputs, ports, flusher, batch, producing, history>>

CloseSend ==
  /\ phase = "flush" /\ last # <<>>
  /\ Deliver(Head(last))
  /\ last' = Tail(last)
  /\ UNCHANGED <<router, flusher, queue, batch, producing, final>>

(* A port that fails to close is forgotten like the others. *)
ClosePort ==
  /\ phase \in {"flush", "ports"} /\ last = <<>> /\ ports # {}
  /\ \E b \in ports : ports' = ports \ {b}
  /\ phase' = "ports"
  /\ UNCHANGED <<outputs, flusher, queue, batch, last, producing, history, final>>

CloseReturns ==
  /\ phase \in {"flush", "ports"} /\ last = <<>> /\ ports = {}
  /\ phase' = "closed"
  /\ UNCHANGED <<outputs, ports, flusher, queue, batch, last, producing, history, final>>

-----------------------------------------------------------------------------
Flush == FlushDue \/ FlushTake \/ FlushSend \/ FlushDone \/ FlusherEnds
Closing == CloseTake \/ CloseSend \/ ClosePort \/ CloseReturns
Next ==
  \/ Open \/ Flush \/ Close \/ Closing
  \/ \E p \in Producers : Enqueue(p) \/ \E b \in Buses : LookUpBus(p, b)

(* The flusher wakes up every flush_ms, the closing thread runs, and a     *)
(* backend closes a router that failed to open.                            *)
Fairness ==
  WF_vars(Flush) /\ WF_vars(Closing) /\ WF_vars(phase = "failed" /\ Close)

Spec == Init /\ [][Next]_vars /\ Fairness

-----------------------------------------------------------------------------
(* The messages of a bus leave in the order in which they were queued, and *)
(* none leaves twice, although two threads flush: a note-off must not      *)
(* overtake its note-on.                                                   *)
NotesKeepOrder ==
  \A i, j \in DOMAIN sent :
    (i < j /\ sent[i].bus = sent[j].bus) => sent[i].id < sent[j].id

(* Closing drains: what was queued when close took the rest has been sent, *)
(* or its port failed; none of it is left behind in the router.            *)
CloseDrains ==
  phase = "closed" =>
    \A k \in 1..final : k \in lost \/ \E i \in DOMAIN sent : sent[i].id = k

(* A message does not stay in the queue of an open router for ever, nor    *)
(* does closing the router wait for ever.                                  *)
QueueIsServed ==
  \A k \in 1..MaxMsgs :
    (phase = "open" /\ \E i \in DOMAIN queue : queue[i].id = k)
      ~> (phase # "open" \/ \A i \in DOMAIN queue : queue[i].id # k)

(* Every port that was opened is released, whether opening succeeded, or   *)
(* failed at a later bus, or closing found a port that fails.              *)
PortsAreReleased == phase \in {"failed", "join"} ~> (phase = "closed" /\ ports = {})
=============================================================================
