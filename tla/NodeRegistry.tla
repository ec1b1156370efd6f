---------------------------- MODULE NodeRegistry ----------------------------
(***************************************************************************)
(* What the application knows of one node from its EVT and STAT packets:   *)
(* loss by sequence number, restarts, and the status with its events.  The *)
(* records of two nodes share nothing, so one node is modelled, with the   *)
(* network between it and the registry.  A packet is observed at the time  *)
(* at which it arrives.                                                    *)
(***************************************************************************)
EXTENDS Integers, Sequences, SequencesExt, FiniteSets

CONSTANTS
  SeqSpace,     \* number of sequence numbers: 2^16 in the code
  Markers,      \* number of boot markers: 16 in the code
  Reasons,      \* reset reasons
  Green, Red,   \* ages at which a node is degraded and offline
  Window,       \* of the packet rates
  Recover,      \* age up to which a STAT or EVT counts as recent
  Hold,         \* how long a restart shows
  LowUptime,    \* uptime up to which a node is calibrating
  YellowPct,    \* loss that degrades a node
  EvtStreak, StatStreak, \* packets in a row that lift the loss again
  MinPps,       \* EVT rate under which loss of EVTs counts; 0: never
  MaxEvents,    \* events kept
  FirstSeqs,    \* sequence numbers at which the application joins
  Reorder,      \* the network may deliver packets out of order
  Loses,        \* the network may lose packets
  MaxBoots, MaxSent, MaxInFlight, MaxClock \* bounds

RegistryAssumption ==
  /\ SeqSpace \in Nat \ {0} /\ SeqSpace % 2 = 0 /\ {Markers, MaxEvents} \subseteq Nat \ {0}
  /\ Green < Red /\ 0 < Recover /\ Recover <= Green /\ Hold > 0
  /\ Reorder \in BOOLEAN /\ Loses \in BOOLEAN /\ FirstSeqs \subseteq 0..(SeqSpace - 1)

Streams == {"evt", "stat"}
None == -1

VARIABLES
  clock,
  boot, bootedAt, reason, \* the running node: how often it booted, when and why
  next,     \* the number of the next packet of each stream, without wrap-around
  sent,     \* packets sent so far, bounded by MaxSent
  net,      \* packets on their way, in the order sent
  node,     \* the registry's record; node.known is FALSE before the first packet
  seenBoot, \* history: the boot of the last STAT observed
  reboots,  \* history: restarts detected, and restarts that took place between STATs
  first, newest \* history: true numbers of the first and the newest packet observed

nodeVars == <<boot, bootedAt, reason, next, sent>>
history == <<seenBoot, reboots, first, newest>>
vars == <<clock, nodeVars, net, node, history>>

Blank == [known |-> FALSE, lastSeen |-> None, lastStat |-> None,
          lastSeq |-> [s \in Streams |-> None], seen |-> [s \in Streams |-> 0],
          missing |-> [s \in Streams |-> 0], streak |-> [s \in Streams |-> 0],
          stamps |-> <<>>, uptime |-> None, reason |-> None, marker |-> None,
          rebootAt |-> None, status |-> "offline", changedAt |-> None, events |-> <<>>]

Statuses == {"online", "calibrating", "degraded", "offline"}
TypeOK ==
  /\ clock \in 0..MaxClock /\ boot \in 0..MaxBoots
  /\ Len(net) <= MaxInFlight
  /\ node.status \in Statuses
  /\ \A s \in Streams : node.lastSeq[s] \in -1..(SeqSpace - 1) /\ node.missing[s] >= 0
  /\ Len(node.events) <= MaxEvents /\ Range(node.events) \subseteq Statuses \cup {"reboot"}
  /\ node.known <=> node.changedAt # None

Init ==
  /\ clock = 0 /\ boot = 0 /\ bootedAt = 0 /\ reason \in Reasons
  /\ next \in [Streams -> FirstSeqs]
  /\ sent = 0 /\ net = <<>> /\ node = Blank
  /\ seenBoot = None /\ reboots = [found |-> 0, real |-> 0]
  /\ first = [s \in Streams |-> None] /\ newest = first

-----------------------------------------------------------------------------
(* The node and the network.  No packet is overtaken by half the sequence  *)
(* space, and no such number is lost in a row: 32768 packets in the code.  *)
Near(s) ==
  /\ \A i \in DOMAIN net : net[i].stream = s => next[s] - net[i].n < SeqSpace \div 2
  /\ newest[s] # None => next[s] - newest[s] < SeqSpace \div 2
Send(s) ==
  /\ Len(net) < MaxInFlight /\ sent < MaxSent /\ Near(s)
  /\ net' = Append(net, [stream |-> s, boot |-> boot, n |-> next[s], reason |-> reason,
                         uptime |-> clock - bootedAt])
  /\ next' = [next EXCEPT ![s] = @ + 1] /\ sent' = sent + 1
  /\ UNCHANGED <<clock, boot, bootedAt, reason, node, history>>

(* A restart begins the sequence numbers anew.  No STAT comes so late, and *)
(* none so long after the last one, that its boot marker has come round:   *)
(* 16 restarts in the code.                                                *)
Marked ==
  /\ \A i \in DOMAIN net : boot + 1 - net[i].boot < Markers
  /\ seenBoot # None => boot + 1 - seenBoot < Markers
Restart ==
  /\ boot < MaxBoots /\ Marked
  /\ boot' = boot + 1 /\ bootedAt' = clock /\ reason' \in Reasons
  /\ next' = [s \in Streams |-> 0]
  /\ UNCHANGED <<clock, sent, net, node, history>>

Lose ==
  /\ Loses /\ \E i \in DOMAIN net : net' = RemoveAt(net, i)
  /\ UNCHANGED <<clock, nodeVars, node, history>>

Tick ==
  /\ clock < MaxClock
  /\ clock' = clock + 1
  /\ UNCHANGED <<nodeVars, net, node, history>>

-----------------------------------------------------------------------------
(* Sequence loss of a stream. *)
\* Slip: a packet from before the newest one moves the baseline back.
UpdateSeqLossBackward(r, s, seq) ==
  IF r.lastSeq[s] = None
  THEN [r EXCEPT !.lastSeq[s] = seq, !.seen[s] = @ + 1, !.streak[s] = 1]
  ELSE LET delta == (seq - r.lastSeq[s]) % SeqSpace
       IN CASE delta = 0 -> r
            [] delta \in 1..(SeqSpace \div 2 - 1) ->
                 [r EXCEPT !.lastSeq[s] = seq, !.seen[s] = @ + 1,
                           !.missing[s] = @ + delta - 1,
                           !.streak[s] = IF delta > 1 THEN 1 ELSE @ + 1]
            [] OTHER -> [r EXCEPT !.lastSeq[s] = seq]
UpdateSeqLoss(r, s, seq) ==
  IF r.lastSeq[s] = None
  THEN [r EXCEPT !.lastSeq[s] = seq, !.seen[s] = @ + 1, !.streak[s] = 1]
  ELSE LET delta == (seq - r.lastSeq[s]) % SeqSpace
       IN IF delta = 0 \/ delta >= SeqSpace \div 2 THEN r
          ELSE [r EXCEPT !.lastSeq[s] = seq, !.seen[s] = @ + 1,
                         !.missing[s] = @ + delta - 1,
                         !.streak[s] = IF delta > 1 THEN 1 ELSE @ + 1]

LossReaches(r, s, pct) == 100 * r.missing[s] >= pct * (r.seen[s] + r.missing[s])

AppendEvent(r, e) ==
  [r EXCEPT !.events = IF Len(@) = MaxEvents THEN Append(Tail(@), e) ELSE Append(@, e)]

\* Slip: only a falling uptime is a restart.
RebootSeenByUptime(r, p) ==
  IF r.uptime = None THEN p.uptime <= LowUptime ELSE p.uptime + 1 < r.uptime
(* A restart shows in a STAT by its uptime, its reason or its boot marker. *)
RebootSeen(r, p) ==
  IF r.uptime = None THEN p.uptime <= LowUptime
  ELSE \/ p.uptime + 1 < r.uptime
       \/ p.reason # r.reason
       \/ p.boot % Markers # r.marker

UpdateReboot(r, p) ==
  [IF RebootSeen(r, p) THEN AppendEvent([r EXCEPT !.rebootAt = clock], "reboot") ELSE r
   EXCEPT !.marker = p.boot % Markers]

-----------------------------------------------------------------------------
(* The status policy. *)
Age(t) == IF clock > t THEN clock - t ELSE 0
Pps(r, s) == Cardinality({i \in DOMAIN r.stamps : r.stamps[i][1] = s /\ r.stamps[i][2] >= clock - Window})

RecentReboot(r) ==
  /\ Age(r.lastSeen) <= Green
  /\ \/ r.rebootAt # None /\ Age(r.rebootAt) <= Hold
     \/ r.uptime # None /\ r.uptime <= LowUptime
RecentStat(r) == r.lastStat # None /\ Age(r.lastStat) <= Recover
EvtDegraded(r) ==
  /\ MinPps > 0 /\ r.lastSeq["evt"] # None
  /\ Pps(r, "evt") < MinPps * Window /\ LossReaches(r, "evt", 50)

Status(r) ==
  CASE Age(r.lastSeen) >= Red -> "offline"
    [] Age(r.lastSeen) < Red /\ RecentReboot(r) -> "calibrating"
    [] Age(r.lastSeen) \in Green..(Red - 1) /\ ~RecentReboot(r) -> "degraded"
    [] OTHER ->
       IF r.lastSeq["stat"] # None /\ LossReaches(r, "stat", YellowPct)
       THEN IF RecentStat(r) /\ r.streak["stat"] >= StatStreak THEN "online" ELSE "degraded"
       ELSE IF RecentStat(r) \/ ~EvtDegraded(r)
               \/ (Age(r.lastSeen) <= Recover /\ r.streak["evt"] >= EvtStreak)
            THEN "online" ELSE "degraded"

Evaluate(r) ==
  LET s == Status(r)  changed == r.changedAt = None \/ s # r.status
      q == [r EXCEPT !.status = s, !.changedAt = IF changed THEN clock ELSE @]
  IN IF changed THEN AppendEvent(q, s) ELSE q

(* Timestamps older than the window are dropped when a rate is computed. *)
Trim(r) == [r EXCEPT !.stamps = SelectSeq(@, LAMBDA x : x[2] >= clock - Window)]
Stamp(r, s) == Trim([r EXCEPT !.stamps = Append(@, <<s, clock>>)])

ObserveEvt(p) ==
  Evaluate(Stamp(UpdateSeqLoss([node EXCEPT !.known = TRUE, !.lastSeen = clock],
                               "evt", p.n % SeqSpace), "evt"))
ObserveStat(p) ==
  Evaluate(Stamp(UpdateSeqLoss([UpdateReboot([node EXCEPT !.known = TRUE], p)
                                EXCEPT !.lastSeen = clock, !.lastStat = clock,
                                       !.uptime = p.uptime, !.reason = p.reason],
                               "stat", p.n % SeqSpace), "stat"))

Observe ==
  \E i \in DOMAIN net :
    LET p == net[i]  s == p.stream
    IN /\ i = 1 \/ Reorder
       /\ net' = RemoveAt(net, i)
       /\ node' = IF s = "evt" THEN ObserveEvt(p) ELSE ObserveStat(p)
       /\ first' = IF first[s] = None THEN [first EXCEPT ![s] = p.n] ELSE first
       /\ newest' = IF p.n > newest[s] THEN [newest EXCEPT ![s] = p.n] ELSE newest
       /\ seenBoot' = IF s = "stat" THEN p.boot ELSE seenBoot
       /\ reboots' = IF s = "evt" THEN reboots
            ELSE [found |-> reboots.found + (IF node'.rebootAt = clock /\ RebootSeen(node, p) THEN 1 ELSE 0),
                  real |-> reboots.real + (IF seenBoot = None THEN IF p.uptime <= LowUptime THEN 1 ELSE 0
                                           ELSE IF p.boot # seenBoot THEN 1 ELSE 0)]
       /\ UNCHANGED <<clock, nodeVars>>

(* The readers of snapshots and summaries evaluate the status again. *)
Refresh ==
  /\ node.known
  /\ node' = Evaluate(Trim(node))
  /\ UNCHANGED <<clock, nodeVars, net, history>>

Next == (\E s \in Streams : Send(s)) \/ Restart \/ Lose \/ Tick \/ Observe \/ Refresh
Spec == Init /\ [][Next]_vars

-----------------------------------------------------------------------------
(* While a node does not restart, what was seen and what was counted lost  *)
(* make up exactly the numbers from the first to the newest packet, across *)
(* the wrap-around and whatever the order of arrival.                      *)
LossCountsGaps ==
  boot = 0 => \A s \in Streams :
    node.lastSeq[s] # None => node.seen[s] + node.missing[s] = newest[s] - first[s] + 1

(* With packets in order, a restart is detected when it took place, once   *)
(* per pair of STATs of different boots and never otherwise.               *)
RestartsAreReal == reboots.found = reboots.real

(* The newest event about the status names the status of the node.         *)
EventsTellTheStatus ==
  \A i \in DOMAIN node.events :
    (node.events[i] # "reboot" /\ \A j \in (i + 1)..Len(node.events) : node.events[j] = "reboot")
      => node.events[i] = node.status

(* A network that loses nothing and keeps the order shows no loss.         *)
NoFalseLoss == \A s \in Streams : node.missing[s] = 0
=============================================================================
