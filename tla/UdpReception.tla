---------------------------- MODULE UdpReception ----------------------------
(***************************************************************************)
(* A UDP session of the application: the transport with its two receiver   *)
(* threads and the backend that observes and routes what they receive.     *)
(*                                                                         *)
(* Both objects have a lock that its holder cannot take again.  The        *)
(* backend takes the transport's lock inside its own, for a snapshot.      *)
(* Critical sections that take no second lock are single steps.  A backend *)
(* is started once: every session builds a new one.                        *)
(***************************************************************************)
EXTENDS Naturals, FiniteSets

CONSTANTS
  CloseMayFail, \* closing a socket may raise OSError
  SlowCallback, \* a callback may outlast the two seconds stop waits for
  MaxPackets    \* bound: packets received in a behaviour, both channels together

ReceptionAssumption ==
  CloseMayFail \in BOOLEAN /\ SlowCallback \in BOOLEAN /\ MaxPackets \in Nat

Channels == {"evt", "stat"}

VARIABLES
  main,      \* where the thread that starts and stops the session is
  recv,      \* where each receiver is: "none", "poll", ..., "ended"
  dies,      \* receivers that end after the event they report
  tlock,     \* holder of the transport's lock
  block,     \* holder of the backend's lock
  stopping,  \* the stop event
  sockets,   \* channels whose socket is open
  router,    \* the MIDI router: "none", "open", "closed"
  backend,   \* the backend's references: subset of {"router", "transport", "registry"}
  toClose,   \* channels stop has still to close
  reader,    \* a worker that asks for a snapshot: "idle", "has", ...
  counted,   \* packets of each channel the transport has counted
  observed,  \* packets of each channel the registry has observed
  routed,    \* EVT packets sent to the router, or refused by it
  late       \* EVT packets sent to the router after it was closed

locks == <<tlock, block>>
counters == <<counted, observed, routed, late>>
life == <<main, stopping, sockets, router, backend, toClose>>
vars == <<life, recv, dies, locks, reader, counters>>
Free == "free"

TypeOK ==
  /\ tlock \in Channels \cup {Free, "main", "reader"}
  /\ block \in Channels \cup {Free, "main", "reader"}
  /\ recv \in [Channels -> {"none", "poll", "sock", "recv", "event", "count", "read",
                            "observe", "route", "capture", "nested", "ended"}]
  /\ sockets \subseteq Channels /\ toClose \subseteq Channels /\ dies \subseteq Channels
  /\ backend \subseteq {"router", "transport", "registry"}
  /\ router \in {"none", "open", "closed"}
  /\ stopping \in BOOLEAN /\ reader \in {"idle", "wants", "nested"}
  /\ {counted, observed} \subseteq [Channels -> 0..MaxPackets]
  /\ {routed, late} \subseteq 0..counted["evt"]

Init ==
  /\ main = "new" /\ reader = "idle" /\ tlock = Free /\ block = Free
  /\ recv = [c \in Channels |-> "none"] /\ dies = {}
  /\ stopping = FALSE /\ sockets = {} /\ toClose = {} /\ router = "none" /\ backend = {}
  /\ counted = [c \in Channels |-> 0] /\ observed = counted /\ routed = 0 /\ late = 0

-----------------------------------------------------------------------------
(* start.  The router is opened and published before the receivers run;    *)
(* the transport then holds its lock until both run or one step failed.    *)
\* Slip: the router is published only once the transport has started.
OpenRouterUnpublished ==
  /\ main = "new"
  /\ router' = "open" /\ backend' = {"registry"} /\ main' = "start"
  /\ UNCHANGED <<recv, dies, locks, stopping, sockets, toClose, reader, counters>>
OpenRouter ==
  /\ main = "new"
  /\ router' = "open" /\ backend' = {"router", "registry"} /\ main' = "start"
  /\ UNCHANGED <<recv, dies, locks, stopping, sockets, toClose, reader, counters>>
(* No bus could be opened: there is no transport to stop. *)
RouterFails ==
  /\ main = "new"
  /\ router' = "open" /\ backend' = {"registry"} /\ main' = "clear"
  /\ UNCHANGED <<recv, dies, locks, stopping, sockets, toClose, reader, counters>>

Keeps == UNCHANGED <<dies, block, stopping, router, backend, toClose, reader, counters>>
(* The channel whose turn it is: EVT comes before STAT. *)
First(cs) == IF "evt" \in cs THEN "evt" ELSE "stat"

StartLocks ==
  /\ main = "start" /\ tlock = Free
  /\ tlock' = "main" /\ main' = "bind"
  /\ UNCHANGED <<recv, sockets>> /\ Keeps
BindSocket ==
  /\ main = "bind"
  /\ sockets' = sockets \cup {First(Channels \ sockets)}
  /\ main' = IF sockets' = Channels THEN "spawn" ELSE "bind"
  /\ UNCHANGED <<recv, tlock>> /\ Keeps
(* An invalid address or port, or a port in use. *)
BindFails ==
  /\ main = "bind"
  /\ main' = "unbind"
  /\ UNCHANGED <<recv, tlock, sockets>> /\ Keeps
Unbind ==
  /\ main = "unbind" /\ sockets # {}
  /\ sockets' = sockets \ {First(sockets)}
  /\ UNCHANGED <<main, recv, tlock>> /\ Keeps
(* The error is reported with the lock held: the backend does not know the *)
(* transport yet and asks it for nothing.                                  *)
Complain ==
  /\ main = "unbind" /\ sockets = {} /\ block = Free
  /\ tlock' = Free /\ main' = "undo"
  /\ UNCHANGED <<recv, sockets>> /\ Keeps
Spawn ==
  /\ main = "spawn"
  /\ LET c == First({d \in Channels : recv[d] = "none"}) IN
     /\ recv' = [recv EXCEPT ![c] = "poll"]
     /\ IF c = "stat" THEN tlock' = Free /\ main' = "announce" ELSE UNCHANGED <<tlock, main>>
  /\ UNCHANGED sockets /\ Keeps
(* The operating system gives no thread: the first receiver may run.       *)
SpawnFails ==
  /\ main = "spawn"
  /\ tlock' = Free /\ main' = "undo"
  /\ UNCHANGED <<recv, sockets>> /\ Keeps
Announce ==
  /\ main = "announce" /\ block = Free
  /\ main' = "publish"
  /\ UNCHANGED <<recv, tlock, sockets>> /\ Keeps

(* The backend keeps the transport and takes a first snapshot. *)
Publish ==
  /\ main = "publish" /\ block = Free /\ tlock = Free
  /\ backend' = {"router", "transport", "registry"} /\ main' = "running"
  /\ UNCHANGED <<recv, dies, locks, stopping, sockets, router, toClose, reader, counters>>

-----------------------------------------------------------------------------
(* The receivers. *)
Goes(c, pc) == recv' = [recv EXCEPT ![c] = pc]

Poll(c) ==
  /\ recv[c] = "poll"
  /\ Goes(c, IF stopping THEN "ended" ELSE "sock")
  /\ UNCHANGED <<life, dies, locks, reader, counters>>

ReadSocket(c) ==
  /\ recv[c] = "sock" /\ tlock = Free
  /\ Goes(c, IF c \in sockets THEN "recv" ELSE "ended")
  /\ UNCHANGED <<life, dies, locks, reader, counters>>

(* A timeout or an empty datagram, an error of the socket, an invalid      *)
(* packet or one of the other kind, or a packet.                           *)
TimesOut(c) ==
  /\ recv[c] = "recv" /\ c \in sockets
  /\ Goes(c, "poll")
  /\ UNCHANGED <<life, dies, locks, reader, counters>>
SocketError(c) ==
  /\ recv[c] = "recv"
  /\ IF stopping THEN Goes(c, "ended") /\ UNCHANGED dies
                 ELSE tlock = Free /\ Goes(c, "event") /\ dies' = dies \cup {c}
  /\ UNCHANGED <<life, locks, reader, counters>>
Invalid(c) ==
  /\ recv[c] = "recv" /\ c \in sockets /\ tlock = Free
  /\ Goes(c, "event")
  /\ UNCHANGED <<life, dies, locks, reader, counters>>
Receive(c) ==
  /\ recv[c] = "recv" /\ c \in sockets
  /\ counted["evt"] + counted["stat"] + Cardinality({d \in Channels : recv[d] = "count"}) < MaxPackets
  /\ Goes(c, "count")
  /\ UNCHANGED <<life, dies, locks, reader, counters>>
Count(c) ==
  /\ recv[c] = "count" /\ tlock = Free
  /\ counted' = [counted EXCEPT ![c] = @ + 1]
  /\ Goes(c, IF c = "evt" THEN "read" ELSE "observe")
  /\ UNCHANGED <<life, dies, locks, reader, observed, routed, late>>

(* _on_evt_packet reads the router without the lock. *)
ReadRouter ==
  /\ recv["evt"] = "read"
  /\ Goes("evt", IF "router" \in backend THEN "observe" ELSE "poll")
  /\ UNCHANGED <<life, dies, locks, reader, counters>>
(* _on_stat_packet takes its snapshot in the same critical section. *)
Observe(c) ==
  /\ recv[c] = "observe" /\ block = Free
  /\ observed' = IF "registry" \in backend THEN [observed EXCEPT ![c] = @ + 1] ELSE observed
  /\ IF c = "evt" THEN Goes(c, "route") /\ UNCHANGED block
                  ELSE Goes(c, "nested") /\ block' = c
  /\ UNCHANGED <<life, dies, tlock, reader, counted, routed, late>>
Route ==
  /\ recv["evt"] = "route"
  /\ routed' = routed + 1 /\ late' = late + IF router = "closed" THEN 1 ELSE 0
  /\ \/ Goes("evt", "capture")
     \/ block = Free /\ Goes("evt", "poll")
  /\ UNCHANGED <<life, dies, locks, reader, counted, observed>>
(* The backend's lock is taken for a snapshot, after a routed packet and   *)
(* for an event of the transport, and the transport's lock inside it.      *)
Capture(c) ==
  /\ recv[c] \in {"capture", "event"} /\ block = Free
  /\ block' = c /\ Goes(c, "nested")
  /\ UNCHANGED <<life, dies, tlock, reader, counters>>
Nested(c) ==
  /\ recv[c] = "nested" /\ ("transport" \in backend => tlock = Free)
  /\ block' = Free /\ Goes(c, IF c \in dies THEN "ended" ELSE "poll")
  /\ UNCHANGED <<life, dies, tlock, reader, counters>>

Receiver(c) ==
  \/ Poll(c) \/ ReadSocket(c) \/ TimesOut(c) \/ SocketError(c) \/ Invalid(c)
  \/ Receive(c) \/ Count(c) \/ Observe(c) \/ Capture(c) \/ Nested(c)
  \/ c = "evt" /\ (ReadRouter \/ Route)

-----------------------------------------------------------------------------
(* runtime_snapshot and the node readers, from another thread. *)
ReaderLocks ==
  /\ reader = "idle" /\ block = Free
  /\ block' = "reader" /\ reader' = "nested"
  /\ UNCHANGED <<life, recv, dies, tlock, counters>>
ReaderNested ==
  /\ reader = "nested" /\ ("transport" \in backend => tlock = Free)
  /\ block' = Free /\ reader' = "idle"
  /\ UNCHANGED <<life, recv, dies, tlock, counters>>

-----------------------------------------------------------------------------
(* stop, and the undoing of a start. *)
MainGoes(pc) == main' = pc /\ UNCHANGED <<recv, dies, reader, counters>>

(* A failed start stops its transport, then clears the fields, then closes *)
(* the router.                                                             *)
\* Slip: a transport that did not start is not stopped.
UndoWithoutStop ==
  /\ main = "undo"
  /\ MainGoes("clear")
  /\ UNCHANGED <<locks, stopping, sockets, router, backend, toClose>>
Undo ==
  /\ main = "undo"
  /\ stopping' = TRUE /\ toClose' = Channels /\ MainGoes("lock")
  /\ UNCHANGED <<locks, sockets, router, backend>>
Clear ==
  /\ main = "clear" /\ block = Free
  /\ backend' = {} /\ MainGoes("unroute")
  /\ UNCHANGED <<locks, stopping, sockets, router, toClose>>
CloseUnused ==
  /\ main = "unroute"
  /\ router' = "closed" /\ MainGoes("failed")
  /\ UNCHANGED <<locks, stopping, sockets, backend, toClose>>

Stop ==
  /\ main = "running"
  /\ stopping' = TRUE /\ toClose' = Channels /\ MainGoes("lock")
  /\ UNCHANGED <<locks, sockets, router, backend>>
StopLocks ==
  /\ main = "lock" /\ tlock = Free
  /\ tlock' = "main" /\ MainGoes("close")
  /\ UNCHANGED <<block, stopping, sockets, router, backend, toClose>>
\* Slip: stop closes the first socket only.
CloseFirstSocket ==
  /\ main = "close"
  /\ \E c \in toClose :
       /\ "evt" \in toClose => c = "evt"
       /\ sockets' = sockets \ {c} /\ toClose' = {} /\ MainGoes("close")
  /\ UNCHANGED <<locks, stopping, router, backend>>
CloseSocket ==
  /\ main = "close"
  /\ \E c \in toClose :
       /\ "evt" \in toClose => c = "evt"
       /\ toClose' = toClose \ {c}
       /\ \/ sockets' = sockets \ {c} /\ MainGoes("close")
          \/ CloseMayFail /\ c \in sockets /\ UNCHANGED sockets /\ MainGoes("event")
  /\ UNCHANGED <<locks, stopping, router, backend>>
(* The event of a failed close, reported with the transport's lock held:   *)
(* a backend that knows the transport takes its own lock and then waits    *)
(* for the transport's, which this thread has: there is no step after it.  *)
CloseEvent ==
  /\ main = "event" /\ block = Free
  /\ IF "transport" \in backend
       THEN block' = "main" /\ MainGoes("self") /\ UNCHANGED sockets
       ELSE sockets' = sockets \cap toClose /\ MainGoes("close") /\ UNCHANGED block
  /\ UNCHANGED <<tlock, stopping, router, backend, toClose>>
StopUnlocks ==
  /\ main = "close" /\ toClose = {}
  /\ tlock' = Free /\ MainGoes("join")
  /\ UNCHANGED <<block, stopping, sockets, router, backend, toClose>>
(* Both joins, the threads forgotten and the backend's last snapshot. *)
StopJoins ==
  /\ main = "join" /\ tlock = Free
  /\ SlowCallback \/ \A c \in Channels : recv[c] \in {"none", "ended"}
  /\ IF "transport" \in backend THEN block = Free /\ MainGoes("router") ELSE MainGoes("clear")
  /\ UNCHANGED <<locks, stopping, sockets, router, backend, toClose>>
CloseRouter ==
  /\ main = "router"
  /\ router' = "closed" /\ MainGoes("forget")
  /\ UNCHANGED <<locks, stopping, sockets, backend, toClose>>
Forget ==
  /\ main = "forget" /\ block = Free
  /\ backend' = {} /\ MainGoes("stopped")
  /\ UNCHANGED <<locks, stopping, sockets, router, toClose>>

-----------------------------------------------------------------------------
Starting ==
  \/ OpenRouter \/ RouterFails \/ StartLocks \/ BindSocket \/ BindFails \/ Unbind
  \/ Complain \/ Spawn \/ SpawnFails \/ Announce \/ Publish
Stopping ==
  \/ Undo \/ StopLocks \/ CloseSocket \/ CloseEvent \/ StopUnlocks \/ StopJoins
  \/ CloseRouter \/ Forget \/ Clear \/ CloseUnused
Next ==
  \/ Starting \/ Stop \/ Stopping \/ ReaderLocks \/ ReaderNested
  \/ \E c \in Channels : Receiver(c)

(* Every thread is scheduled, and a thread that keeps asking for a lock    *)
(* that is released again and again gets it.                               *)
Fairness ==
  /\ SF_vars(Starting) /\ SF_vars(Stopping) /\ WF_vars(ReaderNested)
  /\ \A c \in Channels : SF_vars(Receiver(c))

Spec == Init /\ [][Next]_vars /\ Fairness

-----------------------------------------------------------------------------
(* A packet the transport counted reaches the registry, from the first one *)
(* on: the backend is ready before the receivers start, and stop waits for *)
(* them before it forgets the registry and the router.                     *)
EveryPacketIsObserved ==
  \A c \in Channels :
    recv[c] \in {"none", "poll", "sock", "recv", "ended"} => observed[c] = counted[c]

(* Nothing is routed to a router that is closed. *)
NothingRoutedLate == late = 0

(* A start that fails, wherever it does, leaves no socket, no open router, *)
(* no reference and no receiver: also not the first one, when there is no  *)
(* thread for the second and packets came in between.                      *)
FailedStartLeavesNothing ==
  main = "failed" =>
    /\ sockets = {} /\ router = "closed" /\ backend = {}
    /\ SlowCallback \/ \A c \in Channels : recv[c] \in {"none", "ended"}

(* A stop that was begun returns, even when a callback outlasts the waits. *)
Over == main \in {"stopped", "failed"}
StopReturns == main = "lock" ~> Over

(* A stop that was begun, or the undoing of a start, comes to an end with  *)
(* the sockets closed and no receiver left, whatever the receivers and a   *)
(* reader of snapshots are doing.                                          *)
StopReleasesEverything ==
  main = "lock" ~> (Over /\ sockets = {}
                    /\ \A c \in Channels : recv[c] \in {"none", "ended"})
=============================================================================
