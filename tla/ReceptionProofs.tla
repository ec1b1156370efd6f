-------------------------- MODULE ReceptionProofs --------------------------
(***************************************************************************)
(* The receiving end of a session, for any number of packets, messages and *)
(* notes: what a UDP or serial backend received is observed and routed, a  *)
(* start that fails leaves nothing behind, a serial port is closed once,   *)
(* the notes of a bus leave the router in the order they were queued, and  *)
(* what is counted of a node's packets took place.                         *)
(***************************************************************************)
EXTENDS MCReception, TLAPS

USE MCReceptionAssumption

-----------------------------------------------------------------------------
(* UDP.  Where the thread of the session is tells which references exist,  *)
(* whether the router is open, which sockets are and whether receivers run. *)
UdpUnstarted == {"new", "start", "bind", "unbind"}
UdpReceiving == {"spawn", "announce", "publish", "running", "undo", "lock", "close", "event",
                 "self", "join"}
UdpJoined == {"router", "forget", "stopped", "clear", "unroute", "failed"}

UdpPlaces ==
  /\ main \in UdpUnstarted \cup UdpReceiving \cup UdpJoined
  /\ main \in UdpUnstarted => \A c \in Udp!Channels : recv[c] = "none"
  /\ main = "spawn" => recv["stat"] = "none"
  /\ main \in UdpJoined => \A c \in Udp!Channels : recv[c] \in {"none", "ended"}
UdpParts ==
  /\ router = IF main = "new" THEN "none"
              ELSE IF main \in {"failed", "forget", "stopped"} THEN "closed" ELSE "open"
  /\ main \in UdpReceiving \cup {"start", "bind", "unbind"} =>
       {"router", "registry"} \subseteq backend
  /\ main \in {"unroute", "failed"} => backend = {}
UdpSockets ==
  /\ sockets \subseteq Udp!Channels
  /\ main \in {"new", "join", "clear", "unroute", "failed"} => sockets = {}
  /\ main = "lock" => toClose = Udp!Channels
  /\ main = "close" => sockets \subseteq toClose

(* A packet that was counted and not yet observed is in its receiver's     *)
(* hands.                                                                  *)
InHand(c) == IF recv[c] \in {"read", "observe"} THEN 1 ELSE 0
UdpCounts ==
  /\ recv \in [Udp!Channels -> {"none", "poll", "sock", "recv", "event", "count", "read",
                                "observe", "route", "capture", "nested", "ended"}]
  /\ counted \in [Udp!Channels -> Nat] /\ observed \in [Udp!Channels -> Nat]
  /\ \A c \in Udp!Channels : counted[c] = observed[c] + InHand(c)
  /\ late = 0
UdpInv == UdpPlaces /\ UdpParts /\ UdpSockets /\ UdpCounts

-----------------------------------------------------------------------------
(* A serial line.  A port that is referred to has not been closed, but by  *)
(* a thread that reports that closing failed and keeps the lock.           *)
SerialUnopened == {"new", "open", "complain", "spawn", "undo", "unroute", "failed"}
SerialLocks ==
  /\ sTlock \in {"free", "main", "recv"}
  /\ (sTlock = "main") <=> (sMain \in {"spawn", "announce", "complain", "report", "stuck"})
  /\ (sTlock = "recv") <=> (sRecv \in {"report", "stuck"})
  /\ after \in {"read", "deliver", "end"}
SerialParts ==
  /\ sMain \in SerialUnopened => sRecv = "none"
  /\ sMain \in {"unroute", "failed"} => sBackend = {}
  /\ sMain = "failed" => sRouter = "closed"
  /\ held \in {TRUE, FALSE}
Counters == [parsed : Nat, routed : Nat, dropped : Nat, closed : Nat, late : Nat]
SerialClosings ==
  /\ count \in Counters
  /\ count.closed \in {0, 1}
  /\ sMain \in SerialUnopened => count.closed = 0
  /\ held = TRUE /\ count.closed = 1 => sMain \in {"report", "stuck"} \/ sRecv \in {"report", "stuck"}
SerialInv == SerialLocks /\ SerialParts /\ SerialClosings

(* As long as callbacks end within the time stop waits: the thread has     *)
(* ended, or waits for ever to report that closing failed, before stop     *)
(* closes the port and the router.                                         *)
SerialOver == {"ended", "report", "stuck"}
SerialClosing == {"close", "snapshot", "last", "report", "stuck", "router", "forget", "stopped"}
SerialPlaces ==
  /\ sMain \in SerialUnopened \cup {"announce", "publish", "first", "running", "join"}
                              \cup SerialClosing
  /\ sRecv \in {"none", "read", "port", "event", "deliver", "route", "capture", "nested", "end"}
               \cup SerialOver
  /\ sMain \notin SerialUnopened => sRecv # "none"
  /\ sMain \in SerialClosing => sRecv \in SerialOver
  /\ sMain \notin {"new", "undo", "unroute", "failed"} \cup SerialClosing =>
       "router" \in sBackend /\ sRouter = "open"
  /\ sMain \in SerialUnopened \ {"spawn"} => port = "none"

(* What was parsed was routed, is in the thread's hands or waits in its    *)
(* batch; none waits when it reads again or reports that a read failed.    *)
SerialCounts ==
  /\ sBatch \in Nat
  /\ sRecv \in SerialOver \cup {"none", "read", "port", "end"} => sBatch = 0
  /\ sRecv \in {"event", "capture", "nested"} =>
       after \in {"deliver", "end"} /\ (after = "end" => sBatch = 0)
  /\ count.parsed = count.routed + sBatch + IF sRecv = "route" THEN 1 ELSE 0
  /\ count.dropped = 0 /\ count.late = 0
DeliveryInv == SerialPlaces /\ SerialCounts

-----------------------------------------------------------------------------
(* The router.  A message is in one place, and the places are passed in    *)
(* the order of the ids: what was sent, what a flush or close has taken,   *)
(* what is queued.                                                         *)
Increasing(s) == \A i, j \in DOMAIN s : i < j => s[i].id < s[j].id
Precedes(s, t) == \A i \in DOMAIN s, j \in DOMAIN t : s[i].id < t[j].id
Contains(s, k) == \E i \in DOMAIN s : s[i].id = k
UpTo(s, n) == \A i \in DOMAIN s : s[i].id <= n
After(s, n) == \A i \in DOMAIN s : n < s[i].id

Notes == [id : Nat, bus : Int]
RouterTypes ==
  /\ queue \in Seq(Notes) /\ batch \in Seq(Notes) /\ last \in Seq(Notes) /\ sent \in Seq(Notes)
  /\ issued \in Nat /\ final \in Nat
  /\ holds \in [Producers -> Int]
RouterThreads ==
  /\ flusher \in {"none", "wait", "due", "send", "ended"}
  /\ phase \in {"new", "open", "failed", "join", "flush", "ports", "closed"}
  /\ phase \in {"flush", "ports", "closed"} => flusher \in {"none", "ended"}
  /\ phase = "new" => flusher = "none"
  /\ batch # <<>> => flusher = "send"
  /\ last # <<>> => phase = "flush"
RouterOrder ==
  /\ Increasing(queue) /\ Increasing(batch) /\ Increasing(last) /\ Increasing(sent)
  /\ Precedes(sent, batch) /\ Precedes(sent, last) /\ Precedes(sent, queue)
  /\ Precedes(batch, queue) /\ Precedes(last, queue)
  /\ UpTo(queue, issued) /\ UpTo(batch, issued) /\ UpTo(last, issued) /\ UpTo(sent, issued)

(* No message is forgotten, and what close took the rest for is no longer  *)
(* queued.                                                                 *)
Kept(k) == k \in lost \/ Contains(queue, k) \/ Contains(batch, k) \/ Contains(last, k)
           \/ Contains(sent, k)
RouterKeeps ==
  /\ \A k \in 1..issued : Kept(k)
  /\ final <= issued
  /\ phase \in {"flush", "ports", "closed"} => After(queue, final)
RouterInv == RouterTypes /\ RouterThreads /\ RouterOrder /\ RouterKeeps

ReceptionInv ==
  /\ UdpInv /\ SerialInv /\ (part = "serial" => DeliveryInv) /\ RouterInv

-----------------------------------------------------------------------------
LEMMA UdpStarts ==
  ASSUME Udp!Init
  PROVE  UdpInv
BY DEF Udp!Init, UdpInv, UdpPlaces, UdpParts, UdpSockets, UdpCounts, InHand,
   UdpUnstarted, UdpReceiving,
       UdpJoined, Udp!Channels

(* One step per action.  A receiver's step leaves the session's thread and *)
(* what it keeps alone, so the places of both stay where they are unless   *)
(* the receiver ends; the thread of the session leaves the counts alone.   *)
LEMMA UdpKeeps ==
  ASSUME UdpInv, Udp!Next
  PROVE  UdpInv'
<1> USE DEF Udp!Channels, Udp!life, Udp!counters, Udp!locks, InHand
<1> USE DEF UdpInv, UdpUnstarted, UdpReceiving, UdpJoined
<1>1. ASSUME Udp!Starting
      PROVE  UdpInv'
  <2> USE <1>1 DEF Udp!Starting, Udp!OpenRouter, Udp!RouterFails, Udp!StartLocks, Udp!BindSocket,
      Udp!BindFails, Udp!Unbind, Udp!Complain, Udp!Spawn, Udp!SpawnFails, Udp!Announce,
      Udp!Publish, Udp!Keeps, Udp!First
  <2>1. UdpPlaces'
    BY DEF UdpPlaces, UdpCounts
  <2>2. UdpParts'
    BY DEF UdpPlaces, UdpParts
  <2>3. UdpSockets'
    BY DEF UdpSockets
  <2>4. UdpCounts'
    BY DEF UdpPlaces, UdpCounts
  <2> QED BY <2>1, <2>2, <2>3, <2>4
<1>2. ASSUME Udp!Stop \/ Udp!Stopping
      PROVE  UdpInv'
  <2> USE <1>2 DEF Udp!Stop, Udp!Stopping, Udp!Undo, Udp!StopLocks, Udp!CloseSocket,
      Udp!CloseEvent, Udp!StopUnlocks, Udp!StopJoins, Udp!CloseRouter, Udp!Forget, Udp!Clear,
      Udp!CloseUnused, Udp!MainGoes
  <2>1. UdpPlaces'
    BY DEF UdpPlaces
  <2>2. UdpParts'
    BY DEF UdpPlaces, UdpParts
  <2>3. UdpSockets'
    BY DEF UdpSockets
  <2>4. UdpCounts'
    BY DEF UdpCounts
  <2> QED BY <2>1, <2>2, <2>3, <2>4
<1>3. ASSUME Udp!ReaderLocks \/ Udp!ReaderNested
      PROVE  UdpInv'
  BY <1>3 DEF UdpPlaces, UdpParts, UdpSockets, UdpCounts, Udp!ReaderLocks, Udp!ReaderNested
<1>4. ASSUME NEW c \in Udp!Channels, Udp!Receiver(c)
      PROVE  UdpInv'
  <2>1. UNCHANGED Udp!life
    BY <1>4 DEF Udp!Receiver, Udp!Poll, Udp!ReadSocket, Udp!TimesOut, Udp!SocketError,
       Udp!Invalid, Udp!Receive, Udp!Count, Udp!Observe, Udp!Capture, Udp!Nested,
       Udp!ReadRouter, Udp!Route
  <2>2. recv[c] \notin {"none", "ended"} /\ main \in UdpReceiving
    BY <1>4 DEF UdpInv, UdpPlaces, Udp!Receiver, Udp!Poll, Udp!ReadSocket, Udp!TimesOut,
       Udp!SocketError, Udp!Invalid, Udp!Receive, Udp!Count, Udp!Observe, Udp!Capture,
       Udp!Nested, Udp!ReadRouter, Udp!Route, UdpUnstarted, UdpReceiving, UdpJoined
  <2>3. \E pc : pc # "none" /\ Udp!Goes(c, pc)
    BY <1>4 DEF Udp!Receiver, Udp!Poll, Udp!ReadSocket, Udp!TimesOut, Udp!SocketError,
       Udp!Invalid, Udp!Receive, Udp!Count, Udp!Observe, Udp!Capture, Udp!Nested,
       Udp!ReadRouter, Udp!Route
  <2>4. UdpPlaces' /\ UdpParts' /\ UdpSockets'
    BY <2>1, <2>2, <2>3 DEF UdpPlaces, UdpParts, UdpSockets, UdpCounts, Udp!Goes
  <2>5. "router" \in backend /\ "registry" \in backend /\ router = "open"
    BY <2>2 DEF UdpInv, UdpParts, UdpReceiving
  <2>6. UdpCounts'
    BY <1>4, <2>5 DEF UdpInv, UdpCounts, Udp!Goes, Udp!Receiver, Udp!Poll, Udp!ReadSocket,
       Udp!TimesOut, Udp!SocketError, Udp!Invalid, Udp!Receive, Udp!Count, Udp!Observe,
       Udp!Capture, Udp!Nested, Udp!ReadRouter, Udp!Route
  <2> QED BY <2>4, <2>6 DEF UdpInv
<1> QED BY <1>1, <1>2, <1>3, <1>4 DEF Udp!Next

LEMMA UdpShows ==
  ASSUME UdpInv
  PROVE  Udp!EveryPacketIsObserved /\ Udp!NothingRoutedLate /\ Udp!FailedStartLeavesNothing
BY DEF UdpInv, UdpPlaces, UdpParts, UdpSockets, UdpCounts, InHand, UdpUnstarted, UdpReceiving,
   UdpJoined, Udp!Channels, Udp!EveryPacketIsObserved, Udp!NothingRoutedLate, Udp!FailedStartLeavesNothing

-----------------------------------------------------------------------------
LEMMA SerialStarts ==
  ASSUME Serial!Init
  PROVE  SerialInv /\ DeliveryInv
<1> USE DEF Serial!Init, Serial!Free
<1>1. SerialLocks /\ SerialParts
  BY DEF SerialLocks, SerialParts, SerialUnopened
<1>2. SerialClosings
  BY DEF Counters, SerialClosings, SerialUnopened
<1>3. DeliveryInv
  <2>1. SerialPlaces
    BY DEF SerialPlaces, SerialUnopened, SerialOver, SerialClosing
  <2>2. SerialCounts
    BY DEF SerialCounts, SerialOver
  <2> QED BY <2>1, <2>2 DEF DeliveryInv
<1> QED BY <1>1, <1>2, <1>3 DEF SerialInv

(* A stop that may give up waiting for the thread can do all the others do. *)
LEMMA SlowIsMore ==
  ASSUME Serial!Next
  PROVE  Slow!Next
BY DEF Serial!Next, Serial!Starting, Serial!OpenRouter, Serial!RouterFails,
   Serial!Spawn, Serial!SpawnFails, Serial!CloseUnused, Serial!OpenPort,
   Serial!OpenFails, Serial!Announce, Serial!Undo, Serial!Publish,
   Serial!MainNested, Serial!Stopping, Serial!Join, Serial!StopCloses,
   Serial!StopReports, Serial!LastSnapshot, Serial!CloseRouter, Serial!Forget,
   Serial!Reading, Serial!Loop, Serial!ReadsNothing, Serial!ReadFails,
   Serial!Reads, Serial!Deliver, Serial!Route, Serial!Capture, Serial!Nested,
   Serial!ThreadEnds, Serial!ThreadReports, Serial!Stop, Serial!ReaderLocks,
   Serial!ReaderNested, Serial!Thread, Serial!ClosePort, Serial!Count, Serial!Free,
   Slow!Next, Slow!Starting, Slow!OpenRouter, Slow!RouterFails, Slow!Spawn, Slow!SpawnFails, Slow!CloseUnused, Slow!OpenPort, Slow!OpenFails,
   Slow!Announce, Slow!Undo, Slow!Publish, Slow!MainNested, Slow!Stopping,
   Slow!Join, Slow!StopCloses, Slow!StopReports, Slow!LastSnapshot,
   Slow!CloseRouter, Slow!Forget, Slow!Reading, Slow!Loop, Slow!ReadsNothing,
   Slow!ReadFails, Slow!Reads, Slow!Deliver, Slow!Route, Slow!Capture, Slow!Nested,
   Slow!ThreadEnds, Slow!ThreadReports, Slow!Stop, Slow!ReaderLocks,
   Slow!ReaderNested, Slow!Thread, Slow!ClosePort, Slow!Count, Slow!Free

LEMMA RoutedAndLate ==
  ASSUME NEW c \in Counters, NEW n \in Nat
  PROVE  [c EXCEPT !.routed = @ + 1, !.late = @ + n] \in Counters
<1>1. c.routed + 1 \in Nat /\ c.late + n \in Nat
  BY DEF Counters
<1> QED BY <1>1, Zenon DEF Counters

LEMMA SerialKeeps ==
  ASSUME SerialInv, Slow!Next
  PROVE  SerialInv'
<1> USE DEF SerialUnopened, SerialOver, SerialClosing, Slow!Free
<1>1. CASE Slow!Starting
  <2> USE <1>1 DEF Slow!Starting, Slow!OpenRouter, Slow!RouterFails,
      Slow!Spawn, Slow!SpawnFails, Slow!CloseUnused, Slow!OpenPort, Slow!OpenFails,
      Slow!Announce, Slow!Undo, Slow!Publish, Slow!MainNested
  <2>1. SerialLocks'
    BY DEF SerialInv, SerialLocks, SerialParts
  <2>2. SerialParts'
    BY DEF SerialInv, SerialLocks, SerialParts
  <2>3. SerialClosings'
    BY DEF SerialInv, SerialLocks, SerialParts, Counters, SerialClosings
  <2> QED BY <2>1, <2>2, <2>3 DEF SerialInv
<1>2. CASE Slow!Stop \/ Slow!Stopping
  <2> USE <1>2 DEF Slow!Stop, Slow!Stopping, Slow!Join, Slow!StopCloses,
      Slow!StopReports, Slow!LastSnapshot, Slow!CloseRouter, Slow!Forget,
      Slow!ClosePort, Slow!Count
  <2>1. SerialLocks'
    BY DEF SerialInv, SerialLocks, SerialParts
  <2>2. SerialParts'
    BY DEF SerialInv, SerialLocks, SerialParts
  <2>3. SerialClosings'
    BY DEF SerialInv, SerialLocks, SerialParts, Counters, SerialClosings
  <2> QED BY <2>1, <2>2, <2>3 DEF SerialInv
<1>3. CASE Slow!Reading
  <2> USE <1>3 DEF Slow!Reading, Slow!Loop, Slow!ReadsNothing, Slow!ReadFails,
      Slow!Reads, Slow!Deliver, Slow!Route, Slow!Capture, Slow!Nested,
      Slow!ThreadEnds, Slow!ThreadReports, Slow!Thread, Slow!ClosePort, Slow!Count
  <2>1. SerialLocks'
    BY DEF SerialInv, SerialLocks, SerialParts
  <2>2. SerialParts'
    BY DEF SerialInv, SerialLocks, SerialParts
  <2>3. SerialClosings'
    <3> USE DEF SerialInv, SerialLocks, SerialParts, Counters, SerialClosings
    <3>1. CASE Slow!ThreadEnds
      BY <3>1
    <3>2. CASE Slow!ThreadReports
      BY <3>2
    <3>3. CASE Slow!Reads
      BY <3>3
    <3>4. CASE Slow!Deliver
      BY <3>4
    <3>5. CASE Slow!Route
      <4>1. PICK n \in Nat : count' = [count EXCEPT !.routed = @ + 1, !.late = @ + n]
        BY <3>5
      <4>2. count' \in Counters
        BY <4>1, RoutedAndLate
      <4>3. count'.closed = count.closed /\ UNCHANGED <<sMain, sTlock, held>> /\ sRecv' # "report"
        BY <4>1, <3>5
      <4> QED BY <4>2, <4>3, <3>5
    <3>6. CASE Slow!Loop \/ Slow!ReadsNothing \/ Slow!ReadFails \/ Slow!Capture \/ Slow!Nested
      BY <3>6
    <3> QED BY <3>1, <3>2, <3>3, <3>4, <3>5, <3>6
  <2> QED BY <2>1, <2>2, <2>3 DEF SerialInv
<1>4. CASE Slow!ReaderLocks \/ Slow!ReaderNested
  BY <1>4 DEF Slow!ReaderLocks, Slow!ReaderNested, SerialInv, SerialLocks,
     SerialParts, Counters, SerialClosings
<1> QED BY <1>1, <1>2, <1>3, <1>4 DEF Slow!Next

(* The same, when stop has waited for the thread to end.                   *)
LEMMA DeliveryKeeps ==
  ASSUME SerialInv, DeliveryInv, Serial!Next
  PROVE  DeliveryInv'
<1> USE DEF SerialUnopened, SerialOver, SerialClosing, Serial!Free
<1>1. CASE Serial!Starting
  <2> USE <1>1 DEF Serial!Starting, Serial!OpenRouter, Serial!RouterFails,
      Serial!Spawn, Serial!SpawnFails, Serial!CloseUnused, Serial!OpenPort,
      Serial!OpenFails, Serial!Announce, Serial!Undo, Serial!Publish,
      Serial!MainNested
  <2>1. SerialPlaces'
    BY DEF SerialInv, SerialLocks, SerialParts, DeliveryInv, SerialPlaces
  <2>2. SerialCounts'
    BY DEF SerialInv, SerialLocks, SerialParts, Counters, SerialClosings,
       DeliveryInv, SerialPlaces, SerialCounts
  <2> QED BY <2>1, <2>2 DEF DeliveryInv
<1>2. CASE Serial!Stop \/ Serial!Stopping
  <2> USE <1>2 DEF Serial!Stop, Serial!Stopping, Serial!Join, Serial!StopCloses,
      Serial!StopReports, Serial!LastSnapshot, Serial!CloseRouter, Serial!Forget,
      Serial!ClosePort, Serial!Count
  <2>1. SerialPlaces'
    BY DEF SerialInv, SerialLocks, SerialParts, DeliveryInv, SerialPlaces
  <2>2. SerialCounts'
    BY DEF SerialInv, SerialLocks, SerialParts, Counters, SerialClosings,
       DeliveryInv, SerialPlaces, SerialCounts
  <2> QED BY <2>1, <2>2 DEF DeliveryInv
<1>3. CASE Serial!Reading
  <2> USE <1>3 DEF Serial!Reading, Serial!Loop, Serial!ReadsNothing,
      Serial!ReadFails, Serial!Reads, Serial!Deliver, Serial!Route, Serial!Capture,
      Serial!Nested, Serial!ThreadEnds, Serial!ThreadReports, Serial!Thread,
      Serial!ClosePort, Serial!Count
  <2>1. SerialPlaces'
    BY DEF SerialInv, SerialLocks, SerialParts, DeliveryInv, SerialPlaces
  <2>2. SerialCounts'
    <3> USE DEF SerialInv, SerialLocks, SerialParts, Counters, SerialClosings,
      DeliveryInv, SerialPlaces, SerialCounts
    <3>1. CASE Serial!ThreadEnds
      BY <3>1
    <3>2. CASE Serial!ThreadReports
      BY <3>2
    <3>3. CASE Serial!Reads
      BY <3>3
    <3>4. CASE Serial!Deliver
      BY <3>4
    <3>5. CASE Serial!Route
      BY <3>5
    <3>6. CASE Serial!Loop \/ Serial!ReadsNothing \/ Serial!ReadFails \/ Serial!Capture \/ Serial!Nested
      BY <3>6
    <3> QED BY <3>1, <3>2, <3>3, <3>4, <3>5, <3>6
  <2> QED BY <2>1, <2>2 DEF DeliveryInv
<1>4. CASE Serial!ReaderLocks \/ Serial!ReaderNested
  BY <1>4 DEF Serial!ReaderLocks, Serial!ReaderNested, DeliveryInv,
     SerialPlaces, SerialCounts, SerialInv
<1> QED BY <1>1, <1>2, <1>3, <1>4 DEF Serial!Next

LEMMA SerialShows ==
  ASSUME SerialInv
  PROVE  Slow!FailedStartLeavesNothing /\ Serial!ClosedOnce
BY DEF SerialInv, SerialParts, Counters, SerialClosings, SerialUnopened,
   Slow!FailedStartLeavesNothing,
   Serial!ClosedOnce

LEMMA DeliveryShows ==
  ASSUME SerialInv, DeliveryInv
  PROVE  /\ Serial!EveryMessageIsRouted /\ Serial!NothingRoutedLate
         /\ Serial!FailedStartLeavesNothing
<1>1. Serial!EveryMessageIsRouted /\ Serial!NothingRoutedLate
  BY DEF SerialInv, Counters, SerialClosings, DeliveryInv, SerialCounts, SerialOver,
     Serial!EveryMessageIsRouted, Serial!NothingRoutedLate
<1>2. Serial!FailedStartLeavesNothing
  BY DEF SerialInv, SerialParts, SerialUnopened, DeliveryInv, SerialPlaces,
     Serial!FailedStartLeavesNothing
<1> QED BY <1>1, <1>2
-----------------------------------------------------------------------------
(* Messages handed over from one sequence to another.                      *)
LEMMA TailOf ==
  ASSUME NEW s \in Seq(Notes), s # <<>>
  PROVE  /\ Tail(s) \in Seq(Notes) /\ Head(s) = s[1] /\ Head(s) \in Notes
         /\ DOMAIN s = 1..Len(s) /\ Len(s) \in Nat \ {0}
         /\ DOMAIN Tail(s) = 1..(Len(s) - 1)
         /\ \A i \in 1..(Len(s) - 1) : Tail(s)[i] = s[i + 1]
OBVIOUS

LEMMA AppendOf ==
  ASSUME NEW s \in Seq(Notes), NEW m \in Notes
  PROVE  /\ Append(s, m) \in Seq(Notes) /\ Len(s) \in Nat
         /\ DOMAIN s = 1..Len(s) /\ DOMAIN Append(s, m) = 1..(Len(s) + 1)
         /\ \A i \in 1..Len(s) : Append(s, m)[i] = s[i]
         /\ Append(s, m)[Len(s) + 1] = m
OBVIOUS

LEMMA EmptyIsOrdered ==
  /\ Increasing(<<>>)
  /\ \A s : Precedes(<<>>, s) /\ Precedes(s, <<>>)
BY DEF Increasing, Precedes

LEMMA IdsAreNumbers ==
  ASSUME NEW s \in Seq(Notes), NEW i \in DOMAIN s
  PROVE  s[i] \in Notes /\ s[i].id \in Nat
<1>1. s[i] \in Notes
  OBVIOUS
<1> QED BY <1>1 DEF Notes

(* Dropping the first message of a sequence.                               *)
LEMMA TailKeepsOrder ==
  ASSUME NEW t \in Seq(Notes), t # <<>>, NEW s, NEW u
  PROVE  /\ Increasing(t) => Increasing(Tail(t))
         /\ Precedes(s, t) => Precedes(s, Tail(t))
         /\ Precedes(t, u) => Precedes(Tail(t), u)
         /\ \A k : Contains(t, k) => k = Head(t).id \/ Contains(Tail(t), k)
         /\ \A i \in DOMAIN Tail(t) : \E j \in DOMAIN t : Tail(t)[i] = t[j]
<1>1. \A i \in DOMAIN Tail(t) : i + 1 \in DOMAIN t /\ Tail(t)[i] = t[i + 1] /\ i \in Int
  BY TailOf
<1>2. Increasing(t) => Increasing(Tail(t))
  BY <1>1 DEF Increasing
<1>3. \A k : Contains(t, k) => k = Head(t).id \/ Contains(Tail(t), k)
  <2>1. SUFFICES ASSUME NEW k, NEW j \in DOMAIN t, t[j].id = k
                 PROVE  k = Head(t).id \/ Contains(Tail(t), k)
    BY DEF Contains
  <2>2. CASE j = 1
    BY <2>1, <2>2, TailOf
  <2>3. CASE j # 1
    <3>1. j - 1 \in DOMAIN Tail(t) /\ Tail(t)[j - 1] = t[j]
      BY <2>3, TailOf
    <3> QED BY <3>1, <2>1 DEF Contains
  <2> QED BY <2>2, <2>3
<1> QED BY <1>1, <1>2, <1>3 DEF Precedes

(* Adding a message behind all the others.                                 *)
LEMMA AppendKeepsOrder ==
  ASSUME NEW s \in Seq(Notes), NEW m \in Notes, NEW u
  PROVE  /\ Increasing(s) /\ (\A i \in DOMAIN s : s[i].id < m.id) => Increasing(Append(s, m))
         /\ Precedes(s, u) /\ (\A i \in DOMAIN u : m.id < u[i].id) => Precedes(Append(s, m), u)
         /\ Precedes(u, s) /\ (\A i \in DOMAIN u : u[i].id < m.id) => Precedes(u, Append(s, m))
         /\ Contains(Append(s, m), m.id)
         /\ \A k : Contains(s, k) => Contains(Append(s, m), k)
         /\ \A i \in DOMAIN Append(s, m) : Append(s, m)[i] = m \/ \E j \in DOMAIN s : Append(s, m)[i] = s[j]
<1>1. \A i \in DOMAIN Append(s, m) :
        \/ i \in DOMAIN s /\ Append(s, m)[i] = s[i]
        \/ i = Len(s) + 1 /\ Append(s, m)[i] = m
  BY AppendOf
<1>2. /\ \A i \in DOMAIN s : i \in DOMAIN Append(s, m) /\ Append(s, m)[i] = s[i]
      /\ Len(s) + 1 \in DOMAIN Append(s, m) /\ Append(s, m)[Len(s) + 1] = m
  BY AppendOf
<1>3. \A i \in DOMAIN s : i \in Int /\ i < Len(s) + 1
  BY AppendOf
<1>4. Increasing(s) /\ (\A i \in DOMAIN s : s[i].id < m.id) => Increasing(Append(s, m))
  BY <1>1, <1>3, AppendOf DEF Increasing
<1>5. Precedes(s, u) /\ (\A i \in DOMAIN u : m.id < u[i].id) => Precedes(Append(s, m), u)
  BY <1>1 DEF Precedes
<1>6. Precedes(u, s) /\ (\A i \in DOMAIN u : u[i].id < m.id) => Precedes(u, Append(s, m))
  BY <1>1 DEF Precedes
<1>7. /\ Contains(Append(s, m), m.id)
      /\ \A k : Contains(s, k) => Contains(Append(s, m), k)
  BY <1>2 DEF Contains
<1> QED BY <1>1, <1>4, <1>5, <1>6, <1>7

(* The first of what was taken goes to the end of what was sent.           *)
LEMMA HandedOver ==
  ASSUME NEW s \in Seq(Notes), NEW t \in Seq(Notes), t # <<>>,
         Increasing(s), Increasing(t), Precedes(s, t)
  PROVE  /\ Increasing(Append(s, Head(t))) /\ Increasing(Tail(t))
         /\ Precedes(Append(s, Head(t)), Tail(t))
         /\ \A u : Precedes(s, u) /\ Precedes(t, u) => Precedes(Append(s, Head(t)), u)
<1>1. Head(t) \in Notes /\ Head(t) = t[1] /\ 1 \in DOMAIN t
  BY TailOf
<1>2. \A i \in DOMAIN s : s[i].id < Head(t).id
  BY <1>1 DEF Precedes
<1>3. \A i \in DOMAIN Tail(t) : Head(t).id < Tail(t)[i].id
  BY <1>1, TailOf DEF Increasing
<1>4. Increasing(Append(s, Head(t)))
  BY <1>1, <1>2, AppendKeepsOrder
<1>5. Increasing(Tail(t)) /\ Precedes(s, Tail(t))
  BY TailKeepsOrder
<1>6. Precedes(Append(s, Head(t)), Tail(t))
  BY <1>1, <1>3, <1>5, AppendKeepsOrder
<1>7. ASSUME NEW u, Precedes(s, u), Precedes(t, u)
      PROVE  Precedes(Append(s, Head(t)), u)
  <2>1. \A i \in DOMAIN u : Head(t).id < u[i].id
    BY <1>1, <1>7 DEF Precedes
  <2> QED BY <1>1, <1>7, <2>1, AppendKeepsOrder
<1> QED BY <1>4, <1>5, <1>6, <1>7

-----------------------------------------------------------------------------
LEMMA RouterStarts ==
  ASSUME Router!Init
  PROVE  RouterInv
<1> USE DEF Router!Init, Router!None
<1>1. RouterTypes
  BY DEF RouterTypes
<1>2. RouterThreads
  BY DEF RouterThreads
<1>3. RouterOrder /\ RouterKeeps
  BY DEF RouterOrder, RouterKeeps, Increasing, Precedes, UpTo
<1> QED BY <1>1, <1>2, <1>3 DEF RouterInv

(* A message of what the flusher or close has taken is sent or lost.       *)
LEMMA Delivered ==
  ASSUME RouterInv, NEW t \in Seq(Notes), t # <<>>, Increasing(t), Precedes(sent, t),
         UpTo(t, issued), Router!Deliver(Head(t))
  PROVE  /\ sent' \in Seq(Notes) /\ Tail(t) \in Seq(Notes)
         /\ Increasing(sent') /\ Increasing(Tail(t)) /\ Precedes(sent', Tail(t))
         /\ UpTo(sent', issued) /\ UpTo(Tail(t), issued)
         /\ \A u : Precedes(sent, u) /\ Precedes(t, u) =>
              Precedes(sent', u) /\ Precedes(Tail(t), u)
         /\ lost \subseteq lost' /\ \A k : Contains(sent, k) => Contains(sent', k)
         /\ \A k : Contains(t, k) => k \in lost' \/ Contains(sent', k) \/ Contains(Tail(t), k)
<1>1. sent \in Seq(Notes) /\ Increasing(sent) /\ UpTo(sent, issued)
  BY DEF RouterInv, RouterTypes, RouterOrder
<1>2. Head(t) \in Notes /\ Tail(t) \in Seq(Notes) /\ Head(t) = t[1] /\ 1 \in DOMAIN t
  BY TailOf
<1>3. /\ Increasing(Tail(t)) /\ Precedes(sent, Tail(t)) /\ UpTo(Tail(t), issued)
      /\ \A u : Precedes(t, u) => Precedes(Tail(t), u)
      /\ \A k : Contains(t, k) => k = Head(t).id \/ Contains(Tail(t), k)
  BY TailKeepsOrder DEF UpTo
<1>4. CASE sent' = Append(sent, Head(t)) /\ UNCHANGED lost
  <2>1. sent' \in Seq(Notes)
    BY <1>1, <1>2, <1>4, AppendOf
  <2>2. /\ Increasing(sent') /\ Precedes(sent', Tail(t))
        /\ \A u : Precedes(sent, u) /\ Precedes(t, u) => Precedes(sent', u)
    BY <1>1, <1>4, HandedOver
  <2>3. /\ Contains(sent', Head(t).id) /\ \A k : Contains(sent, k) => Contains(sent', k)
        /\ \A i \in DOMAIN sent' :
             sent'[i] = Head(t) \/ \E j \in DOMAIN sent : sent'[i] = sent[j]
    BY <1>1, <1>2, <1>4, AppendKeepsOrder
  <2>4. UpTo(sent', issued)
    BY <1>1, <1>2, <2>3 DEF UpTo
  <2> QED BY <1>2, <1>3, <1>4, <2>1, <2>2, <2>3, <2>4
<1>5. CASE lost' = lost \cup {Head(t).id} /\ UNCHANGED sent
  BY <1>1, <1>2, <1>3, <1>5
<1> QED BY <1>4, <1>5 DEF Router!Deliver

LEMMA RouterStep ==
  ASSUME RouterInv, Router!Next
  PROVE  RouterInv'
<1> USE DEF Router!router, Router!producing, Router!history
<1>1. CASE Router!Open \/ Router!FlushDue \/ Router!FlushDone \/ Router!FlusherEnds
           \/ Router!Close \/ Router!ClosePort \/ Router!CloseReturns
  <2> USE <1>1 DEF Router!Open, Router!FlushDue, Router!FlushDone, Router!FlusherEnds,
                   Router!Close, Router!ClosePort, Router!CloseReturns, RouterInv
  <2>1. UNCHANGED <<queue, batch, last, sent, issued, holds, lost, final>>
    OBVIOUS
  <2>2. RouterTypes' /\ RouterOrder'
    BY <2>1 DEF RouterTypes, RouterOrder
  <2>3. RouterThreads'
    BY <2>1 DEF RouterThreads
  <2>4. RouterKeeps'
    BY <2>1 DEF RouterKeeps, RouterThreads, Kept
  <2> QED BY <2>2, <2>3, <2>4
<1>2. CASE \E p \in Producers, b \in Buses : Router!LookUpBus(p, b)
  <2>1. PICK p \in Producers, b \in Buses : Router!LookUpBus(p, b)
    BY <1>2
  <2>2. holds' = [holds EXCEPT ![p] = b] /\ b \in Int
    BY <2>1 DEF Router!LookUpBus, MCReceptionAssumption, Router!RouterAssumption
  <2>3. UNCHANGED <<flusher, phase, queue, batch, last, sent, issued, lost, final>>
    BY <2>1 DEF Router!LookUpBus
  <2> QED BY <2>2, <2>3 DEF RouterInv, RouterTypes, RouterThreads, RouterOrder, RouterKeeps, Kept
<1>3. CASE \E p \in Producers : Router!Enqueue(p)
  <2>1. PICK p \in Producers : Router!Enqueue(p)
    BY <1>3
  <2> DEFINE m == [id |-> issued + 1, bus |-> holds[p]]
  <2>2. /\ UNCHANGED <<flusher, phase, batch, last, sent, lost, final>>
        /\ queue' = Append(queue, m) /\ issued' = issued + 1
        /\ holds' = [holds EXCEPT ![p] = -1]
    BY <2>1 DEF Router!Enqueue, Router!None
  <2>3. m \in Notes /\ m.id = issued + 1 /\ queue \in Seq(Notes) /\ issued \in Nat /\ final \in Nat
    BY DEF RouterInv, RouterTypes, Notes
  <2>4. RouterTypes'
    BY <2>2, <2>3, AppendOf DEF RouterInv, RouterTypes
  <2> HIDE DEF m
  <2>5. /\ \A i \in DOMAIN queue : queue[i] \in Notes /\ queue[i].id \in Nat
        /\ \A i \in DOMAIN batch : batch[i].id \in Nat
        /\ \A i \in DOMAIN last : last[i].id \in Nat
        /\ \A i \in DOMAIN sent : sent[i].id \in Nat
    BY IdsAreNumbers DEF RouterInv, RouterTypes
  <2>6. RouterOrder'
    <3>1. Increasing(queue') /\ UpTo(queue', issued')
      BY <2>2, <2>3, <2>5, AppendKeepsOrder DEF RouterInv, RouterOrder, UpTo
    <3>2. Precedes(sent, queue') /\ Precedes(batch, queue') /\ Precedes(last, queue')
      BY <2>2, <2>3, <2>5, AppendKeepsOrder DEF RouterInv, RouterOrder, UpTo
    <3>3. UpTo(batch, issued') /\ UpTo(last, issued') /\ UpTo(sent, issued')
      BY <2>2, <2>3, <2>5 DEF RouterInv, RouterOrder, UpTo
    <3> QED BY <2>2, <3>1, <3>2, <3>3 DEF RouterInv, RouterOrder
  <2>7. RouterKeeps'
    <3>1. Contains(queue', issued + 1) /\ \A k : Contains(queue, k) => Contains(queue', k)
      BY <2>2, <2>3, AppendKeepsOrder
    <3>2. \A k \in 1..issued' : k = issued + 1 \/ k \in 1..issued
      BY <2>2, <2>3
    <3>3. After(queue, final) => After(queue', final)
      BY <2>2, <2>3, AppendKeepsOrder DEF After, RouterInv, RouterKeeps
    <3> QED BY <2>2, <2>3, <3>1, <3>2, <3>3 DEF RouterInv, RouterKeeps, Kept
  <2> QED BY <2>2, <2>4, <2>6, <2>7 DEF RouterInv, RouterThreads
<1>4. CASE Router!FlushTake
  <2>1. /\ flusher = "due" /\ flusher' = "send" /\ batch' = queue /\ queue' = <<>>
        /\ UNCHANGED <<phase, last, sent, issued, holds, lost, final>>
    BY <1>4 DEF Router!FlushTake
  <2>2. batch = <<>> /\ last = <<>> /\ phase \notin {"new", "flush", "ports", "closed"}
    BY <2>1 DEF RouterInv, RouterThreads
  <2>3. RouterTypes' /\ RouterThreads'
    BY <2>1, <2>2 DEF RouterInv, RouterTypes, RouterThreads
  <2>4. RouterOrder'
    BY <2>1, <2>2, EmptyIsOrdered DEF RouterInv, RouterOrder, UpTo
  <2>5. RouterKeeps'
    BY <2>1, <2>2 DEF RouterInv, RouterKeeps, Kept, Contains
  <2> QED BY <2>3, <2>4, <2>5 DEF RouterInv
<1>5. CASE Router!FlushSend
  <2>1. /\ flusher = "send" /\ batch # <<>> /\ Router!Deliver(Head(batch)) /\ batch' = Tail(batch)
        /\ UNCHANGED <<phase, flusher, queue, last, issued, holds, final>>
    BY <1>5 DEF Router!FlushSend
  <2>2. last = <<>> /\ phase \notin {"new", "flush", "ports", "closed"}
    BY <2>1 DEF RouterInv, RouterThreads
  <2>3. batch \in Seq(Notes) /\ Increasing(batch) /\ Precedes(sent, batch) /\ UpTo(batch, issued)
    BY DEF RouterInv, RouterTypes, RouterOrder
  <2>4. RouterTypes' /\ RouterThreads'
    BY <2>1, <2>2, <2>3, Delivered DEF RouterInv, RouterTypes, RouterThreads
  <2>5. RouterOrder'
    BY <2>1, <2>2, <2>3, Delivered, EmptyIsOrdered DEF RouterInv, RouterOrder
  <2>6. RouterKeeps'
    <3>1. \A k : Kept(k) => Kept(k)'
      BY <2>1, <2>3, Delivered DEF Kept
    <3> QED BY <2>1, <2>2, <3>1 DEF RouterInv, RouterKeeps
  <2> QED BY <2>4, <2>5, <2>6 DEF RouterInv
<1>6. CASE Router!CloseTake
  <2>1. /\ phase = "join" /\ phase' = "flush" /\ flusher \in {"none", "ended"}
        /\ last' = queue /\ queue' = <<>> /\ final' = issued
        /\ UNCHANGED <<flusher, batch, sent, issued, holds, lost>>
    BY <1>6 DEF Router!CloseTake, Router!Joined
  <2>2. batch = <<>> /\ last = <<>>
    BY <2>1 DEF RouterInv, RouterThreads
  <2>3. RouterTypes' /\ RouterThreads'
    BY <2>1, <2>2 DEF RouterInv, RouterTypes, RouterThreads
  <2>4. RouterOrder'
    BY <2>1, <2>2, EmptyIsOrdered DEF RouterInv, RouterOrder, UpTo
  <2>5. RouterKeeps'
    BY <2>1, <2>2 DEF RouterInv, RouterTypes, RouterKeeps, Kept, Contains, After
  <2> QED BY <2>3, <2>4, <2>5 DEF RouterInv
<1>7. CASE Router!CloseSend
  <2>1. /\ phase = "flush" /\ last # <<>> /\ Router!Deliver(Head(last)) /\ last' = Tail(last)
        /\ UNCHANGED <<phase, flusher, queue, batch, issued, holds, final>>
    BY <1>7 DEF Router!CloseSend
  <2>2. batch = <<>>
    BY <2>1 DEF RouterInv, RouterThreads
  <2>3. last \in Seq(Notes) /\ Increasing(last) /\ Precedes(sent, last) /\ UpTo(last, issued)
    BY DEF RouterInv, RouterTypes, RouterOrder
  <2>4. RouterTypes' /\ RouterThreads'
    BY <2>1, <2>2, <2>3, Delivered DEF RouterInv, RouterTypes, RouterThreads
  <2>5. RouterOrder'
    BY <2>1, <2>2, <2>3, Delivered, EmptyIsOrdered DEF RouterInv, RouterOrder
  <2>6. RouterKeeps'
    <3>1. \A k : Kept(k) => Kept(k)'
      BY <2>1, <2>3, Delivered DEF Kept
    <3> QED BY <2>1, <2>2, <3>1 DEF RouterInv, RouterKeeps
  <2> QED BY <2>4, <2>5, <2>6 DEF RouterInv
<1> QED
  BY <1>1, <1>2, <1>3, <1>4, <1>5, <1>6, <1>7 DEF Router!Next, Router!Flush, Router!Closing

LEMMA RouterShows ==
  ASSUME RouterInv
  PROVE  Router!NotesKeepOrder /\ Router!CloseDrains
<1>1. Router!NotesKeepOrder
  BY DEF RouterInv, RouterOrder, Increasing, Router!NotesKeepOrder
<1>2. ASSUME phase = "closed", NEW k \in 1..final
      PROVE  k \in lost \/ \E i \in DOMAIN sent : sent[i].id = k
  <2>1. batch = <<>> /\ last = <<>> /\ After(queue, final) /\ Kept(k)
    BY <1>2 DEF RouterInv, RouterTypes, RouterThreads, RouterKeeps
  <2>2. ~Contains(batch, k) /\ ~Contains(last, k)
    BY <2>1 DEF Contains
  <2>3. ~Contains(queue, k)
    BY <1>2, <2>1, IdsAreNumbers DEF Contains, After, RouterInv, RouterTypes
  <2> QED BY <2>1, <2>2, <2>3 DEF Kept, Contains
<1> QED BY <1>1, <1>2 DEF Router!CloseDrains

-----------------------------------------------------------------------------
(* Sequence numbers and boot markers.  Kept folded, so that the provers    *)
(* reason about sums and not about division.                               *)
Rest(a, m) == a % m

LEMMA Division ==
  ASSUME NEW m \in Nat \ {0}, NEW a \in Nat, NEW q \in Int, NEW r \in Int,
         q = a \div m, r = a % m
  PROVE  a = m * q + r /\ r \in 0..(m - 1)
OBVIOUS

LEMMA RestOf ==
  ASSUME NEW m \in Nat \ {0}, NEW a \in Nat
  PROVE  \E q \in Int : a = m * q + Rest(a, m) /\ Rest(a, m) \in 0..(m - 1)
<1>1. PICK q \in Int, r \in Int : q = a \div m /\ r = a % m
  OBVIOUS
<1>2. a = m * q + r /\ r \in 0..(m - 1)
  BY <1>1, Division
<1>3. Rest(a, m) = r
  BY <1>1 DEF Rest
<1> QED
  BY <1>2, <1>3

LEMMA RestIs ==
  ASSUME NEW m \in Nat \ {0}, NEW a \in Nat, NEW q \in Int, NEW r \in 0..(m - 1),
         a = m * q + r
  PROVE  Rest(a, m) = r
BY DEF Rest

LEMMA OneMore ==
  ASSUME NEW m \in Int, NEW q \in Int
  PROVE  m * (q + 1) = m * q + m
OBVIOUS

LEMMA RestOfGap ==
  ASSUME NEW m \in Nat \ {0}, NEW d \in (1 - m)..(m - 1)
  PROVE  Rest(d, m) = IF d < 0 THEN d + m ELSE d
BY DEF Rest

(* Less than the space apart, the rests are that far apart, going up.      *)
LEMMA GapUp ==
  ASSUME NEW m \in Nat \ {0}, NEW a \in Nat, NEW d \in 0..(m - 1)
  PROVE  /\ Rest(a, m) \in 0..(m - 1) /\ Rest(a + d, m) \in 0..(m - 1)
         /\ Rest(a + d, m) - Rest(a, m) \in {d, d - m}
<1>1. PICK q \in Int : a = m * q + Rest(a, m) /\ Rest(a, m) \in 0..(m - 1)
  BY RestOf
<1> DEFINE r == Rest(a, m)
<1>2. a = m * q + r /\ r \in 0..(m - 1)
  BY <1>1
<1> HIDE DEF r
<1>3. CASE r + d < m
  <2>1. a + d = m * q + (r + d) /\ a + d \in Nat /\ r + d \in 0..(m - 1)
    BY <1>2, <1>3
  <2>2. Rest(a + d, m) = r + d
    BY <2>1, RestIs
  <2> QED
    BY <1>2, <2>1, <2>2 DEF r
<1>4. CASE r + d >= m
  <2>1. m * (q + 1) = m * q + m /\ q + 1 \in Int
    BY OneMore
  <2>2. a + d = m * (q + 1) + (r + d - m) /\ a + d \in Nat /\ r + d - m \in 0..(m - 1)
    BY <1>2, <1>4, <2>1
  <2>3. Rest(a + d, m) = r + d - m
    BY <2>1, <2>2, RestIs
  <2> QED
    BY <1>2, <2>2, <2>3 DEF r
<1> QED
  BY <1>2, <1>3, <1>4

LEMMA GapOf ==
  ASSUME NEW m \in Nat \ {0}, NEW a \in Nat, NEW b \in Nat, a - b < m, b - a < m
  PROVE  /\ Rest(a, m) \in 0..(m - 1)
         /\ Rest(Rest(b, m) - Rest(a, m), m) = IF b < a THEN b - a + m ELSE b - a
         /\ a # b => Rest(a, m) # Rest(b, m)
<1>1. CASE a <= b
  <2>1. PICK d \in 0..(m - 1) : b = a + d
    <3>1. b - a \in 0..(m - 1) /\ b = a + (b - a)
      BY <1>1
    <3> QED BY <3>1
  <2>2. /\ Rest(a, m) \in 0..(m - 1) /\ Rest(b, m) \in 0..(m - 1)
        /\ Rest(b, m) - Rest(a, m) \in {d, d - m}
    BY <2>1, GapUp, Zenon
  <2>3. Rest(Rest(b, m) - Rest(a, m), m) = d
    BY <2>2, RestOfGap
  <2> QED
    BY <2>1, <2>2, <2>3
<1>2. CASE b < a
  <2>1. PICK d \in 1..(m - 1) : a = b + d
    <3>1. a - b \in 1..(m - 1) /\ a = b + (a - b)
      BY <1>2
    <3> QED BY <3>1
  <2>2. /\ Rest(a, m) \in 0..(m - 1) /\ Rest(b, m) \in 0..(m - 1)
        /\ Rest(a, m) - Rest(b, m) \in {d, d - m}
    <3>1. d \in 0..(m - 1)
      BY <2>1
    <3> QED
      BY <2>1, <3>1, GapUp, Zenon
  <2>3. Rest(b, m) - Rest(a, m) \in {-d, m - d}
    BY <2>2
  <2>4. Rest(Rest(b, m) - Rest(a, m), m) = m - d
    BY <2>2, <2>3, RestOfGap
  <2> QED
    BY <2>1, <2>2, <2>4
<1> QED
  BY <1>1, <1>2

-----------------------------------------------------------------------------
(* The record of a node.  Which fields it has, and what each operation of  *)
(* the registry does to those that the properties look at.                 *)
Shape(r) ==
  r = [known |-> r.known, lastSeen |-> r.lastSeen, lastStat |-> r.lastStat,
       lastSeq |-> r.lastSeq, seen |-> r.seen, missing |-> r.missing, streak |-> r.streak,
       stamps |-> r.stamps, uptime |-> r.uptime, reason |-> r.reason, marker |-> r.marker,
       rebootAt |-> r.rebootAt, status |-> r.status, changedAt |-> r.changedAt,
       events |-> r.events]
SameCounts(q, r) == q.lastSeq = r.lastSeq /\ q.seen = r.seen /\ q.missing = r.missing
SameBoot(q, r) ==
  q.uptime = r.uptime /\ q.reason = r.reason /\ q.marker = r.marker /\ q.rebootAt = r.rebootAt
SameNews(q, r) == q.status = r.status /\ q.events = r.events

(* The newest event about the status names it.                             *)
Tells(events, status) ==
  \A i \in DOMAIN events :
    (events[i] # "reboot" /\ \A j \in (i + 1)..Len(events) : events[j] = "reboot")
      => events[i] = status
Events == Seq(Reordered!Statuses \cup {"reboot"})
NewsOf(r) == r.events \in Events /\ Tells(r.events, r.status)

LEMMA EventsAdd ==
  ASSUME NEW r, Shape(r), r.events \in Events, NEW e \in Reordered!Statuses \cup {"reboot"}
  PROVE  LET q == Reordered!AppendEvent(r, e) IN
         /\ Shape(q) /\ SameCounts(q, r) /\ SameBoot(q, r) /\ q.status = r.status
         /\ q.events \in Events
         /\ e # "reboot" => Tells(q.events, e)
         /\ e = "reboot" /\ Tells(r.events, r.status) => Tells(q.events, r.status)
<1> DEFINE v == IF Len(r.events) = MaxEvents THEN Append(Tail(r.events), e)
                ELSE Append(r.events, e)
<1>1. Reordered!AppendEvent(r, e) = [r EXCEPT !.events = v]
  BY Zenon DEF Reordered!AppendEvent
<1>2. v \in Events /\ Len(v) \in Nat \ {0} /\ v[Len(v)] = e
  BY DEF Events, Reordered!RegistryAssumption
<1>3. ASSUME e = "reboot", Tells(r.events, r.status)
      PROVE  Tells(v, r.status)
  <2> SUFFICES ASSUME NEW i \in DOMAIN v, v[i] # "reboot",
                      \A j \in (i + 1)..Len(v) : v[j] = "reboot"
               PROVE  v[i] = r.status
    BY DEF Tells
  <2>1. i \in 1..(Len(v) - 1)
    BY <1>2, <1>3 DEF Events
  <2>2. CASE Len(r.events) # MaxEvents
    BY <1>3, <2>1, <2>2 DEF Tells, Events
  <2>3. CASE Len(r.events) = MaxEvents
    <3>1. /\ Len(v) = Len(r.events) /\ i + 1 \in DOMAIN r.events /\ v[i] = r.events[i + 1]
          /\ \A j \in 1..(Len(v) - 1) : v[j] = r.events[j + 1]
      BY <2>1, <2>3 DEF Events, Reordered!RegistryAssumption
    <3>2. \A j \in (i + 2)..Len(r.events) : r.events[j] = "reboot"
      <4> TAKE j \in (i + 2)..Len(r.events)
      <4>1. j - 1 \in (i + 1)..Len(v) /\ j - 1 \in 1..(Len(v) - 1) /\ (j - 1) + 1 = j
        BY <2>1, <3>1 DEF Events
      <4> QED BY <3>1, <4>1
    <3> QED BY <1>3, <3>1, <3>2 DEF Tells
  <2> QED BY <2>2, <2>3
<1>4. e # "reboot" => Tells(v, e)
  BY <1>2 DEF Tells, Events
<1> HIDE DEF v
<1>5. LET q == [r EXCEPT !.events = v] IN
      Shape(q) /\ SameCounts(q, r) /\ SameBoot(q, r) /\ q.status = r.status /\ q.events = v
  BY DEF Shape, SameCounts, SameBoot
<1> QED
  BY <1>1, <1>2, <1>3, <1>4, <1>5

LEMMA StatusIsOne ==
  ASSUME NEW r
  PROVE  Reordered!Status(r) \in Reordered!Statuses
BY DEF Reordered!Status, Reordered!Statuses

LEMMA Evaluated ==
  ASSUME NEW r, Shape(r), NewsOf(r)
  PROVE  LET q == Reordered!Evaluate(r) IN
         Shape(q) /\ SameCounts(q, r) /\ SameBoot(q, r) /\ NewsOf(q)
<1> DEFINE s == Reordered!Status(r)
           changed == r.changedAt = Reordered!None \/ s # r.status
           x == IF changed THEN clock ELSE r.changedAt
           q == [r EXCEPT !.status = s, !.changedAt = x]
<1>1. Reordered!Evaluate(r) = IF changed THEN Reordered!AppendEvent(q, s) ELSE q
  BY Zenon DEF Reordered!Evaluate
<1>2. s \in Reordered!Statuses /\ s # "reboot"
  BY StatusIsOne DEF Reordered!Statuses
<1>3. ~changed => s = r.status
  OBVIOUS
<1> HIDE DEF s, changed, x
<1>4. Shape(q) /\ SameCounts(q, r) /\ SameBoot(q, r) /\ q.status = s /\ q.events = r.events
  <2> DEFINE p == [r EXCEPT !.status = s]
  <2>1. Shape(p) /\ SameCounts(p, r) /\ SameBoot(p, r) /\ p.status = s /\ p.events = r.events
    BY DEF Shape, SameCounts, SameBoot
  <2>2. q = [p EXCEPT !.changedAt = x]
    BY Zenon
  <2> HIDE DEF p, q
  <2>3. Shape(q) /\ SameCounts(q, p) /\ SameBoot(q, p) /\ q.status = p.status
        /\ q.events = p.events
    BY <2>1, <2>2 DEF Shape, SameCounts, SameBoot
  <2> QED
    BY <2>1, <2>3 DEF SameCounts, SameBoot
<1> HIDE DEF q
<1>5. CASE changed
  <2> DEFINE a == Reordered!AppendEvent(q, s)
  <2>1. Shape(a) /\ SameCounts(a, q) /\ SameBoot(a, q) /\ a.status = s
        /\ a.events \in Events /\ Tells(a.events, s)
    BY <1>2, <1>4, EventsAdd DEF NewsOf
  <2> HIDE DEF a
  <2> QED
    BY <1>1, <1>4, <1>5, <2>1 DEF a, NewsOf, SameCounts, SameBoot
<1>6. CASE ~changed
  BY <1>1, <1>3, <1>4, <1>6 DEF NewsOf
<1> QED
  BY <1>5, <1>6

LEMMA Trimmed ==
  ASSUME NEW r, Shape(r)
  PROVE  LET q == Reordered!Trim(r) IN
         Shape(q) /\ SameCounts(q, r) /\ SameBoot(q, r) /\ SameNews(q, r)
<1> DEFINE v == SelectSeq(r.stamps, LAMBDA x : x[2] >= clock - Window)
<1>1. Reordered!Trim(r) = [r EXCEPT !.stamps = v]
  BY Zenon DEF Reordered!Trim
<1> HIDE DEF v
<1> QED
  BY <1>1 DEF Shape, SameCounts, SameBoot, SameNews

LEMMA Stamped ==
  ASSUME NEW r, Shape(r), NEW s
  PROVE  LET q == Reordered!Stamp(r, s) IN
         Shape(q) /\ SameCounts(q, r) /\ SameBoot(q, r) /\ SameNews(q, r)
<1> DEFINE v == Append(r.stamps, <<s, clock>>)
           q == [r EXCEPT !.stamps = v]
<1>1. Reordered!Stamp(r, s) = Reordered!Trim(q)
  BY Zenon DEF Reordered!Stamp
<1> HIDE DEF v
<1>2. Shape(q) /\ SameCounts(q, r) /\ SameBoot(q, r) /\ SameNews(q, r)
  BY DEF Shape, SameCounts, SameBoot, SameNews
<1> HIDE DEF q
<1> QED
  BY <1>1, <1>2, Trimmed DEF SameCounts, SameBoot, SameNews

Counted(r, a, b, c, d) ==
  [[[[r EXCEPT !.lastSeq = a] EXCEPT !.seen = b] EXCEPT !.missing = c] EXCEPT !.streak = d]
LEMMA Countered ==
  ASSUME NEW r, Shape(r), NEW a, NEW b, NEW c, NEW d
  PROVE  /\ Shape(Counted(r, a, b, c, d)) /\ Counted(r, a, b, c, d).lastSeq = a
         /\ Counted(r, a, b, c, d).seen = b /\ Counted(r, a, b, c, d).missing = c
         /\ SameBoot(Counted(r, a, b, c, d), r) /\ SameNews(Counted(r, a, b, c, d), r)
<1> DEFINE r1 == [r EXCEPT !.lastSeq = a]
           r2 == [r1 EXCEPT !.seen = b]
           r3 == [r2 EXCEPT !.missing = c]
           r4 == [r3 EXCEPT !.streak = d]
<1> USE DEF Shape, SameBoot, SameNews
<1>1. Shape(r1) /\ SameBoot(r1, r) /\ SameNews(r1, r) /\ r1.lastSeq = a
  OBVIOUS
<1> HIDE DEF r1
<1>2. Shape(r2) /\ SameBoot(r2, r) /\ SameNews(r2, r) /\ r2.lastSeq = a /\ r2.seen = b
  BY <1>1
<1> HIDE DEF r2
<1>3. /\ Shape(r3) /\ SameBoot(r3, r) /\ SameNews(r3, r)
      /\ r3.lastSeq = a /\ r3.seen = b /\ r3.missing = c
  BY <1>2
<1> HIDE DEF r3
<1>4. /\ Shape(r4) /\ SameBoot(r4, r) /\ SameNews(r4, r)
      /\ r4.lastSeq = a /\ r4.seen = b /\ r4.missing = c
  BY <1>3
<1> QED
  BY <1>4 DEF r1, r2, r3, Counted

(* What a packet's number does to the counts of its stream.                *)
Numbers == [Reordered!Streams -> Int]
CountsOf(r) == r.lastSeq \in Numbers /\ r.seen \in Numbers /\ r.missing \in Numbers
Counting(q, r, s, seq) ==
  LET delta == Rest(seq - r.lastSeq[s], SeqSpace)
      new == r.lastSeq[s] = -1
      newer == ~new /\ delta # 0 /\ ~(delta >= SeqSpace \div 2)
  IN /\ q.lastSeq = IF new \/ newer THEN [r.lastSeq EXCEPT ![s] = seq] ELSE r.lastSeq
     /\ q.seen = IF new \/ newer THEN [r.seen EXCEPT ![s] = @ + 1] ELSE r.seen
     /\ q.missing = IF newer THEN [r.missing EXCEPT ![s] = @ + delta - 1] ELSE r.missing

LEMMA LossUpdated ==
  ASSUME NEW r, Shape(r), NEW s, NEW seq
  PROVE  LET q == Reordered!UpdateSeqLoss(r, s, seq) IN
         Shape(q) /\ Counting(q, r, s, seq) /\ SameBoot(q, r) /\ SameNews(q, r)
<1> DEFINE q == Reordered!UpdateSeqLoss(r, s, seq)
           delta == Rest(seq - r.lastSeq[s], SeqSpace)
           a == [r.lastSeq EXCEPT ![s] = seq]
           b == [r.seen EXCEPT ![s] = @ + 1]
           c == [r.missing EXCEPT ![s] = @ + delta - 1]
<1>1. CASE r.lastSeq[s] = -1
  <2> DEFINE d == [r.streak EXCEPT ![s] = 1]
  <2>1. q = [r EXCEPT !.lastSeq = a, !.seen = b, !.streak = d]
    BY <1>1, Zenon DEF Reordered!UpdateSeqLoss, Reordered!None
  <2> HIDE DEF a, b, d
  <2>2. q = Counted(r, a, b, r.missing, d)
    BY <2>1 DEF Shape, Counted
  <2> HIDE DEF q
  <2>3. Shape(q) /\ q.lastSeq = a /\ q.seen = b /\ q.missing = r.missing
        /\ SameBoot(q, r) /\ SameNews(q, r)
    BY <2>2, Countered
  <2> QED
    BY <1>1, <2>3 DEF Counting, q, a, b
<1>2. CASE r.lastSeq[s] # -1 /\ (delta = 0 \/ delta >= SeqSpace \div 2)
  <2>1. q = r
    BY <1>2, Zenon DEF Reordered!UpdateSeqLoss, Reordered!None, Rest
  <2> QED
    BY <1>2, <2>1, Zenon DEF Counting, SameBoot, SameNews
<1>3. CASE r.lastSeq[s] # -1 /\ ~(delta = 0 \/ delta >= SeqSpace \div 2)
  <2> DEFINE d == [r.streak EXCEPT ![s] = IF delta > 1 THEN 1 ELSE @ + 1]
  <2>1. q = [r EXCEPT !.lastSeq = a, !.seen = b, !.missing = c, !.streak = d]
    BY <1>3, Zenon DEF Reordered!UpdateSeqLoss, Reordered!None, Rest
  <2> HIDE DEF a, b, c, d
  <2>2. q = Counted(r, a, b, c, d)
    BY <2>1 DEF Shape, Counted
  <2> HIDE DEF q
  <2>3. Shape(q) /\ q.lastSeq = a /\ q.seen = b /\ q.missing = c
        /\ SameBoot(q, r) /\ SameNews(q, r)
    BY <2>2, Countered
  <2> QED
    BY <1>3, <2>3, Zenon DEF Counting, q, a, b, c
<1> QED
  BY <1>1, <1>2, <1>3

LEMMA KnownIsOne ==
  ASSUME NEW r, Shape(r), NEW v
  PROVE  LET q == [r EXCEPT !.known = v] IN
         Shape(q) /\ SameCounts(q, r) /\ SameBoot(q, r) /\ SameNews(q, r)
BY DEF Shape, SameCounts, SameBoot, SameNews

(* One packet of each stream: the counts go on, the newest event tells the *)
(* status, and a STAT leaves what the next one is compared with.           *)
LEMMA EvtObserved ==
  ASSUME Shape(node), NewsOf(node), NEW p
  PROVE  LET q == Reordered!ObserveEvt(p) IN
         /\ Shape(q) /\ NewsOf(q) /\ SameBoot(q, node)
         /\ Counting(q, node, "evt", Rest(p.n, SeqSpace))
<1> DEFINE r0 == [node EXCEPT !.known = TRUE]
           r1 == [r0 EXCEPT !.lastSeen = clock]
           r2 == Reordered!UpdateSeqLoss(r1, "evt", Rest(p.n, SeqSpace))
           r3 == Reordered!Stamp(r2, "evt")
           q == Reordered!Evaluate(r3)
<1>1. Reordered!ObserveEvt(p) =
        Reordered!Evaluate(Reordered!Stamp(Reordered!UpdateSeqLoss(
          [node EXCEPT !.known = TRUE, !.lastSeen = clock], "evt", Rest(p.n, SeqSpace)), "evt"))
  BY Zenon DEF Reordered!ObserveEvt, Rest
<1>2. [node EXCEPT !.known = TRUE, !.lastSeen = clock] = r1
  BY DEF Shape
<1>3. Reordered!ObserveEvt(p) = q
  BY <1>1, <1>2, Zenon
<1>4. Shape(r0) /\ SameCounts(r0, node) /\ SameBoot(r0, node) /\ SameNews(r0, node)
  BY KnownIsOne
<1> HIDE DEF r0
<1>5. Shape(r1) /\ SameCounts(r1, node) /\ SameBoot(r1, node) /\ SameNews(r1, node)
  BY <1>4 DEF Shape, SameCounts, SameBoot, SameNews
<1> HIDE DEF r1
<1>6. /\ Shape(r2) /\ Counting(r2, r1, "evt", Rest(p.n, SeqSpace))
      /\ SameBoot(r2, r1) /\ SameNews(r2, r1)
  BY <1>5, LossUpdated
<1> HIDE DEF r2
<1>7. Shape(r3) /\ SameCounts(r3, r2) /\ SameBoot(r3, r2) /\ SameNews(r3, r2)
  BY <1>6, Stamped
<1> HIDE DEF r3
<1>8. NewsOf(r3)
  BY <1>5, <1>6, <1>7 DEF NewsOf, SameNews
<1>9. Shape(q) /\ SameCounts(q, r3) /\ SameBoot(q, r3) /\ NewsOf(q)
  BY <1>7, <1>8, Evaluated
<1> HIDE DEF q
<1>10. SameBoot(q, node)
  BY <1>5, <1>6, <1>7, <1>9 DEF SameBoot
<1>11. Counting(q, node, "evt", Rest(p.n, SeqSpace))
  BY <1>5, <1>6, <1>7, <1>9, Zenon DEF Counting, SameCounts
<1> QED
  BY <1>3, <1>9, <1>10, <1>11

LEMMA RebootUpdated ==
  ASSUME NEW r, Shape(r), NewsOf(r), NEW p
  PROVE  LET q == Reordered!UpdateReboot(r, p) IN
         /\ Shape(q) /\ NewsOf(q) /\ SameCounts(q, r) /\ q.marker = Rest(p.boot, Markers)
         /\ q.rebootAt = IF Reordered!RebootSeen(r, p) THEN clock ELSE r.rebootAt
<1> DEFINE saw == Reordered!RebootSeen(r, p)
           r0 == [r EXCEPT !.rebootAt = clock]
           r1 == IF saw THEN Reordered!AppendEvent(r0, "reboot") ELSE r
           m == Rest(p.boot, Markers)
           q == [r1 EXCEPT !.marker = m]
<1>1. Reordered!UpdateReboot(r, p) = q
  BY Zenon DEF Reordered!UpdateReboot, Rest
<1> HIDE DEF saw, m
<1>2. Shape(r0) /\ SameCounts(r0, r) /\ SameNews(r0, r) /\ r0.rebootAt = clock
  BY DEF Shape, SameCounts, SameNews
<1> HIDE DEF r0
<1>3. /\ Shape(r1) /\ NewsOf(r1) /\ SameCounts(r1, r)
      /\ r1.rebootAt = IF saw THEN clock ELSE r.rebootAt
  <2>1. CASE saw
    <3> DEFINE a == Reordered!AppendEvent(r0, "reboot")
    <3>1. r0.events \in Events /\ Tells(r0.events, r0.status)
      BY <1>2 DEF NewsOf, SameNews
    <3>2. /\ Shape(a) /\ SameCounts(a, r0) /\ SameBoot(a, r0) /\ a.status = r0.status
          /\ a.events \in Events /\ Tells(a.events, r0.status)
      BY <1>2, <3>1, EventsAdd
    <3> HIDE DEF a
    <3> QED
      BY <1>2, <2>1, <3>2 DEF a, NewsOf, SameCounts, SameBoot
  <2>2. CASE ~saw
    BY <2>2 DEF SameCounts
  <2> QED BY <2>1, <2>2
<1> HIDE DEF r1
<1>4. /\ Shape(q) /\ SameCounts(q, r1) /\ SameNews(q, r1) /\ q.marker = m
      /\ q.rebootAt = r1.rebootAt
  BY <1>3 DEF Shape, SameCounts, SameNews
<1> HIDE DEF q
<1>5. NewsOf(q) /\ SameCounts(q, r)
  BY <1>3, <1>4 DEF NewsOf, SameNews, SameCounts
<1> QED
  BY <1>1, <1>3, <1>4, <1>5 DEF saw, m

LEMMA StatObserved ==
  ASSUME Shape(node), NewsOf(node), NEW p
  PROVE  LET q == Reordered!ObserveStat(p) IN
         /\ Shape(q) /\ NewsOf(q) /\ Counting(q, node, "stat", Rest(p.n, SeqSpace))
         /\ q.uptime = p.uptime /\ q.reason = p.reason /\ q.marker = Rest(p.boot, Markers)
         /\ q.rebootAt = IF Reordered!RebootSeen(node, p) THEN clock ELSE node.rebootAt
<1> DEFINE r0 == [node EXCEPT !.known = TRUE]
           r1 == Reordered!UpdateReboot(r0, p)
           r2 == [r1 EXCEPT !.lastSeen = clock]
           r3 == [r2 EXCEPT !.lastStat = clock]
           r4 == [r3 EXCEPT !.uptime = p.uptime]
           r5 == [r4 EXCEPT !.reason = p.reason]
           r6 == Reordered!UpdateSeqLoss(r5, "stat", Rest(p.n, SeqSpace))
           r7 == Reordered!Stamp(r6, "stat")
           q == Reordered!Evaluate(r7)
<1>1. Reordered!ObserveStat(p) =
        Reordered!Evaluate(Reordered!Stamp(Reordered!UpdateSeqLoss(
          [r1 EXCEPT !.lastSeen = clock, !.lastStat = clock, !.uptime = p.uptime,
                     !.reason = p.reason], "stat", Rest(p.n, SeqSpace)), "stat"))
  BY Zenon DEF Reordered!ObserveStat, Rest
<1>2. /\ Shape(r0) /\ SameCounts(r0, node) /\ SameNews(r0, node) /\ SameBoot(r0, node)
  BY KnownIsOne
<1> HIDE DEF r0
<1>3. Reordered!RebootSeen(r0, p) = Reordered!RebootSeen(node, p)
  BY <1>2 DEF SameBoot, Reordered!RebootSeen
<1>4. NewsOf(r0)
  BY <1>2 DEF NewsOf, SameNews
<1>5. /\ Shape(r1) /\ NewsOf(r1) /\ SameCounts(r1, r0) /\ r1.marker = Rest(p.boot, Markers)
      /\ r1.rebootAt = IF Reordered!RebootSeen(r0, p) THEN clock ELSE r0.rebootAt
  BY <1>2, <1>4, RebootUpdated
<1> HIDE DEF r1
<1>6. [r1 EXCEPT !.lastSeen = clock, !.lastStat = clock, !.uptime = p.uptime,
                 !.reason = p.reason] = r5
  BY <1>5 DEF Shape
<1>7. Reordered!ObserveStat(p) = q
  BY <1>1, <1>6, Zenon
<1>8. /\ Shape(r2) /\ SameCounts(r2, r1) /\ SameNews(r2, r1) /\ SameBoot(r2, r1)
  BY <1>5 DEF Shape, SameCounts, SameNews, SameBoot
<1> HIDE DEF r2
<1>9. /\ Shape(r3) /\ SameCounts(r3, r1) /\ SameNews(r3, r1) /\ SameBoot(r3, r1)
  BY <1>8 DEF Shape, SameCounts, SameNews, SameBoot
<1> HIDE DEF r3
<1>10. /\ Shape(r4) /\ SameCounts(r4, r1) /\ SameNews(r4, r1)
       /\ r4.uptime = p.uptime /\ r4.marker = r1.marker /\ r4.rebootAt = r1.rebootAt
  BY <1>9 DEF Shape, SameCounts, SameNews, SameBoot
<1> HIDE DEF r4
<1>11. /\ Shape(r5) /\ SameCounts(r5, r1) /\ SameNews(r5, r1) /\ r5.reason = p.reason
       /\ r5.uptime = p.uptime /\ r5.marker = r1.marker /\ r5.rebootAt = r1.rebootAt
  BY <1>10 DEF Shape, SameCounts, SameNews
<1> HIDE DEF r5
<1>12. /\ Shape(r6) /\ Counting(r6, r5, "stat", Rest(p.n, SeqSpace))
       /\ SameBoot(r6, r5) /\ SameNews(r6, r5)
  BY <1>11, LossUpdated
<1> HIDE DEF r6
<1>13. Shape(r7) /\ SameCounts(r7, r6) /\ SameBoot(r7, r6) /\ SameNews(r7, r6)
  BY <1>12, Stamped
<1> HIDE DEF r7
<1>14. NewsOf(r7)
  BY <1>5, <1>11, <1>12, <1>13 DEF NewsOf, SameNews
<1>15. Shape(q) /\ SameCounts(q, r7) /\ SameBoot(q, r7) /\ NewsOf(q)
  BY <1>13, <1>14, Evaluated
<1> HIDE DEF q
<1>16. /\ q.uptime = p.uptime /\ q.reason = p.reason /\ q.marker = Rest(p.boot, Markers)
       /\ q.rebootAt = IF Reordered!RebootSeen(node, p) THEN clock ELSE node.rebootAt
  BY <1>2, <1>3, <1>5, <1>11, <1>12, <1>13, <1>15 DEF SameBoot
<1>17. SameCounts(r5, node) /\ SameCounts(q, r6)
  BY <1>2, <1>5, <1>11, <1>13, <1>15 DEF SameCounts
<1>18. Counting(q, node, "stat", Rest(p.n, SeqSpace))
  BY <1>12, <1>17, Zenon DEF Counting, SameCounts
<1> QED
  BY <1>7, <1>15, <1>16, <1>18

-----------------------------------------------------------------------------
(* The record of a node.                                                   *)
Packet == [stream : Reordered!Streams, boot : Nat, n : Nat, reason : Reasons \cup {1}, uptime : Nat]
NetTypes ==
  /\ clock \in Nat /\ boot \in Nat /\ bootedAt \in Nat /\ bootedAt <= clock
  /\ reason \in Reasons \cup {1}
  /\ next \in [Reordered!Streams -> Nat] /\ net \in Seq(Packet)
  /\ seenBoot \in Int /\ reboots \in [found : Int, real : Int]
  /\ first \in Numbers /\ newest \in Numbers
NodeInv == Shape(node) /\ NewsOf(node) /\ CountsOf(node)

(* Packets out of order, of a node that does not restart: a number that is *)
(* on its way, and the newest observed, are less than half the space       *)
(* behind the next, so that the one with the larger difference is older.   *)
Half == SeqSpace \div 2
Following(n, s) == n \in Nat /\ n < next[s] /\ next[s] - n <= Half
GapsAreCounted(s) ==
  IF newest[s] = -1
  THEN /\ node.lastSeq[s] = -1 /\ first[s] = -1
       /\ node.seen[s] + node.missing[s] = 0
  ELSE /\ Following(newest[s], s) /\ first[s] \in Nat
       /\ node.lastSeq[s] = Rest(newest[s], SeqSpace)
       /\ node.seen[s] + node.missing[s] = newest[s] - first[s] + 1
LossInv ==
  /\ boot = 0
  /\ \A i \in DOMAIN net : Following(net[i].n, net[i].stream)
  /\ \A s \in Reordered!Streams : GapsAreCounted(s)

(* Packets in order, of a node that restarts: boots and, within a boot,    *)
(* uptimes grow along the net from the STAT observed last to the node; a   *)
(* boot has one reason; and the boots are less than the markers apart.     *)
InTurn ==
  \A i, j \in DOMAIN net : i < j =>
    /\ net[i].boot <= net[j].boot
    /\ net[i].boot = net[j].boot =>
         net[i].uptime <= net[j].uptime /\ net[i].reason = net[j].reason
UntilNow ==
  \A i \in DOMAIN net :
    /\ net[i].boot <= boot /\ boot - net[i].boot < Markers
    /\ net[i].boot = boot => net[i].reason = reason /\ net[i].uptime <= clock - bootedAt
SinceHeard ==
  IF seenBoot = -1 THEN node.uptime = -1
  ELSE /\ seenBoot \in 0..boot /\ boot - seenBoot < Markers
       /\ node.uptime \in Nat /\ node.marker = Rest(seenBoot, Markers)
       /\ seenBoot = boot => node.reason = reason /\ node.uptime <= clock - bootedAt
       /\ \A i \in DOMAIN net :
            /\ seenBoot <= net[i].boot
            /\ seenBoot = net[i].boot =>
                 node.uptime <= net[i].uptime /\ node.reason = net[i].reason
RestartInv == InTurn /\ UntilNow /\ SinceHeard /\ reboots.found = reboots.real

RegistryInv ==
  /\ NetTypes /\ NodeInv
  /\ part = "reordered" => LossInv
  /\ part = "restarted" => RestartInv

-----------------------------------------------------------------------------
LEMMA RestIsLess ==
  ASSUME NEW m \in Nat \ {0}, NEW a \in Int
  PROVE  Rest(a, m) \in 0..(m - 1)
BY DEF Rest

LEMMA TheSameRecord ==
  ASSUME NEW r, NEW p
  PROVE  /\ Restarted!ObserveEvt(p) = Reordered!ObserveEvt(p)
         /\ Restarted!ObserveStat(p) = Reordered!ObserveStat(p)
         /\ Restarted!RebootSeen(r, p) = Reordered!RebootSeen(r, p)
         /\ Restarted!Evaluate(Restarted!Trim(r)) = Reordered!Evaluate(Reordered!Trim(r))
<1>1. ASSUME NEW q, NEW e PROVE Restarted!AppendEvent(q, e) = Reordered!AppendEvent(q, e)
  BY Zenon DEF Restarted!AppendEvent, Reordered!AppendEvent
<1>2. ASSUME NEW q PROVE Restarted!RebootSeen(q, p) = Reordered!RebootSeen(q, p)
  BY Zenon DEF Restarted!RebootSeen, Reordered!RebootSeen, Restarted!None, Reordered!None
<1>3. ASSUME NEW q PROVE Restarted!UpdateReboot(q, p) = Reordered!UpdateReboot(q, p)
  BY <1>1, <1>2, Zenon DEF Restarted!UpdateReboot, Reordered!UpdateReboot
<1>4. ASSUME NEW q PROVE Restarted!Status(q) = Reordered!Status(q)
  <2> USE Zenon DEF Restarted!None, Reordered!None
  <2>1. ASSUME NEW t PROVE Restarted!Age(t) = Reordered!Age(t)
    BY DEF Restarted!Age, Reordered!Age
  <2>2. ASSUME NEW s PROVE Restarted!Pps(q, s) = Reordered!Pps(q, s)
    BY DEF Restarted!Pps, Reordered!Pps, Restarted!Cardinality, Reordered!Cardinality,
       Restarted!IsFiniteSet, Reordered!IsFiniteSet
  <2>3. ASSUME NEW s, NEW n PROVE Restarted!LossReaches(q, s, n) = Reordered!LossReaches(q, s, n)
    BY DEF Restarted!LossReaches, Reordered!LossReaches
  <2>4. Restarted!RecentReboot(q) = Reordered!RecentReboot(q)
    BY <2>1 DEF Restarted!RecentReboot, Reordered!RecentReboot
  <2>5. Restarted!RecentStat(q) = Reordered!RecentStat(q)
    BY <2>1 DEF Restarted!RecentStat, Reordered!RecentStat
  <2>6. Restarted!EvtDegraded(q) = Reordered!EvtDegraded(q)
    <3>1. /\ Restarted!Pps(q, "evt") = Reordered!Pps(q, "evt")
          /\ Restarted!LossReaches(q, "evt", 50) = Reordered!LossReaches(q, "evt", 50)
      BY <2>2, <2>3
    <3> QED
      BY <3>1, SMT DEF Restarted!EvtDegraded, Reordered!EvtDegraded
  <2> QED
    BY <2>1, <2>3, <2>4, <2>5, <2>6, SMT DEF Restarted!Status, Reordered!Status
<1>5. ASSUME NEW q PROVE Restarted!Evaluate(q) = Reordered!Evaluate(q)
  BY <1>1, <1>4, Zenon DEF Restarted!Evaluate, Reordered!Evaluate, Restarted!None, Reordered!None
<1>6. ASSUME NEW q PROVE Restarted!Trim(q) = Reordered!Trim(q)
  BY Zenon DEF Restarted!Trim, Reordered!Trim
<1>7. ASSUME NEW q, NEW s PROVE Restarted!Stamp(q, s) = Reordered!Stamp(q, s)
  BY <1>6, Zenon DEF Restarted!Stamp, Reordered!Stamp
<1>8. ASSUME NEW q, NEW s, NEW n
      PROVE  Restarted!UpdateSeqLoss(q, s, n) = Reordered!UpdateSeqLoss(q, s, n)
  BY Zenon DEF Restarted!UpdateSeqLoss, Reordered!UpdateSeqLoss, Restarted!None, Reordered!None
<1> QED
  BY <1>2, <1>3, <1>5, <1>6, <1>7, <1>8, Zenon
  DEF Restarted!ObserveEvt, Reordered!ObserveEvt, Restarted!ObserveStat, Reordered!ObserveStat

LEMMA Removed ==
  ASSUME NEW S, NEW w \in Seq(S), NEW i \in DOMAIN w
  PROVE  LET v == Reordered!RemoveAt(w, i) IN
         /\ v \in Seq(S) /\ Len(v) = Len(w) - 1
         /\ \A j \in DOMAIN v : v[j] = w[IF j < i THEN j ELSE j + 1]
<1> DEFINE a == SubSeq(w, 1, i - 1)
           b == SubSeq(w, i + 1, Len(w))
           v == a \o b
<1>1. Len(w) \in Nat /\ i \in 1..Len(w) /\ \A j \in 1..Len(w) : w[j] \in S
  OBVIOUS
<1>2. a \in Seq(S) /\ Len(a) = i - 1 /\ \A j \in 1..(i - 1) : a[j] = w[j]
  BY <1>1
<1>3. b \in Seq(S) /\ Len(b) = Len(w) - i /\ \A j \in 1..(Len(w) - i) : b[j] = w[i + j]
  BY <1>1
<1> HIDE DEF a, b
<1>4. v \in Seq(S) /\ Len(v) = Len(w) - 1
  BY <1>1, <1>2, <1>3
<1>5. ASSUME NEW j \in DOMAIN v
      PROVE  v[j] = w[IF j < i THEN j ELSE j + 1]
  <2>1. j \in 1..(Len(w) - 1) /\ v[j] = IF j <= Len(a) THEN a[j] ELSE b[j - Len(a)]
    BY <1>1, <1>2, <1>3, <1>4, <1>5
  <2>2. CASE j < i
    BY <1>1, <1>2, <2>1, <2>2
  <2>3. CASE j >= i
    <3>1. j - (i - 1) \in 1..(Len(w) - i) /\ i + (j - (i - 1)) = j + 1
      BY <1>1, <2>1, <2>3
    <3>2. ~(j <= Len(a)) /\ j - Len(a) = j - (i - 1)
      BY <1>1, <1>2, <2>1, <2>3
    <3>3. v[j] = b[j - (i - 1)] /\ b[j - (i - 1)] = w[i + (j - (i - 1))]
      BY <1>3, <2>1, <3>1, <3>2
    <3>4. w[i + (j - (i - 1))] = w[j + 1] /\ ~(j < i)
      BY <1>1, <2>1, <2>3, <3>1
    <3> QED BY <3>3, <3>4, Zenon
  <2> QED BY <1>1, <2>1, <2>2, <2>3
<1> QED
  BY <1>4, <1>5 DEF Reordered!RemoveAt, a, b

(* What observing the i-th packet on the net does, whichever part it is.   *)
Counted1(i) == reboots.found + (IF node'.rebootAt = clock /\ Reordered!RebootSeen(node, net[i]) THEN 1 ELSE 0)
Real1(i) ==
  reboots.real + (IF seenBoot = -1 THEN IF net[i].uptime <= LowUptime THEN 1 ELSE 0
                  ELSE IF net[i].boot # seenBoot THEN 1 ELSE 0)
Observes(i) ==
  LET p == net[i]
      s == p.stream IN
  /\ i \in DOMAIN net /\ net' = Reordered!RemoveAt(net, i)
  /\ node' = IF s = "evt" THEN Reordered!ObserveEvt(p) ELSE Reordered!ObserveStat(p)
  /\ first' = IF first[s] = -1 THEN [first EXCEPT ![s] = p.n] ELSE first
  /\ newest' = IF p.n > newest[s] THEN [newest EXCEPT ![s] = p.n] ELSE newest
  /\ seenBoot' = IF s = "stat" THEN p.boot ELSE seenBoot
  /\ reboots' = IF s = "evt" THEN reboots ELSE [found |-> Counted1(i), real |-> Real1(i)]
  /\ UNCHANGED <<clock, boot, bootedAt, reason, next, rSent>>

LEMMA BothObserve ==
  /\ Reordered!Observe => \E i \in DOMAIN net : Observes(i)
  /\ Restarted!Observe => Observes(1)
<1>1. ASSUME Reordered!Observe PROVE \E i \in DOMAIN net : Observes(i)
  BY <1>1, Zenon DEF Reordered!Observe, Observes, Counted1, Real1,
     Reordered!None, Reordered!nodeVars
<1>2. ASSUME Restarted!Observe PROVE Observes(1)
  BY <1>2, TheSameRecord, Zenon DEF Restarted!Observe, Observes, Counted1, Real1, Restarted!None,
     Restarted!nodeVars, Restarted!RemoveAt, Reordered!RemoveAt
<1> QED BY <1>1, <1>2

LEMMA RegistryConstants ==
  /\ SeqSpace \in Nat \ {0} /\ Half \in Nat /\ Half + Half = SeqSpace /\ Half > 0
  /\ Markers \in Nat \ {0} /\ MaxEvents \in Nat \ {0}
  /\ FirstSeqs \subseteq 0..(SeqSpace - 1)
BY DEF Reordered!RegistryAssumption, Half

LEMMA RegistryStarts ==
  ASSUME Reordered!Init \/ Restarted!Init
  PROVE  RegistryInv
<1> DEFINE blank == Reordered!Blank
<1>1. /\ clock = 0 /\ boot = 0 /\ bootedAt = 0 /\ reason \in Reasons \cup {1}
      /\ next \in [Reordered!Streams -> FirstSeqs] /\ net = <<>> /\ node = blank
      /\ seenBoot = -1 /\ reboots = [found |-> 0, real |-> 0]
      /\ first = [s \in Reordered!Streams |-> -1] /\ newest = first
  BY DEF Reordered!Init, Restarted!Init, Reordered!Streams, Restarted!Streams, Reordered!Blank,
     Restarted!Blank, Reordered!None, Restarted!None
<1>2. NetTypes
  <2>1. next \in [Reordered!Streams -> Nat]
    <3>1. FirstSeqs \subseteq Nat
      BY RegistryConstants
    <3> QED BY <1>1, <3>1
  <2>2. net \in Seq(Packet) /\ reboots \in [found : Int, real : Int]
        /\ first \in Numbers /\ newest \in Numbers
    BY <1>1 DEF Numbers
  <2> QED
    BY <1>1, <2>1, <2>2 DEF NetTypes
<1>3. /\ Shape(blank) /\ blank.events = <<>> /\ blank.uptime = -1
      /\ blank.lastSeq = [s \in Reordered!Streams |-> -1]
      /\ blank.seen = [s \in Reordered!Streams |-> 0]
      /\ blank.missing = [s \in Reordered!Streams |-> 0]
  BY DEF Reordered!Blank, Reordered!None, Shape
<1> HIDE DEF blank
<1>4. NodeInv
  BY <1>1, <1>3 DEF NodeInv, NewsOf, Events, Tells, CountsOf, Numbers
<1>5. LossInv
  BY <1>1, <1>3 DEF LossInv, GapsAreCounted
<1>6. RestartInv
  BY <1>1, <1>3 DEF RestartInv, InTurn, UntilNow, SinceHeard
<1> QED
  BY <1>2, <1>4, <1>5, <1>6 DEF RegistryInv

-----------------------------------------------------------------------------
(* The network and the node, and the readers of snapshots.                 *)
Sends(s) ==
  /\ s \in Reordered!Streams
  /\ \A i \in DOMAIN net : net[i].stream = s => next[s] - net[i].n < Half
  /\ newest[s] # -1 => next[s] - newest[s] < Half
  /\ net' = Append(net, [stream |-> s, boot |-> boot, n |-> next[s], reason |-> reason,
                         uptime |-> clock - bootedAt])
  /\ next' = [next EXCEPT ![s] = @ + 1]
  /\ UNCHANGED <<clock, boot, bootedAt, reason, node, seenBoot, reboots, first, newest>>
Restarts ==
  /\ \A i \in DOMAIN net : boot + 1 - net[i].boot < Markers
  /\ seenBoot # -1 => boot + 1 - seenBoot < Markers
  /\ boot' = boot + 1 /\ bootedAt' = clock /\ reason' \in Reasons \cup {1}
  /\ next' = [s \in Reordered!Streams |-> 0]
  /\ UNCHANGED <<clock, net, node, seenBoot, reboots, first, newest>>
Loses1 ==
  /\ \E i \in DOMAIN net : net' = Reordered!RemoveAt(net, i)
  /\ UNCHANGED <<clock, boot, bootedAt, reason, next, node, seenBoot, reboots, first, newest>>
Ticks ==
  /\ clock' = clock + 1
  /\ UNCHANGED <<boot, bootedAt, reason, next, net, node, seenBoot, reboots, first, newest>>
Refreshes ==
  /\ node' = Reordered!Evaluate(Reordered!Trim(node))
  /\ UNCHANGED <<clock, boot, bootedAt, reason, next, net, seenBoot, reboots, first, newest>>
Quietly == (\E s \in Reordered!Streams : Sends(s)) \/ Loses1 \/ Ticks \/ Refreshes

LEMMA RegistrySteps ==
  /\ Reordered!Next => Quietly \/ boot < 0 \/ (\E i \in DOMAIN net : Observes(i))
  /\ Restarted!Next => Quietly \/ Restarts \/ Observes(1)
<1> USE DEF Reordered!None, Restarted!None, Reordered!nodeVars, Restarted!nodeVars,
            Reordered!history, Restarted!history, Half
<1>1. Reordered!Streams = Restarted!Streams
  BY DEF Reordered!Streams, Restarted!Streams
<1>2. ASSUME NEW s \in Reordered!Streams, Reordered!Send(s) \/ Restarted!Send(s) PROVE Sends(s)
  BY <1>2 DEF Reordered!Send, Restarted!Send, Reordered!Near, Restarted!Near, Sends
<1>3. ASSUME Reordered!Lose \/ Restarted!Lose PROVE Loses1
  BY <1>3, Zenon DEF Reordered!Lose, Restarted!Lose, Loses1, Reordered!RemoveAt, Restarted!RemoveAt
<1>4. ASSUME Reordered!Tick \/ Restarted!Tick PROVE Ticks
  BY <1>4 DEF Reordered!Tick, Restarted!Tick, Ticks
<1>5. ASSUME Reordered!Refresh \/ Restarted!Refresh PROVE Refreshes
  BY <1>5, TheSameRecord, Zenon DEF Reordered!Refresh, Restarted!Refresh, Refreshes
<1>6. ASSUME Restarted!Restart PROVE Restarts
  BY <1>1, <1>6 DEF Restarted!Restart, Restarted!Marked, Restarts
<1>7. ASSUME Reordered!Restart PROVE boot < 0
  BY <1>7 DEF Reordered!Restart
<1> QED
  BY <1>1, <1>2, <1>3, <1>4, <1>5, <1>6, <1>7, BothObserve
  DEF Reordered!Next, Restarted!Next, Quietly

(* What an observation does to the record, in either stream.               *)
LEMMA ObservedRecord ==
  ASSUME NetTypes, NodeInv, NEW i, Observes(i)
  PROVE  /\ i \in DOMAIN net /\ net[i] \in Packet
         /\ Shape(node') /\ NewsOf(node')
         /\ Counting(node', node, net[i].stream, Rest(net[i].n, SeqSpace))
         /\ net[i].stream = "evt" => SameBoot(node', node)
         /\ net[i].stream = "stat" =>
              /\ node'.uptime = net[i].uptime /\ node'.reason = net[i].reason
              /\ node'.marker = Rest(net[i].boot, Markers)
              /\ Reordered!RebootSeen(node, net[i]) => node'.rebootAt = clock
<1>1. i \in DOMAIN net /\ net[i] \in Packet /\ net[i].stream \in {"evt", "stat"}
  <2>1. i \in DOMAIN net /\ net[i] \in Packet
    BY DEF Observes, NetTypes
  <2> QED
    BY <2>1 DEF Packet, Reordered!Streams
<1>2. CASE net[i].stream = "evt"
  <2>1. node' = Reordered!ObserveEvt(net[i])
    BY <1>2 DEF Observes
  <2> QED
    BY <1>1, <1>2, <2>1, EvtObserved DEF NodeInv
<1>3. CASE net[i].stream = "stat"
  <2>1. node' = Reordered!ObserveStat(net[i])
    BY <1>3 DEF Observes
  <2> QED
    BY <1>1, <1>3, <2>1, StatObserved DEF NodeInv
<1> QED
  BY <1>1, <1>2, <1>3

LEMMA RefreshedRecord ==
  ASSUME NodeInv
  PROVE  LET q == Reordered!Evaluate(Reordered!Trim(node)) IN
         Shape(q) /\ SameCounts(q, node) /\ SameBoot(q, node) /\ NewsOf(q)
<1> DEFINE t == Reordered!Trim(node)
           q == Reordered!Evaluate(t)
<1>1. Shape(t) /\ SameCounts(t, node) /\ SameBoot(t, node) /\ SameNews(t, node)
  BY Trimmed DEF NodeInv
<1> HIDE DEF t
<1>2. NewsOf(t)
  BY <1>1 DEF SameNews, NewsOf, NodeInv
<1>3. Shape(q) /\ SameCounts(q, t) /\ SameBoot(q, t) /\ NewsOf(q)
  BY <1>1, <1>2, Evaluated
<1> HIDE DEF q
<1>4. Shape(q) /\ SameCounts(q, node) /\ SameBoot(q, node) /\ NewsOf(q)
  BY <1>1, <1>3 DEF SameCounts, SameBoot
<1> QED
  BY <1>4 DEF q, t

LEMMA NodeKeeps ==
  ASSUME NetTypes, NodeInv, Quietly \/ Restarts \/ \E i \in DOMAIN net : Observes(i)
  PROVE  NetTypes' /\ NodeInv'
<1> USE DEF NetTypes
<1>1. ASSUME NEW s \in Reordered!Streams, Sends(s) PROVE NetTypes' /\ NodeInv'
  <2>1. [stream |-> s, boot |-> boot, n |-> next[s], reason |-> reason,
         uptime |-> clock - bootedAt] \in Packet
    BY DEF Packet
  <2>2. net' \in Seq(Packet) /\ next' \in [Reordered!Streams -> Nat]
    BY <1>1, <2>1 DEF Sends
  <2> QED
    BY <1>1, <2>2 DEF Sends, NodeInv, CountsOf, NewsOf
<1>2. CASE Loses1
  <2>1. net' \in Seq(Packet)
    BY <1>2, Removed DEF Loses1
  <2> QED
    BY <1>2, <2>1 DEF Loses1, NodeInv
<1>3. CASE Ticks \/ Restarts
  <2>1. node' = node /\ net' = net
    BY <1>3 DEF Ticks, Restarts
  <2>2. NodeInv'
    BY <2>1 DEF NodeInv
  <2>3. NetTypes'
    <3>1. CASE Ticks
      BY <3>1 DEF Ticks
    <3>2. CASE Restarts
      BY <3>2 DEF Restarts
    <3> QED BY <1>3, <3>1, <3>2
  <2> QED BY <2>2, <2>3
<1>4. CASE Refreshes
  <2>1. Shape(node') /\ SameCounts(node', node) /\ NewsOf(node')
    BY <1>4, RefreshedRecord DEF Refreshes
  <2>2. NodeInv'
    BY <2>1 DEF NodeInv, CountsOf, SameCounts
  <2> QED
    BY <1>4, <2>2 DEF Refreshes
<1>5. ASSUME NEW i \in DOMAIN net, Observes(i) PROVE NetTypes' /\ NodeInv'
  <2> DEFINE p == net[i]
             s == p.stream
             n == Rest(p.n, SeqSpace)
             delta == Rest(n - node.lastSeq[s], SeqSpace)
  <2>1. /\ p \in Packet /\ Shape(node') /\ NewsOf(node') /\ Counting(node', node, s, n)
    BY <1>5, ObservedRecord
  <2>2. s \in Reordered!Streams /\ p.n \in Nat /\ p.boot \in Nat /\ n \in Int /\ delta \in Int
    <3>1. s \in Reordered!Streams /\ p.n \in Nat /\ p.boot \in Nat
      BY <2>1 DEF Packet
    <3>2. ASSUME NEW a \in Int PROVE Rest(a, SeqSpace) \in Int
      BY RestIsLess, RegistryConstants
    <3>3. n \in Int
      <4>1. p.n \in Int
        BY <3>1
      <4> QED BY <3>2, <4>1, Zenon
    <3> HIDE DEF n
    <3>4. n - node.lastSeq[s] \in Int
      BY <3>1, <3>3 DEF NodeInv, CountsOf, Numbers
    <3>5. delta \in Int
      BY <3>2, <3>4, Zenon
    <3> QED
      BY <3>1, <3>3, <3>5, Zenon
  <2> HIDE DEF n, delta
  <2>3. CountsOf(node')
    <3>1. node.lastSeq \in Numbers /\ node.seen \in Numbers /\ node.missing \in Numbers
      BY DEF NodeInv, CountsOf
    <3>2. /\ node'.lastSeq \in {node.lastSeq, [node.lastSeq EXCEPT ![s] = n]}
          /\ node'.seen \in {node.seen, [node.seen EXCEPT ![s] = @ + 1]}
          /\ node'.missing \in {node.missing, [node.missing EXCEPT ![s] = @ + delta - 1]}
      BY <2>1, Zenon DEF Counting, delta
    <3>3. ASSUME NEW f \in Numbers, NEW e \in Int PROVE [f EXCEPT ![s] = e] \in Numbers
      BY <2>2 DEF Numbers
    <3>4. node.seen[s] + 1 \in Int /\ node.missing[s] + delta - 1 \in Int
      BY <2>2, <3>1 DEF Numbers
    <3>5. node'.lastSeq \in Numbers
      <4>1. n \in Int /\ node.lastSeq \in Numbers
        BY <2>2, <3>1
      <4>2. [node.lastSeq EXCEPT ![s] = n] \in Numbers
        BY <3>3, <4>1, Zenon
      <4> QED BY <3>2, <4>1, <4>2, Zenon
    <3>6. node'.seen \in Numbers
      <4>1. [node.seen EXCEPT ![s] = @ + 1] \in Numbers
        BY <2>2, <3>1, <3>3, <3>4
      <4> QED BY <3>1, <3>2, <4>1
    <3>7. node'.missing \in Numbers
      <4>1. [node.missing EXCEPT ![s] = @ + delta - 1] \in Numbers
        BY <2>2, <3>1, <3>3, <3>4
      <4> QED BY <3>1, <3>2, <4>1
    <3> QED
      BY <3>5, <3>6, <3>7 DEF CountsOf
  <2>4. net' \in Seq(Packet)
    BY <1>5, Removed DEF Observes
  <2>5. first' \in Numbers /\ newest' \in Numbers /\ seenBoot' \in Int
    BY <1>5, <2>2 DEF Observes, Numbers
  <2>6. reboots' \in [found : Int, real : Int]
    BY <1>5 DEF Observes, Counted1, Real1
  <2> QED
    BY <1>5, <2>1, <2>3, <2>4, <2>5, <2>6 DEF Observes, NodeInv
<1> QED
  BY <1>1, <1>2, <1>3, <1>4, <1>5 DEF Quietly

-----------------------------------------------------------------------------
(* A number that is on its way, and the newest observed, are less than     *)
(* half the space apart, so that their rests tell which is older.          *)
LEMMA LossKeeps ==
  ASSUME NetTypes, NodeInv, LossInv, Quietly \/ \E i \in DOMAIN net : Observes(i)
  PROVE  LossInv'
<1> DEFINE Behind(n, s) == n \in Nat /\ n < next'[s] /\ next'[s] - n <= Half
<1>1. /\ next \in [Reordered!Streams -> Nat] /\ net \in Seq(Packet) /\ boot = 0
      /\ \A i \in DOMAIN net : net[i] \in Packet /\ Following(net[i].n, net[i].stream)
      /\ \A s \in Reordered!Streams : GapsAreCounted(s)
  BY DEF NetTypes, LossInv
<1>2. ASSUME NEW s \in Reordered!Streams, Sends(s) PROVE LossInv'
  <2>1. next[s] \in Nat /\ next'[s] = next[s] + 1
        /\ \A t \in Reordered!Streams : t # s => next'[t] = next[t]
    BY <1>1, <1>2 DEF Sends
  <2>2. ASSUME NEW t \in Reordered!Streams, NEW n, Following(n, t),
               t = s => next[s] - n < Half
        PROVE  Behind(n, t)
    <3>1. CASE t = s
      BY <2>1, <2>2, <3>1, RegistryConstants DEF Following
    <3>2. CASE t # s
      BY <2>1, <2>2, <3>2 DEF Following
    <3> QED BY <3>1, <3>2
  <2>3. ASSUME NEW j \in DOMAIN net' PROVE Behind(net'[j].n, net'[j].stream)
    <3>1. CASE j \in DOMAIN net
      <4>1. net'[j] = net[j] /\ net[j].stream \in Reordered!Streams
        BY <1>1, <1>2, <3>1 DEF Sends, Packet
      <4>2. net[j].stream = s => next[s] - net[j].n < Half
        BY <1>2, <3>1 DEF Sends
      <4> QED
        BY <1>1, <2>2, <3>1, <4>1, <4>2, Zenon
    <3>2. CASE j \notin DOMAIN net
      <4>1. net'[j].n = next[s] /\ net'[j].stream = s
        BY <1>1, <1>2, <3>2 DEF Sends
      <4> QED
        BY <2>1, <4>1, RegistryConstants
    <3> QED BY <3>1, <3>2
  <2>4. ASSUME NEW t \in Reordered!Streams PROVE GapsAreCounted(t)'
    <3>1. UNCHANGED <<node, first, newest>>
      BY <1>2 DEF Sends
    <3>2. CASE newest[t] = -1
      BY <1>1, <3>1, <3>2 DEF GapsAreCounted
    <3>3. CASE newest[t] # -1
      <4>1. Behind(newest[t], t)
        <5>1. Following(newest[t], t)
          BY <1>1, <3>3 DEF GapsAreCounted
        <5>2. t = s => next[s] - newest[t] < Half
          BY <1>2, <3>3 DEF Sends
        <5> QED BY <2>2, <5>1, <5>2, Zenon
      <4> QED
        BY <1>1, <3>1, <3>3, <4>1 DEF GapsAreCounted, Following
    <3> QED BY <3>2, <3>3
  <2>5. boot' = 0
    BY <1>1, <1>2 DEF Sends
  <2> QED
    BY <2>3, <2>4, <2>5 DEF LossInv, Following
<1>3. ASSUME NEW i \in DOMAIN net, net' = Reordered!RemoveAt(net, i), UNCHANGED <<next, boot>>,
             \A s \in Reordered!Streams : GapsAreCounted(s)'
      PROVE  LossInv'
  <2>1. ASSUME NEW j \in DOMAIN net' PROVE Following(net'[j].n, net'[j].stream)
    <3>1. \E k \in DOMAIN net : net'[j] = net[k]
      <4>1. /\ Len(net') = Len(net) - 1 /\ net' \in Seq(Packet)
            /\ net'[j] = net[IF j < i THEN j ELSE j + 1]
        BY <1>1, <1>3, Removed
      <4>2. (IF j < i THEN j ELSE j + 1) \in DOMAIN net
        BY <1>1, <4>1
      <4> QED BY <4>1, <4>2
    <3> QED BY <1>1, <3>1
  <2> QED
    BY <1>1, <1>3, <2>1 DEF LossInv, Following
<1>4. CASE Loses1
  <2>1. PICK i \in DOMAIN net : net' = Reordered!RemoveAt(net, i)
    BY <1>4 DEF Loses1
  <2>2. UNCHANGED <<next, boot, node, first, newest>>
    BY <1>4 DEF Loses1
  <2>3. \A s \in Reordered!Streams : GapsAreCounted(s)'
    BY <1>1, <2>2 DEF GapsAreCounted, Following
  <2> QED
    BY <1>3, <2>1, <2>2, <2>3
<1>5. CASE Ticks
  BY <1>1, <1>5 DEF Ticks, LossInv, GapsAreCounted, Following
<1>6. CASE Refreshes
  <2>1. SameCounts(node', node)
    BY <1>6, RefreshedRecord DEF Refreshes
  <2>2. UNCHANGED <<next, net, boot, first, newest>>
    BY <1>6 DEF Refreshes
  <2> QED
    BY <1>1, <2>1, <2>2 DEF LossInv, GapsAreCounted, Following, SameCounts
<1>7. ASSUME NEW i \in DOMAIN net, Observes(i) PROVE LossInv'
  <2>0. PICK s, b : s = net[i].stream /\ b = net[i].n
    OBVIOUS
  <2> DEFINE a == newest[s]
             n == Rest(b, SeqSpace)
             delta == Rest(n - node.lastSeq[s], SeqSpace)
  <2>1. /\ s \in Reordered!Streams /\ Following(b, s) /\ GapsAreCounted(s)
        /\ Counting(node', node, s, n)
    BY <1>1, <1>7, <2>0, ObservedRecord DEF Packet
  <2>2. /\ node.lastSeq \in Numbers /\ node.seen \in Numbers /\ node.missing \in Numbers
        /\ first \in Numbers /\ newest \in Numbers
        /\ next[s] \in Nat /\ b \in Nat
    BY <1>1, <2>1 DEF NodeInv, CountsOf, NetTypes, Following
  <2>3. /\ first' = IF first[s] = -1 THEN [first EXCEPT ![s] = b] ELSE first
        /\ newest' = IF b > newest[s] THEN [newest EXCEPT ![s] = b] ELSE newest
        /\ UNCHANGED <<next, boot>> /\ net' = Reordered!RemoveAt(net, i)
    BY <1>7, <2>0 DEF Observes
  <2>4. n \in 0..(SeqSpace - 1) /\ n \in Nat
    <3>1. n \in 0..(SeqSpace - 1)
      BY <2>2, RestIsLess, RegistryConstants
    <3> QED BY <3>1, RegistryConstants
  <2>5. GapsAreCounted(s)'
    <3>1. CASE a = -1
      <4>1. /\ node.lastSeq[s] = -1 /\ node.seen[s] + node.missing[s] = 0 /\ first[s] = -1
        BY <2>1, <3>1 DEF GapsAreCounted
      <4>2. /\ node'.lastSeq = [node.lastSeq EXCEPT ![s] = n]
            /\ node'.seen = [node.seen EXCEPT ![s] = node.seen[s] + 1]
            /\ node'.missing = node.missing
        BY <2>1, <4>1 DEF Counting
      <4>3. /\ node'.lastSeq[s] = n /\ node'.seen[s] = node.seen[s] + 1
            /\ node'.missing[s] = node.missing[s]
        BY <2>1, <2>2, <4>2 DEF Numbers
      <4>4. first'[s] = b /\ newest'[s] = b
        BY <2>1, <2>2, <2>3, <3>1, <4>1 DEF Numbers
      <4>5. node'.seen[s] + node'.missing[s] = 1
        BY <2>1, <2>2, <4>1, <4>3 DEF Numbers
      <4> QED
        BY <2>1, <2>2, <2>3, <4>3, <4>4, <4>5 DEF GapsAreCounted, Following
    <3>2. CASE a # -1
      <4>1. /\ Following(a, s) /\ first[s] \in Nat
            /\ node.lastSeq[s] = Rest(a, SeqSpace)
            /\ node.seen[s] + node.missing[s] = a - first[s] + 1
        BY <2>1, <3>2 DEF GapsAreCounted
      <4>2. /\ a \in Nat /\ a - b < Half /\ b - a < Half /\ a - b < SeqSpace /\ b - a < SeqSpace
        BY <2>1, <2>2, <4>1, RegistryConstants DEF Following
      <4>3. /\ Rest(a, SeqSpace) \in 0..(SeqSpace - 1)
            /\ delta = IF b < a THEN b - a + SeqSpace ELSE b - a
        <5>1. SeqSpace \in Nat \ {0}
          BY RegistryConstants
        <5>2. /\ Rest(a, SeqSpace) \in 0..(SeqSpace - 1)
              /\ Rest(n - Rest(a, SeqSpace), SeqSpace) = IF b < a THEN b - a + SeqSpace ELSE b - a
          BY <2>2, <4>2, <5>1, GapOf
        <5> QED BY <4>1, <5>2
      <4>4. first' = first
        BY <2>3, <4>1
      <4>5. node.lastSeq[s] # -1
        BY <4>1, <4>3, RegistryConstants
      <4> HIDE DEF n, a
      <4>6. CASE b > a
        <5>1. delta = b - a /\ delta # 0 /\ ~(delta >= SeqSpace \div 2)
          BY <2>2, <4>2, <4>3, <4>6, RegistryConstants DEF Half
        <5>2. /\ node'.lastSeq = [node.lastSeq EXCEPT ![s] = n]
              /\ node'.seen = [node.seen EXCEPT ![s] = node.seen[s] + 1]
              /\ node'.missing = [node.missing EXCEPT ![s] = node.missing[s] + delta - 1]
          BY <2>1, <4>5, <5>1 DEF Counting
        <5> HIDE DEF delta
        <5>3. /\ node'.lastSeq[s] = n /\ node'.seen[s] = node.seen[s] + 1
              /\ node'.missing[s] = node.missing[s] + delta - 1
          BY <2>1, <2>2, <5>2 DEF Numbers
        <5>4. newest'[s] = b
          BY <2>1, <2>2, <2>3, <4>6 DEF Numbers, a
        <5>5. node.seen[s] \in Int /\ node.missing[s] \in Int
          BY <2>1, <2>2 DEF Numbers
        <5>6. node'.seen[s] + node'.missing[s] = b - first[s] + 1
          BY <2>2, <4>1, <4>2, <5>1, <5>3, <5>5
        <5>7. node'.lastSeq[s] = Rest(b, SeqSpace)
          BY <5>3 DEF n
        <5> QED
          BY <2>1, <2>2, <2>3, <4>1, <4>4, <5>4, <5>6, <5>7 DEF GapsAreCounted, Following
      <4>7. CASE ~(b > a)
        <5>1. delta = 0 \/ delta >= SeqSpace \div 2
          BY <2>2, <4>2, <4>3, <4>7, RegistryConstants DEF Half
        <5>2. /\ node'.lastSeq = node.lastSeq /\ node'.seen = node.seen
              /\ node'.missing = node.missing
          BY <2>1, <4>5, <5>1 DEF Counting
        <5>3. newest' = newest
          BY <2>3, <4>7 DEF a
        <5> QED
          BY <2>1, <2>3, <4>4, <5>2, <5>3 DEF GapsAreCounted, Following
      <4> QED BY <4>6, <4>7
    <3> QED BY <3>1, <3>2
  <2>6. ASSUME NEW t \in Reordered!Streams, t # s PROVE GapsAreCounted(t)'
    <3>1. /\ node'.lastSeq[t] = node.lastSeq[t] /\ node'.seen[t] = node.seen[t]
          /\ node'.missing[t] = node.missing[t]
      BY <2>1, <2>2, <2>6 DEF Counting, Numbers
    <3>2. first'[t] = first[t] /\ newest'[t] = newest[t]
      BY <2>2, <2>3, <2>6 DEF Numbers
    <3> QED
      BY <1>1, <2>3, <3>1, <3>2 DEF GapsAreCounted, Following
  <2>7. \A t \in Reordered!Streams : GapsAreCounted(t)'
    BY <2>5, <2>6
  <2> QED
    BY <1>3, <2>3, <2>7
<1> QED
  BY <1>2, <1>4, <1>5, <1>6, <1>7 DEF Quietly

-----------------------------------------------------------------------------
(* What is left of the net keeps its order.                                *)
LEMMA Thinned ==
  ASSUME NEW S, NEW w \in Seq(S), NEW i \in DOMAIN w
  PROVE  LET v == Reordered!RemoveAt(w, i) IN
         /\ \A j \in DOMAIN v : \E k \in DOMAIN w : v[j] = w[k] /\ (i = 1 => 1 < k)
         /\ \A j, l \in DOMAIN v : j < l =>
              \E k, m \in DOMAIN w : k < m /\ v[j] = w[k] /\ v[l] = w[m]
<1> DEFINE v == Reordered!RemoveAt(w, i)
           At(j) == IF j < i THEN j ELSE j + 1
<1>1. /\ v \in Seq(S) /\ Len(v) = Len(w) - 1 /\ Len(w) \in Nat /\ i \in 1..Len(w)
      /\ DOMAIN v = 1..Len(v) /\ DOMAIN w = 1..Len(w)
      /\ \A j \in DOMAIN v : v[j] = w[At(j)]
  BY Removed
<1> HIDE DEF v
<1>2. ASSUME NEW j \in DOMAIN v
      PROVE  At(j) \in DOMAIN w /\ v[j] = w[At(j)] /\ (i = 1 => 1 < At(j))
  BY <1>1
<1>3. ASSUME NEW j \in DOMAIN v, NEW l \in DOMAIN v, j < l PROVE At(j) < At(l)
  BY <1>1, <1>3
<1> HIDE DEF At
<1>4. \A j \in DOMAIN v : \E k \in DOMAIN w : v[j] = w[k] /\ (i = 1 => 1 < k)
  BY <1>2
<1>5. \A j, l \in DOMAIN v : j < l =>
        \E k, m \in DOMAIN w : k < m /\ v[j] = w[k] /\ v[l] = w[m]
  BY <1>2, <1>3
<1> QED
  BY <1>4, <1>5 DEF v

(* Between two STATs the node restarted exactly when the second shows it.  *)
LEMMA RestartShows ==
  ASSUME NetTypes, RestartInv, 1 \in DOMAIN net
  PROVE  Reordered!RebootSeen(node, net[1])
           <=> IF seenBoot = -1 THEN net[1].uptime <= LowUptime ELSE net[1].boot # seenBoot
<1> DEFINE p == net[1]
<1>1. p \in Packet /\ p.boot \in Nat /\ p.uptime \in Nat
  <2>1. p \in Packet
    BY DEF NetTypes
  <2> QED
    BY <2>1 DEF Packet
<1>2. p.boot <= boot /\ boot \in Nat /\ SinceHeard
  BY DEF RestartInv, UntilNow, NetTypes
<1>3. CASE seenBoot = -1
  BY <1>2, <1>3 DEF SinceHeard, Reordered!RebootSeen, Reordered!None
<1>4. CASE seenBoot # -1
  <2>1. /\ seenBoot \in 0..boot /\ boot - seenBoot < Markers
        /\ node.uptime \in Nat /\ node.marker = Rest(seenBoot, Markers)
        /\ seenBoot <= p.boot
        /\ seenBoot = p.boot => node.uptime <= p.uptime /\ node.reason = p.reason
    BY <1>2, <1>4 DEF SinceHeard
  <2>2. Reordered!RebootSeen(node, p)
          <=> \/ p.uptime + 1 < node.uptime \/ p.reason # node.reason
              \/ Rest(p.boot, Markers) # node.marker
    <3>1. node.uptime # -1
      BY <2>1
    <3> QED
      BY <3>1 DEF Reordered!RebootSeen, Reordered!None, Rest
  <2> HIDE DEF p
  <2>3. CASE seenBoot = p.boot
    <3>1. ~(p.uptime + 1 < node.uptime)
      BY <1>1, <2>1, <2>3
    <3>2. Rest(p.boot, Markers) = node.marker
      BY <2>1, <2>3
    <3> QED
      BY <1>4, <2>1, <2>2, <2>3, <3>1, <3>2, Zenon DEF p
  <2>4. CASE seenBoot # p.boot
    <3>1. seenBoot \in Nat /\ seenBoot - p.boot < Markers /\ p.boot - seenBoot < Markers
      BY <1>1, <1>2, <2>1, RegistryConstants
    <3>2. Markers \in Nat \ {0}
      BY RegistryConstants
    <3>3. Rest(seenBoot, Markers) # Rest(p.boot, Markers)
      BY <1>1, <2>4, <3>1, <3>2, GapOf
    <3> QED
      BY <1>4, <2>1, <2>2, <2>4, <3>3, Zenon DEF p
  <2> QED BY <2>3, <2>4
<1> QED BY <1>3, <1>4

LEMMA RestartKeeps ==
  ASSUME NetTypes, NodeInv, RestartInv, Quietly \/ Restarts \/ Observes(1)
  PROVE  RestartInv'
<1>1. /\ net \in Seq(Packet) /\ \A i \in DOMAIN net : net[i] \in Packet
      /\ boot \in Nat /\ clock \in Nat /\ bootedAt \in Nat /\ bootedAt <= clock
      /\ InTurn /\ UntilNow /\ SinceHeard /\ reboots.found = reboots.real
  BY DEF NetTypes, RestartInv
<1>2. ASSUME NEW s \in Reordered!Streams, Sends(s) PROVE RestartInv'
  <2> DEFINE q == [stream |-> s, boot |-> boot, n |-> next[s], reason |-> reason,
                   uptime |-> clock - bootedAt]
  <2>1. q.boot = boot /\ q.reason = reason /\ q.uptime = clock - bootedAt
    OBVIOUS
  <2>2. net' = Append(net, q)
        /\ UNCHANGED <<clock, boot, bootedAt, reason, node, seenBoot, reboots>>
    BY <1>2 DEF Sends
  <2> HIDE DEF q
  <2>3. \A i \in DOMAIN net' : (i \in DOMAIN net /\ net'[i] = net[i])
                                \/ (i = Len(net) + 1 /\ net'[i] = q)
    BY <1>1, <2>2
  <2>4. /\ DOMAIN net = 1..Len(net) /\ DOMAIN net' = 1..(Len(net) + 1) /\ Len(net) \in Nat
    BY <1>1, <2>2
  <2>5. InTurn'
    <3> SUFFICES ASSUME NEW i \in DOMAIN net', NEW j \in DOMAIN net', i < j
                 PROVE  /\ net'[i].boot <= net'[j].boot
                        /\ net'[i].boot = net'[j].boot =>
                             net'[i].uptime <= net'[j].uptime /\ net'[i].reason = net'[j].reason
      BY DEF InTurn
    <3>1. i \in DOMAIN net /\ net'[i] = net[i]
      BY <2>3, <2>4
    <3>2. CASE j \in DOMAIN net /\ net'[j] = net[j]
      BY <1>1, <3>1, <3>2, Zenon DEF InTurn
    <3>3. CASE net'[j] = q
      BY <1>1, <2>1, <3>1, <3>3 DEF UntilNow
    <3> QED BY <2>3, <3>2, <3>3
  <2>6. UntilNow'
    <3>1. 0 < Markers
      BY RegistryConstants
    <3> QED
      BY <1>1, <2>1, <2>2, <2>3, <3>1 DEF UntilNow
  <2>7. SinceHeard'
    BY <1>1, <2>1, <2>2, <2>3 DEF SinceHeard
  <2> QED
    BY <1>1, <2>2, <2>5, <2>6, <2>7 DEF RestartInv
<1>3. ASSUME NEW i \in DOMAIN net, net' = Reordered!RemoveAt(net, i)
      PROVE  InTurn' /\ (UNCHANGED <<clock, boot, bootedAt, reason>> => UntilNow')
  <2>1. /\ \A j \in DOMAIN net' : \E k \in DOMAIN net : net'[j] = net[k]
        /\ \A j, l \in DOMAIN net' : j < l =>
             \E k, m \in DOMAIN net : k < m /\ net'[j] = net[k] /\ net'[l] = net[m]
    BY <1>1, <1>3, Thinned
  <2>2. InTurn'
    <3> SUFFICES ASSUME NEW j \in DOMAIN net', NEW l \in DOMAIN net', j < l
                 PROVE  /\ net'[j].boot <= net'[l].boot
                        /\ net'[j].boot = net'[l].boot =>
                             net'[j].uptime <= net'[l].uptime /\ net'[j].reason = net'[l].reason
      BY DEF InTurn
    <3>1. PICK k \in DOMAIN net, m \in DOMAIN net :
            k < m /\ net'[j] = net[k] /\ net'[l] = net[m]
      BY <2>1
    <3> QED
      BY <1>1, <3>1 DEF InTurn
  <2>3. ASSUME UNCHANGED <<clock, boot, bootedAt, reason>> PROVE UntilNow'
    BY <1>1, <2>1, <2>3 DEF UntilNow
  <2> QED BY <2>2, <2>3
<1>4. CASE Loses1
  <2>1. PICK i \in DOMAIN net : net' = Reordered!RemoveAt(net, i)
    BY <1>4 DEF Loses1
  <2>2. UNCHANGED <<clock, boot, bootedAt, reason, node, seenBoot, reboots>>
    BY <1>4 DEF Loses1
  <2>3. \A j \in DOMAIN net' : \E k \in DOMAIN net : net'[j] = net[k]
    BY <1>1, <2>1, Thinned
  <2>4. SinceHeard'
    BY <1>1, <2>2, <2>3 DEF SinceHeard
  <2> QED
    BY <1>1, <1>3, <2>1, <2>2, <2>4 DEF RestartInv
<1>5. CASE Ticks
  <2>1. clock' = clock + 1 /\ UNCHANGED <<boot, bootedAt, reason, net, node, seenBoot, reboots>>
    BY <1>5 DEF Ticks
  <2>2. InTurn'
    BY <1>1, <2>1 DEF InTurn
  <2>3. ASSUME NEW u \in Int, u <= clock - bootedAt PROVE u <= clock' - bootedAt'
    BY <1>1, <2>1, <2>3
  <2>4. UntilNow'
    <3>1. \A i \in DOMAIN net : net[i].uptime \in Int
      BY <1>1 DEF Packet
    <3> QED
      BY <1>1, <2>1, <2>3, <3>1 DEF UntilNow
  <2>5. SinceHeard'
    BY <1>1, <2>1, <2>3 DEF SinceHeard
  <2> QED
    BY <1>1, <2>1, <2>2, <2>4, <2>5 DEF RestartInv
<1>6. CASE Refreshes
  <2>1. SameBoot(node', node)
    BY <1>6, RefreshedRecord DEF Refreshes
  <2>2. UNCHANGED <<clock, boot, bootedAt, reason, net, seenBoot, reboots>>
    BY <1>6 DEF Refreshes
  <2> QED
    BY <1>1, <2>1, <2>2 DEF RestartInv, InTurn, UntilNow, SinceHeard, SameBoot
<1>7. CASE Restarts
  <2>1. /\ boot' = boot + 1 /\ bootedAt' = clock /\ UNCHANGED <<clock, net, node, seenBoot, reboots>>
        /\ \A i \in DOMAIN net : boot + 1 - net[i].boot < Markers
        /\ seenBoot # -1 => boot + 1 - seenBoot < Markers
    BY <1>7 DEF Restarts
  <2>2. \A i \in DOMAIN net : net[i].boot \in Nat
    BY <1>1 DEF Packet
  <2>3. InTurn'
    BY <1>1, <2>1 DEF InTurn
  <2>4. UntilNow'
    BY <1>1, <2>1, <2>2 DEF UntilNow
  <2>5. SinceHeard'
    BY <1>1, <2>1, <2>2 DEF SinceHeard
  <2> QED
    BY <1>1, <2>1, <2>3, <2>4, <2>5 DEF RestartInv
<1>8. CASE Observes(1)
  <2>0. PICK p : p = net[1]
    OBVIOUS
  <2>1. /\ 1 \in DOMAIN net /\ p \in Packet
        /\ p.stream = "evt" => SameBoot(node', node)
        /\ p.stream = "stat" =>
              /\ node'.uptime = p.uptime /\ node'.reason = p.reason
              /\ node'.marker = Rest(p.boot, Markers)
              /\ Reordered!RebootSeen(node, p) => node'.rebootAt = clock
    BY <1>8, <2>0, ObservedRecord
  <2>2. /\ net' = Reordered!RemoveAt(net, 1) /\ UNCHANGED <<clock, boot, bootedAt, reason>>
        /\ seenBoot' = IF p.stream = "stat" THEN p.boot ELSE seenBoot
        /\ reboots' = IF p.stream = "evt" THEN reboots ELSE [found |-> Counted1(1), real |-> Real1(1)]
    BY <1>8, <2>0 DEF Observes
  <2>3. InTurn' /\ UntilNow'
    BY <1>3, <2>1, <2>2
  <2>4. \A j \in DOMAIN net' : \E k \in DOMAIN net : net'[j] = net[k] /\ 1 < k
    BY <1>1, <2>1, <2>2, Thinned
  <2>5. CASE p.stream = "evt"
    <3>1. SameBoot(node', node) /\ seenBoot' = seenBoot /\ reboots' = reboots
      BY <2>1, <2>2, <2>5
    <3>2. SinceHeard'
      BY <1>1, <2>2, <2>4, <3>1 DEF SinceHeard, SameBoot
    <3> QED
      BY <1>1, <2>3, <3>1, <3>2 DEF RestartInv
  <2>6. CASE p.stream = "stat"
    <3>1. /\ seenBoot' = p.boot /\ p.boot \in Nat /\ p.uptime \in Nat
          /\ node'.uptime = p.uptime /\ node'.reason = p.reason
          /\ node'.marker = Rest(p.boot, Markers)
      BY <2>1, <2>2, <2>6 DEF Packet
    <3>2. /\ p.boot <= boot /\ boot - p.boot < Markers
          /\ p.boot = boot => p.reason = reason /\ p.uptime <= clock - bootedAt
      BY <1>1, <2>0, <2>1 DEF UntilNow
    <3>3. ASSUME NEW j \in DOMAIN net'
          PROVE  /\ p.boot <= net'[j].boot
                 /\ p.boot = net'[j].boot =>
                      p.uptime <= net'[j].uptime /\ p.reason = net'[j].reason
      <4>1. PICK k \in DOMAIN net : net'[j] = net[k] /\ 1 < k
        BY <2>4
      <4> QED
        BY <1>1, <2>0, <2>1, <4>1 DEF InTurn
    <3>4. SinceHeard'
      BY <1>1, <2>2, <3>1, <3>2, <3>3 DEF SinceHeard
    <3>5. Counted1(1) = Real1(1)
      <4>1. Reordered!RebootSeen(node, p)
              <=> IF seenBoot = -1 THEN p.uptime <= LowUptime ELSE p.boot # seenBoot
        BY <2>0, <2>1, RestartShows
      <4>2. Reordered!RebootSeen(node, p) => node'.rebootAt = clock
        BY <2>1, <2>6
      <4> QED
        BY <1>1, <2>0, <4>1, <4>2 DEF Counted1, Real1
    <3>6. reboots'.found = reboots'.real
      BY <2>2, <2>6, <3>5
    <3> QED
      BY <2>3, <3>4, <3>6 DEF RestartInv
  <2> QED
    BY <2>1, <2>5, <2>6 DEF Packet, Reordered!Streams
<1> QED
  BY <1>2, <1>4, <1>5, <1>6, <1>7, <1>8 DEF Quietly

-----------------------------------------------------------------------------
(* A behaviour exercises one part; the others stay as they began.          *)
LEMMA ReceptionStarts ==
  ASSUME Init
  PROVE  ReceptionInv /\ RegistryInv
<1>1. ReceptionInv
  BY UdpStarts, SerialStarts, RouterStarts DEF Init, ReceptionInv
<1>2. RegistryInv
  BY RegistryStarts DEF Init
<1> QED BY <1>1, <1>2

LEMMA UdpStays ==
  ASSUME UdpInv, UNCHANGED udp
  PROVE  UdpInv'
BY DEF udp, UdpInv, UdpPlaces, UdpParts, UdpSockets, UdpCounts, InHand

LEMMA RouterStays ==
  ASSUME RouterInv, UNCHANGED notes
  PROVE  RouterInv'
BY DEF notes, RouterInv, RouterTypes, RouterThreads, RouterOrder, RouterKeeps, Kept

LEMMA SerialStays ==
  ASSUME SerialInv, UNCHANGED serial
  PROVE  SerialInv' /\ (DeliveryInv => DeliveryInv')
<1>1. SerialInv'
  BY DEF serial, SerialInv, SerialLocks, SerialParts, SerialClosings
<1>2. DeliveryInv => DeliveryInv'
  BY DEF serial, DeliveryInv, SerialPlaces, SerialCounts
<1> QED BY <1>1, <1>2

LEMMA RegistryStays ==
  ASSUME RegistryInv, UNCHANGED <<part, registry>>
  PROVE  RegistryInv'
<1>1. UNCHANGED <<part, clock, boot, bootedAt, reason, next, net, node, seenBoot, reboots,
                  first, newest>>
  BY DEF registry
<1>2. NetTypes' /\ NodeInv'
  BY <1>1 DEF RegistryInv, NetTypes, NodeInv
<1>3. LossInv => LossInv'
  BY <1>1 DEF LossInv, GapsAreCounted, Following
<1>4. RestartInv => RestartInv'
  BY <1>1 DEF RestartInv, InTurn, UntilNow, SinceHeard
<1> QED BY <1>1, <1>2, <1>3, <1>4 DEF RegistryInv

LEMMA RegistryKeeps ==
  ASSUME RegistryInv, \/ RegistryOnly("reordered") /\ Reordered!Next
                      \/ RegistryOnly("restarted") /\ Restarted!Next
  PROVE  RegistryInv'
<1>1. NetTypes /\ NodeInv
  BY DEF RegistryInv
<1>2. CASE RegistryOnly("reordered") /\ Reordered!Next
  <2>1. part = "reordered" /\ part' = part /\ LossInv
    BY <1>2 DEF RegistryOnly, RegistryInv
  <2>2. Quietly \/ \E i \in DOMAIN net : Observes(i)
    <3>1. ~(boot < 0)
      BY <1>1 DEF NetTypes
    <3> QED BY <1>2, <3>1, RegistrySteps
  <2>3. NetTypes' /\ NodeInv'
    BY <1>1, <2>2, NodeKeeps
  <2>4. LossInv'
    BY <1>1, <2>1, <2>2, LossKeeps
  <2> QED
    BY <2>1, <2>3, <2>4 DEF RegistryInv
<1>3. CASE RegistryOnly("restarted") /\ Restarted!Next
  <2>1. part = "restarted" /\ part' = part /\ RestartInv
    BY <1>3 DEF RegistryOnly, RegistryInv
  <2>2. Quietly \/ Restarts \/ Observes(1)
    BY <1>3, RegistrySteps
  <2>3. NetTypes' /\ NodeInv'
    <3>1. Observes(1) => 1 \in DOMAIN net
      BY DEF Observes
    <3> QED
      BY <1>1, <2>2, <3>1, NodeKeeps
  <2>4. RestartInv'
    BY <1>1, <2>1, <2>2, RestartKeeps
  <2> QED
    BY <2>1, <2>3, <2>4 DEF RegistryInv
<1> QED BY <1>2, <1>3

LEMMA RegistryShows == RegistryInv => CountsAreReal
<1> SUFFICES ASSUME RegistryInv PROVE CountsAreReal
  OBVIOUS
<1>1. part = "reordered" => Reordered!LossCountsGaps
  <2> SUFFICES ASSUME LossInv, NEW s \in Reordered!Streams, node.lastSeq[s] # -1
               PROVE  node.seen[s] + node.missing[s] = newest[s] - first[s] + 1
    BY DEF RegistryInv, Reordered!LossCountsGaps, Reordered!None
  <2> QED
    BY DEF LossInv, GapsAreCounted
<1>2. part = "restarted" => Restarted!RestartsAreReal
  BY DEF RegistryInv, RestartInv, Restarted!RestartsAreReal
<1>3. Reordered!EventsTellTheStatus
  <2>1. Tells(node.events, node.status)
    BY DEF RegistryInv, NodeInv, NewsOf
  <2> QED
    BY <2>1, Zenon DEF Tells, Reordered!EventsTellTheStatus
<1> QED BY <1>1, <1>2, <1>3 DEF CountsAreReal

LEMMA ReceptionKeeps ==
  ASSUME ReceptionInv, RegistryInv, [Next]_vars
  PROVE  ReceptionInv' /\ RegistryInv'
<1> USE DEF ReceptionInv
<1>1. CASE UdpOnly /\ Udp!Next
  BY <1>1, UdpKeeps, RouterStays, SerialStays, RegistryStays DEF UdpOnly
<1>2. CASE RouterOnly /\ Router!Next
  BY <1>2, RouterStep, UdpStays, SerialStays, RegistryStays DEF RouterOnly
<1>3. CASE ParserOnly /\ Parser!Next
  BY <1>3, UdpStays, RouterStays, SerialStays, RegistryStays DEF ParserOnly
<1>4. CASE SerialOnly /\ Serial!Next
  BY <1>4, SlowIsMore, SerialKeeps, DeliveryKeeps, UdpStays, RouterStays, RegistryStays
  DEF SerialOnly
<1>5. CASE SlowOnly /\ Slow!Next
  BY <1>5, SerialKeeps, UdpStays, RouterStays, RegistryStays DEF SlowOnly
<1>6. CASE RegistryOnly("reordered") /\ Reordered!Next
  BY <1>6, RegistryKeeps, UdpStays, RouterStays, SerialStays DEF RegistryOnly
<1>7. CASE RegistryOnly("restarted") /\ Restarted!Next
  BY <1>7, RegistryKeeps, UdpStays, RouterStays, SerialStays DEF RegistryOnly
<1>8. CASE UNCHANGED vars
  BY <1>8, UdpStays, RouterStays, SerialStays, RegistryStays DEF vars
<1> QED BY <1>1, <1>2, <1>3, <1>4, <1>5, <1>6, <1>7, <1>8 DEF Next

(* The inductive invariant, from which the theorems below follow.          *)
THEOREM ReceptionInvariant == Spec => [](ReceptionInv /\ RegistryInv)
<1>1. Init => ReceptionInv /\ RegistryInv
  BY ReceptionStarts
<1>2. ReceptionInv /\ RegistryInv /\ [Next]_vars => (ReceptionInv /\ RegistryInv)'
  BY ReceptionKeeps
<1> QED BY <1>1, <1>2, PTL DEF Spec

(* However many packets come in and wherever a stop finds the receivers: a *)
(* UDP backend observes every packet it counted, and a serial backend      *)
(* routes every message it parsed, none of them to a closed router.        *)
THEOREM WhatCameInIsRouted == Spec => []EverythingIsRouted
<1>1. ReceptionInv => EverythingIsRouted
  BY UdpShows, DeliveryShows DEF ReceptionInv, EverythingIsRouted
<1> QED BY <1>1, ReceptionInvariant, PTL

(* A start that fails, at whichever of its steps - opening the router, a   *)
(* socket, the port, starting a thread - keeps no socket, thread or open   *)
(* router, and no port that was opened before the step that failed unless  *)
(* that step was starting the port's own thread.                           *)
THEOREM FailedStartIsUndone == Spec => []FailedStartLeavesNothing
<1>1. ReceptionInv => FailedStartLeavesNothing
  BY UdpShows, SerialShows, DeliveryShows DEF ReceptionInv, FailedStartLeavesNothing
<1> QED BY <1>1, ReceptionInvariant, PTL

(* The port is closed at most once, although a stop that gave up waiting   *)
(* for the thread and the thread itself may both come to close it.         *)
THEOREM PortIsClosedOnce == Spec => []ClosedOnce
<1>1. ReceptionInv => ClosedOnce
  BY SerialShows DEF ReceptionInv, ClosedOnce
<1> QED BY <1>1, ReceptionInvariant, PTL

(* With any number of notes, buses and producers: the notes of a bus leave *)
(* in the order they were queued, none twice; and when close returns, all  *)
(* that it found has left or its port failed.                              *)
THEOREM NotesLeaveOnceInOrder == Spec => []NotesLeaveInOrder
<1>1. ReceptionInv => NotesLeaveInOrder
  BY RouterShows DEF ReceptionInv, NotesLeaveInOrder
<1> QED BY <1>1, ReceptionInvariant, PTL

(* However long a node runs: what was seen of a stream and what was counted *)
(* lost make up the numbers from the first packet to the newest, out of     *)
(* order and across the wrap-around, as long as less than half the numbers  *)
(* lie between packets; with packets in order, restarts are counted when    *)
(* they took place and never otherwise, as long as the boot markers do not  *)
(* come round; and the newest event about the status names it.              *)
THEOREM PacketsAreCounted == Spec => []CountsAreReal
BY ReceptionInvariant, RegistryShows, PTL
=============================================================================
