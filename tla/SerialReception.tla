-------------------------- MODULE SerialReception --------------------------
(***************************************************************************)
(* A serial session: the adapter of the port with its one reading thread   *)
(* and the backend that records and routes what it reads.  As in UDP       *)
(* reception each has a lock its holder cannot take again, and the backend *)
(* asks for a snapshot, which takes the adapter's lock, with its own held, *)
(* once it knows the adapter.  What differs: start reports with the        *)
(* adapter's lock held, the thread closes the port itself when it ends,    *)
(* and one read brings several messages.                                   *)
(***************************************************************************)
EXTENDS Naturals

CONSTANTS
    CloseMayFail,  \* closing the port may raise
    SlowCallback,  \* a callback may outlast the two seconds stop waits
    ReadMayFail,   \* a read may raise: the cable is pulled
    ThreadMayFail, \* the operating system may give no thread
    MaxMessages,   \* messages read in a session
    MaxBatch       \* messages of one read

SerialAssumption ==
    /\ {CloseMayFail, SlowCallback, ReadMayFail, ThreadMayFail} \subseteq BOOLEAN
    /\ MaxMessages \in Nat /\ MaxBatch \in Nat \ {0}

VARIABLES
    main,      \* where the thread that starts and stops the session is
    recv,      \* where the reading thread is
    batch,     \* messages of its last read still to be delivered
    after,     \* where it goes after the event it reports
    reader,    \* a worker that asks for a snapshot
    tlock,     \* holder of the adapter's lock
    block,     \* holder of the backend's lock
    stopping,  \* the stop event
    port,      \* the operating system's port: "none", "open", "closed"
    held,      \* the adapter refers to the port
    router,    \* the MIDI router
    backend,   \* the backend's references: subset of {"router", "transport"}
    count      \* parsed, recorded and routed messages; closings; notes sent late

vars == <<main, recv, batch, after, reader, tlock, block, stopping, port, held,
          router, backend, count>>

Free == "free"

Init ==
    /\ main = "new" /\ recv = "none" /\ reader = "idle"
    /\ batch = 0 /\ after = "read"
    /\ tlock = Free /\ block = Free
    /\ stopping = FALSE /\ port = "none" /\ held = FALSE
    /\ router = "none" /\ backend = {}
    /\ count = [parsed |-> 0, routed |-> 0, dropped |-> 0, closed |-> 0, late |-> 0]

Count(what) == count' = [count EXCEPT ![what] = @ + 1]

-----------------------------------------------------------------------------
(* start, in the thread of the interface.                                  *)

OpenRouter ==
    /\ main = "new"
    /\ router' = "open" /\ backend' = {"router"} /\ main' = "open"
    /\ UNCHANGED <<recv, batch, after, reader, tlock, block, stopping, port, held, count>>

(* no output could be opened, or none for the notes of the line *)
RouterFails ==
    /\ main = "new"
    /\ router' = "open" /\ main' = "undo"
    /\ UNCHANGED <<recv, batch, after, reader, tlock, block, stopping, port, held, backend, count>>

(* the adapter takes its lock, opens the port and starts its thread *)
OpenPort ==
    /\ main = "open" /\ tlock = Free
    /\ tlock' = "main" /\ port' = "open" /\ held' = TRUE /\ main' = "spawn"
    /\ UNCHANGED <<recv, batch, after, reader, block, stopping, router, backend, count>>

Spawn ==
    /\ main = "spawn"
    /\ recv' = "read" /\ main' = "announce"
    /\ UNCHANGED <<batch, after, reader, tlock, block, stopping, port, held, router, backend, count>>

(* neither the adapter nor the backend closes the port then *)
SpawnFails ==
    /\ main = "spawn" /\ ThreadMayFail
    /\ tlock' = Free /\ main' = "undo"
    /\ UNCHANGED <<recv, batch, after, reader, block, stopping, port, held, router, backend, count>>

(* no port is configured or it cannot be opened *)
OpenFails ==
    /\ main = "open" /\ tlock = Free
    /\ tlock' = "main" /\ main' = "complain"
    /\ UNCHANGED <<recv, batch, after, reader, block, stopping, port, held, router, backend, count>>

(* either is reported with the lock held; the backend does not know the     *)
(* adapter yet and takes no snapshot                                        *)
Announce ==
    /\ main \in {"announce", "complain"} /\ block = Free
    /\ tlock' = Free
    /\ main' = IF main = "announce" THEN "publish" ELSE "undo"
    /\ UNCHANGED <<recv, batch, after, reader, block, stopping, port, held, router, backend, count>>

(* the backend's fields are cleared, then the router is closed *)
Undo ==
    /\ main = "undo" /\ block = Free
    /\ backend' = {} /\ main' = "unroute"
    /\ UNCHANGED <<recv, batch, after, reader, tlock, block, stopping, port, held, router, count>>

CloseUnused ==
    /\ main = "unroute"
    /\ router' = "closed" /\ main' = "failed"
    /\ UNCHANGED <<recv, batch, after, reader, tlock, block, stopping, port, held, backend, count>>

(* the backend keeps the adapter and takes a first snapshot of it *)
Publish ==
    /\ main = "publish" /\ block = Free
    /\ block' = "main" /\ backend' = {"router", "transport"} /\ main' = "first"
    /\ UNCHANGED <<recv, batch, after, reader, tlock, stopping, port, held, router, count>>

(* the nested lock of the first snapshot and of the one stop takes *)
MainNested ==
    /\ main \in {"first", "last"} /\ tlock = Free
    /\ block' = Free
    /\ main' = IF main = "first" THEN "running" ELSE "router"
    /\ UNCHANGED <<recv, batch, after, reader, tlock, stopping, port, held, router, backend, count>>

-----------------------------------------------------------------------------
(* The reading thread.                                                     *)

Thread(from, to) == recv = from /\ recv' = to

(* the head of the loop; the stop event is looked at nowhere else *)
Loop ==
    /\ Thread("read", IF stopping \/ ~ held THEN "end" ELSE "port")
    /\ UNCHANGED <<main, batch, after, reader, tlock, block, stopping, port, held, router, backend, count>>

ReadsNothing ==
    /\ Thread("port", "read") /\ port = "open"
    /\ UNCHANGED <<main, batch, after, reader, tlock, block, stopping, port, held, router, backend, count>>

(* a read of a closed port raises too, also when stop has closed it *)
ReadFails ==
    /\ Thread("port", "event") /\ tlock = Free
    /\ ReadMayFail \/ port # "open"
    /\ after' = "end"
    /\ UNCHANGED <<main, batch, reader, tlock, block, stopping, port, held, router, backend, count>>

(* a read with messages, and with bytes that make none *)
Reads ==
    /\ recv = "port" /\ tlock = Free /\ port = "open"
    /\ \E k \in 0..MaxBatch, issue \in BOOLEAN :
        /\ count.parsed + k <= MaxMessages
        /\ batch' = k
        /\ count' = [count EXCEPT !.parsed = @ + k]
        /\ recv' = IF issue THEN "event" ELSE "deliver"
    /\ after' = "deliver"
    /\ UNCHANGED <<main, reader, tlock, block, stopping, port, held, router, backend>>

(* the next message, recorded if there is a router *)
Deliver ==
    /\ recv = "deliver"
    /\ \/ batch = 0 /\ recv' = "read" /\ UNCHANGED <<batch, count>>
       \/ /\ batch > 0 /\ "router" \in backend
          /\ batch' = batch - 1 /\ recv' = "route" /\ UNCHANGED count
       \/ /\ batch > 0 /\ "router" \notin backend
          /\ batch' = batch - 1 /\ recv' = "deliver" /\ Count("dropped")
    /\ UNCHANGED <<main, after, reader, tlock, block, stopping, port, held, router, backend>>

(* the router takes it, or refuses it and the error is kept *)
Route ==
    /\ recv = "route"
    /\ count' = [count EXCEPT !.routed = @ + 1, !.late = @ + IF router = "closed" THEN 1 ELSE 0]
    /\ \/ recv' = "capture"
       \/ block = Free /\ recv' = "deliver"
    /\ after' = "deliver"
    /\ UNCHANGED <<main, batch, reader, tlock, block, stopping, port, held, router, backend>>

(* the backend's lock and, inside it, the adapter's *)
Capture ==
    /\ recv \in {"capture", "event"} /\ block = Free
    /\ block' = "recv" /\ recv' = "nested"
    /\ UNCHANGED <<main, batch, after, reader, tlock, stopping, port, held, router, backend, count>>

Nested ==
    /\ Thread("nested", after) /\ ("transport" \in backend => tlock = Free)
    /\ block' = Free
    /\ UNCHANGED <<main, batch, after, reader, tlock, stopping, port, held, router, backend, count>>

-----------------------------------------------------------------------------
(* Closing the port, which the thread and stop both do under the lock.     *)

SlipClosePort(next, event) ==                \* SLIP: a closed port is not forgotten
    \/ /\ held
       /\ port' = "closed" /\ Count("closed")
       /\ UNCHANGED held
       /\ next
    \/ /\ ~ held /\ UNCHANGED <<port, held, count>>
       /\ next

ClosePort(next, event) ==
    \/ /\ held
       /\ port' = "closed" /\ held' = FALSE /\ Count("closed")
       /\ next
    \/ /\ held /\ CloseMayFail
       /\ Count("closed") /\ UNCHANGED <<port, held>>
       /\ event
    \/ /\ ~ held
       /\ UNCHANGED <<port, held, count>>
       /\ next

(* the failed closing is reported with the lock held: its thread then waits *)
(* for that lock with the backend's in its hands, unless the backend does   *)
(* not know the adapter                                                     *)
ThreadEnds ==
    /\ recv = "end" /\ tlock = Free
    /\ ClosePort(recv' = "ended" /\ UNCHANGED tlock, recv' = "report" /\ tlock' = "recv")
    /\ UNCHANGED <<main, batch, after, reader, block, stopping, router, backend>>

ThreadReports ==
    /\ recv = "report" /\ block = Free
    /\ IF "transport" \in backend
       THEN recv' = "stuck" /\ block' = "recv" /\ UNCHANGED <<tlock, held>>
       ELSE recv' = "ended" /\ tlock' = Free /\ held' = FALSE /\ UNCHANGED block
    /\ UNCHANGED <<main, batch, after, reader, stopping, port, router, backend, count>>

-----------------------------------------------------------------------------
(* runtime_snapshot from another thread.                                   *)

ReaderLocks ==
    /\ reader = "idle" /\ block = Free
    /\ block' = "reader" /\ reader' = "nested"
    /\ UNCHANGED <<main, recv, batch, after, tlock, stopping, port, held, router, backend, count>>

ReaderNested ==
    /\ reader = "nested" /\ ("transport" \in backend => tlock = Free)
    /\ block' = Free /\ reader' = "idle"
    /\ UNCHANGED <<main, recv, batch, after, tlock, stopping, port, held, router, backend, count>>

-----------------------------------------------------------------------------
(* stop.                                                                   *)

Stop ==
    /\ main = "running"
    /\ stopping' = TRUE /\ main' = "join"
    /\ UNCHANGED <<recv, batch, after, reader, tlock, block, port, held, router, backend, count>>

(* two seconds, which a slow callback or a thread that is stuck exceeds *)
Join ==
    /\ main = "join"
    /\ recv \in {"ended", "report", "stuck"} \/ SlowCallback
    /\ main' = "close"
    /\ UNCHANGED <<recv, batch, after, reader, tlock, block, stopping, port, held, router, backend, count>>

StopCloses ==
    /\ main = "close" /\ tlock = Free
    /\ ClosePort(main' = "snapshot" /\ UNCHANGED tlock, main' = "report" /\ tlock' = "main")
    /\ UNCHANGED <<recv, batch, after, reader, block, stopping, router, backend>>

StopReports ==
    /\ main = "report" /\ block = Free
    /\ main' = "stuck" /\ block' = "main"
    /\ UNCHANGED <<recv, batch, after, reader, tlock, stopping, port, held, router, backend, count>>

LastSnapshot ==
    /\ main = "snapshot" /\ block = Free
    /\ block' = "main" /\ main' = "last"
    /\ UNCHANGED <<recv, batch, after, reader, tlock, stopping, port, held, router, backend, count>>

CloseRouter ==
    /\ main = "router"
    /\ router' = "closed" /\ main' = "forget"
    /\ UNCHANGED <<recv, batch, after, reader, tlock, block, stopping, port, held, backend, count>>

Forget ==
    /\ main = "forget" /\ block = Free
    /\ backend' = {} /\ main' = "stopped"
    /\ UNCHANGED <<recv, batch, after, reader, tlock, block, stopping, port, held, router, count>>

-----------------------------------------------------------------------------

Starting ==
    \/ OpenRouter \/ RouterFails \/ OpenPort \/ Spawn \/ SpawnFails \/ OpenFails \/ Announce
    \/ Undo \/ CloseUnused \/ Publish \/ MainNested

Stopping == Join \/ StopCloses \/ StopReports \/ LastSnapshot \/ CloseRouter \/ Forget

Reading ==
    \/ Loop \/ ReadsNothing \/ ReadFails \/ Reads \/ Deliver \/ Route
    \/ Capture \/ Nested \/ ThreadEnds \/ ThreadReports

Next == Starting \/ Stop \/ Stopping \/ Reading \/ ReaderLocks \/ ReaderNested

(* Every thread is scheduled, and one that keeps asking for a lock that is *)
(* released again and again gets it.                                       *)
Spec == /\ Init /\ [][Next]_vars
        /\ SF_vars(Starting) /\ SF_vars(Stopping) /\ SF_vars(Reading) /\ WF_vars(ReaderNested)

-----------------------------------------------------------------------------

(* Types; a lock is held by a thread that is where it needs it.              *)
TypeOK ==
    /\ tlock \in {Free, "main", "recv"} /\ block \in {Free, "main", "recv", "reader"}
    /\ (tlock = "main") = (main \in {"spawn", "announce", "complain", "report", "stuck"})
    /\ (tlock = "recv") = (recv \in {"report", "stuck"})
    /\ (block = "recv") = (recv \in {"nested", "stuck"})
    /\ (block = "main") => main \in {"first", "last", "stuck"}
    /\ (block = "reader") = (reader = "nested")
    /\ port \in {"none", "open", "closed"} /\ router \in {"none", "open", "closed"}
    /\ backend \subseteq {"router", "transport"}
    /\ batch \in 0..MaxBatch
    /\ held => port # "none"

(* Every message that was parsed is routed, the ones of the first read, which*)
(* may come before the session is up, and the ones of the last, while it     *)
(* stops: _on_serial_message drops what it gets without a router.            *)
EveryMessageIsRouted ==
    /\ count.dropped = 0
    /\ recv \in {"read", "port", "end", "ended"} => count.routed = count.parsed

(* Nothing is routed to a closed router.                                     *)
NothingRoutedLate == count.late = 0

(* The port is closed once, by the thread or by stop, also when the thread   *)
(* outlives stop's wait (_close_port_locked forgets it under the lock).      *)
ClosedOnce == count.closed <= 1

(* A start that fails leaves no router, reference or thread, and no port     *)
(* unless it was the thread that could not be started.                       *)
FailedStartLeavesNothing ==
    main = "failed" => /\ router = "closed" /\ backend = {} /\ recv = "none"
                       /\ ThreadMayFail \/ port = "none"

(* A stop returns with the port closed, whatever the thread is doing.        *)
StopReturns == main = "join" ~> (main = "stopped" /\ port = "closed")

(* After a read that failed the port is released without waiting for a stop. *)
LostPortIsReleased == (recv = "event" /\ after = "end") ~> port = "closed"
=============================================================================
