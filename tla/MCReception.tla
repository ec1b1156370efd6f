---------------------------- MODULE MCReception ----------------------------
(* The receiving end of a session: a backend (UDP, serial, or serial with   *)
(* callbacks slower than stop waits), the router both put notes in, the     *)
(* parser of a serial line, and the record of a node whose packets are      *)
(* received, out of order or from a node that restarts.  A behaviour        *)
(* exercises one part, chosen at the start: the parts share no state here,  *)
(* and the other ones stay as they began.                                   *)
EXTENDS Integers, FiniteSets, Sequences

CONSTANTS Buses, Producers, StrictPorts, MaxMsgs, Bytes, MaxSysexBytes, MaxStream,
          CloseMayFail, MaxPackets, MaxMessages, MaxBatch

CONSTANTS   \* of NodeRegistry, and its bounds without restarts and with them
  SeqSpace, Markers, Reasons, Green, Red, Window, Recover, Hold, LowUptime, YellowPct,
  EvtStreak, StatStreak, MinPps, MaxEvents, FirstSeqs, Loses,
  MaxSent, MaxInFlight, MaxClock, MaxBoots, SentInOrder, InFlightInOrder, ClockInOrder

VARIABLES
  part,
  main, recv, dies, tlock, block, stopping, sockets, router, backend, toClose,
  reader, counted, observed, routed, late,
  outputs, phase, ports, flusher, queue, batch, last, holds, issued, sent, lost, final,
  enabled, parser, emitted, issues, stream,
  sMain, sRecv, sBatch, after, sReader, sTlock, sBlock, sStopping, port, held,
  sRouter, sBackend, count,
  clock, boot, bootedAt, reason, next, rSent, net, node, seenBoot, reboots, first, newest

Udp == INSTANCE UdpReception WITH SlowCallback <- FALSE
Router == INSTANCE MidiRouter WITH SlowPort <- FALSE
Parser == INSTANCE MidiParser
Serial == INSTANCE SerialReception WITH
  SlowCallback <- FALSE, ReadMayFail <- TRUE, ThreadMayFail <- FALSE,
  main <- sMain, recv <- sRecv, batch <- sBatch, reader <- sReader, tlock <- sTlock,
  block <- sBlock, stopping <- sStopping, router <- sRouter, backend <- sBackend
Slow == INSTANCE SerialReception WITH
  SlowCallback <- TRUE, ReadMayFail <- TRUE, ThreadMayFail <- TRUE,
  main <- sMain, recv <- sRecv, batch <- sBatch, reader <- sReader, tlock <- sTlock,
  block <- sBlock, stopping <- sStopping, router <- sRouter, backend <- sBackend
Reordered == INSTANCE NodeRegistry WITH
  sent <- rSent, Reasons <- {1}, Reorder <- TRUE, MaxBoots <- 0
Restarted == INSTANCE NodeRegistry WITH
  sent <- rSent, Reorder <- FALSE, MaxSent <- SentInOrder, MaxInFlight <- InFlightInOrder,
  MaxClock <- ClockInOrder

ASSUME MCReceptionAssumption ==
  Udp!ReceptionAssumption /\ Router!RouterAssumption /\ Parser!ParserAssumption
  /\ Serial!SerialAssumption /\ Slow!SerialAssumption
  /\ Reordered!RegistryAssumption /\ Restarted!RegistryAssumption

udp == <<main, recv, dies, tlock, block, stopping, sockets, router, backend, toClose,
         reader, counted, observed, routed, late>>
notes == <<outputs, phase, ports, flusher, queue, batch, last, holds, issued, sent, lost, final>>
line == <<enabled, parser, emitted, issues, stream>>
serial == <<sMain, sRecv, sBatch, after, sReader, sTlock, sBlock, sStopping, port, held,
            sRouter, sBackend, count>>
registry == <<clock, boot, bootedAt, reason, next, rSent, net, node, seenBoot, reboots, first,
              newest>>
vars == <<part, udp, notes, line, serial, registry>>

Init ==
  /\ part \in {"udp", "serial", "slow", "router", "parser", "reordered", "restarted"}
  /\ Udp!Init /\ Router!Init /\ Parser!Init /\ Serial!Init
  /\ part # "router" => outputs = Buses
  /\ part # "parser" => enabled
  /\ IF part = "restarted" THEN Restarted!Init ELSE Reordered!Init

UdpOnly == part = "udp" /\ UNCHANGED <<part, notes, line, serial, registry>>
SerialOnly == part = "serial" /\ UNCHANGED <<part, udp, notes, line, registry>>
SlowOnly == part = "slow" /\ UNCHANGED <<part, udp, notes, line, registry>>
RouterOnly == part = "router" /\ UNCHANGED <<part, udp, line, serial, registry>>
RegistryOnly(p) == part = p /\ UNCHANGED <<part, udp, notes, line, serial>>
ParserOnly == part = "parser" /\ UNCHANGED <<part, udp, notes, serial, registry>>

Next ==
  \/ UdpOnly /\ Udp!Next
  \/ RouterOnly /\ Router!Next
  \/ ParserOnly /\ Parser!Next
  \/ SerialOnly /\ Serial!Next
  \/ SlowOnly /\ Slow!Next
  \/ RegistryOnly("reordered") /\ Reordered!Next
  \/ RegistryOnly("restarted") /\ Restarted!Next

Starting ==
  \/ UdpOnly /\ Udp!Starting
  \/ SerialOnly /\ Serial!Starting
  \/ SlowOnly /\ Slow!Starting
Stopping ==
  \/ UdpOnly /\ Udp!Stopping
  \/ SerialOnly /\ Serial!Stopping
  \/ SlowOnly /\ Slow!Stopping
Receiving ==
  \/ UdpOnly /\ Udp!Receiver("evt")
  \/ SerialOnly /\ Serial!Reading
  \/ SlowOnly /\ Slow!Reading
Serving ==
  \/ UdpOnly /\ Udp!ReaderNested
  \/ SerialOnly /\ Serial!ReaderNested
  \/ SlowOnly /\ Slow!ReaderNested
  \/ RouterOnly /\ Router!Flush
Closing == RouterOnly /\ (Router!Closing \/ (phase = "failed" /\ Router!Close))

(* Each part's own fairness, the parts' terms joined: only one is chosen. *)
Fairness ==
  /\ SF_vars(Starting) /\ SF_vars(Stopping) /\ SF_vars(Receiving)
  /\ SF_vars(UdpOnly /\ Udp!Receiver("stat"))
  /\ WF_vars(Serving) /\ WF_vars(Closing)

Spec == Init /\ [][Next]_vars /\ Fairness

-----------------------------------------------------------------------------
(* Whatever came before on the line, a byte gives the message that the      *)
(* framing of MIDI says (MidiParser).                                       *)
FramingIsMidi == part = "parser" => Parser!FramingIsMidi

(* Notes leave a bus in the order they were queued, none twice, although    *)
(* the flusher and close both send; and what close found queued has left or *)
(* its port failed (MidiRouter).                                            *)
NotesLeaveInOrder == Router!NotesKeepOrder /\ Router!CloseDrains

(* What a backend received is observed and routed, from the first packet to *)
(* the last one while it stops, and nothing is routed to a closed router    *)
(* (UdpReception, SerialReception).                                         *)
EverythingIsRouted ==
  /\ Udp!EveryPacketIsObserved /\ Udp!NothingRoutedLate
  /\ part = "serial" => Serial!EveryMessageIsRouted /\ Serial!NothingRoutedLate

(* A start that fails, at the router, at a socket or port, or at a thread,  *)
(* leaves no socket, reference, open router or thread once it is undone,    *)
(* also when the first receiver already had packets in its hands.  It       *)
(* leaves no serial port either, but when the port's thread could not be    *)
(* started (UdpReception, SerialReception).                                 *)
FailedStartLeavesNothing ==
  /\ Udp!FailedStartLeavesNothing
  /\ part = "serial" => Serial!FailedStartLeavesNothing
  /\ Slow!FailedStartLeavesNothing

(* Closing the serial port is not tried twice, although the thread and a    *)
(* stop that gave up waiting for it both do.                                *)
ClosedOnce == Serial!ClosedOnce

(* What is counted of a node took place: what was seen and what was counted *)
(* lost make up the numbers from the first to the newest packet, in         *)
(* whatever order they arrive and across the wrap-around; restarts are      *)
(* counted when they took place and never otherwise, while packets keep     *)
(* their order; and the newest event about the status of a node names the   *)
(* status it has.                                                           *)
CountsAreReal ==
  /\ part = "reordered" => Reordered!LossCountsGaps
  /\ part = "restarted" => Restarted!RestartsAreReal
  /\ Reordered!EventsTellTheStatus

(* A stop that was begun returns, with what was opened released, whatever   *)
(* the receivers, a reader of snapshots and the flusher are doing; and a    *)
(* serial port that fails in a session is released without a stop.          *)
StopReleasesEverything ==
  /\ Udp!StopReleasesEverything
  /\ Serial!StopReturns /\ Serial!LostPortIsReleased
  /\ Router!PortsAreReleased
=============================================================================
