----------------------------- MODULE MCRecords -----------------------------
(* The recording of a session with its replay, with a disk and a backend    *)
(* that work or that fail while a command is under way.                     *)
EXTENDS Integers, Sequences

VARIABLES
  part,
  phase, session, active, counted, files, last, up, tasks, pending, got, now, player, faults

journal == <<phase, session, active, counted, files, last, up, tasks, pending, got, now,
             player, faults>>
vars == <<part, journal>>

Working == INSTANCE SessionJournal WITH
  Sessions <- 1, Packets <- 2, Stats <- 1, Commands <- 0, MaxTime <- 1,
  DiskFaults <- 0, StopFaults <- FALSE
Failing == INSTANCE SessionJournal WITH
  Sessions <- 1, Packets <- 1, Stats <- 0, Commands <- 1, MaxTime <- 0,
  DiskFaults <- 1, StopFaults <- TRUE

ASSUME MCRecordsAssumption ==
  /\ Working!SessionJournalAssumption /\ Failing!SessionJournalAssumption

Init ==
  /\ part \in {"working", "failing"}
  /\ Working!Init

Next ==
  \/ part = "working" /\ Working!Next /\ UNCHANGED part
  \/ part = "failing" /\ Failing!Next /\ UNCHANGED part
Spec == Init /\ [][Next]_vars

-----------------------------------------------------------------------------
(* No record is lost without a count: the report of a session counts every  *)
(* record of its file, or no more than it holds when the disk or the stop   *)
(* fail, it exists when it is announced, and a replay that skips nothing    *)
(* has every note.                                                          *)
RecordsAreKept ==
  /\ part = "working" => Working!ReportCountsAll
  /\ Working!ReportClaimsNoMore /\ Working!ArtifactsExist /\ Working!NothingLostSilently

(* A replay plays the notes in the order and at the distance in which they  *)
(* were recorded.                                                           *)
ReplayIsFaithful == Working!ReplayKeepsOrder /\ Working!ReplayKeepsTiming
=============================================================================
