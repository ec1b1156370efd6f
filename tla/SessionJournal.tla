--------------------------- MODULE SessionJournal ---------------------------
(***************************************************************************)
(* The recording of a session (session.jsonl and report.json) and its      *)
(* replay.  The session controller opens and closes the recorder in the    *)
(* thread of the interface; the receiver threads and the worker of a       *)
(* command hand it records with no lock of its own.  A record is one write *)
(* for its text and another for the end of the line.                       *)
(*                                                                         *)
(* A receiver's callback ends within the time the backend waits for its    *)
(* thread when it stops (the other case is in UdpReception); a failing     *)
(* stop leaves the receivers running.                                      *)
(***************************************************************************)
EXTENDS Integers, FiniteSets, SequencesExt

CONSTANTS
    Sessions,   \* sessions started
    Packets,    \* EVT packets received, each a note
    Stats,      \* STAT packets received
    Commands,   \* commands sent
    MaxTime,    \* the clock's last value
    DiskFaults, \* failures of a write, of a flush of the file or of its creation
    StopFaults  \* stopping the backend may fail

SessionJournalAssumption ==
    /\ Sessions \in Nat \ {0}
    /\ {Packets, Stats, Commands, MaxTime, DiskFaults} \subseteq Nat
    /\ StopFaults \in BOOLEAN

VARIABLES
    phase,    \* where the session controller is
    session,  \* the number of the last session started
    active,   \* the recorder records are handed to, named by its session; 0: none
    counted,  \* the accumulator records are counted in; 0: none
    files,    \* of each session: its file, the records counted, its report
    last,     \* the session whose artifacts are reported as the last ones
    up,       \* the receiver threads run
    tasks,    \* what each thread is recording
    pending,  \* of each running command: the session it was sent in
    got,      \* packets received
    now,      \* the clock
    player,   \* the replay of a recording
    faults    \* failures of the disk so far

vars == <<phase, session, active, counted, files, last, up, tasks, pending, got, now, player, faults>>

(* A step is a success or, while the bound allows it, a failure of the disk. *)
Works == UNCHANGED faults

DiskFails == faults < DiskFaults /\ faults' = faults + 1

Ids == 1..Sessions

Threads == {"main", "evt", "stat", "cmd"}

EndOfLine == [kind |-> "newline", of |-> 0, n |-> 0, ts |-> 0]

Records == [kind : {"control", "udp_evt", "midi_event", "udp_stat", "command"},
            of : Ids, n : Nat, ts : 0..MaxTime]

(* to, in: the recorder and the accumulator read when the record was handed over; *)
(* while the controller writes a report, in is the number of records it states    *)
Resting == [at |-> "rest", to |-> 0, in |-> 0, rec |-> EndOfLine]

NoFile == [state |-> "none", text |-> <<>>, total |-> 0, report |-> -1]

Silent == [at |-> "off", of |-> 0, events |-> <<>>, skipped |-> 0, next |-> 1,
           clock |-> 0, sent |-> <<>>]

Init ==
    /\ phase = "idle" /\ session = 0
    /\ active = 0 /\ counted = 0 /\ last = 0
    /\ files = [s \in Ids |-> NoFile]
    /\ up = FALSE
    /\ tasks = [t \in Threads |-> Resting]
    /\ pending = <<>>
    /\ got = [evt |-> 0, stat |-> 0, cmd |-> 0]
    /\ now = 0
    /\ player = Silent
    /\ faults = 0

-----------------------------------------------------------------------------
(* One record, handed over by thread t in whatever it does.                *)

RecordEvent(t, kind, of, n) ==
    tasks' = [tasks EXCEPT ![t] =
        IF active = 0 THEN [Resting EXCEPT !.rec.kind = kind, !.rec.n = n]
        ELSE [at |-> "line", to |-> active, in |-> counted,
              rec |-> [kind |-> kind, of |-> of, n |-> n, ts |-> now]]]

Appended(s, item) == [files EXCEPT ![s].text = Append(@, item)]

Step(t, at) == tasks' = [tasks EXCEPT ![t].at = at]

(* write_record: the text of the line; a closed file raises *)
WriteLine(t) ==
    LET k == tasks[t] IN
    /\ k.at = "line"
    /\ \/ /\ files[k.to].state = "open"
          /\ files' = Appended(k.to, k.rec)
          /\ Step(t, "newline") /\ Works
       \/ /\ \/ files[k.to].state # "open" /\ Works
             \/ files[k.to].state = "open" /\ DiskFails
          /\ UNCHANGED files
          /\ Step(t, "rest")
    /\ UNCHANGED <<phase, session, active, counted, last, up, pending, got, now, player>>

(* write_record: the end of the line and the flush *)
EndLine(t) ==
    LET k == tasks[t] IN
    /\ k.at = "newline"
    /\ \/ /\ files[k.to].state = "open"
          /\ files' = Appended(k.to, EndOfLine)
          /\ Step(t, "count") /\ Works
       \/ /\ files[k.to].state = "open" /\ DiskFails
          /\ files' = Appended(k.to, EndOfLine)
          /\ Step(t, "rest")
       \/ /\ files[k.to].state # "open" /\ Works
          /\ UNCHANGED files
          /\ Step(t, "rest")
    /\ UNCHANGED <<phase, session, active, counted, last, up, pending, got, now, player>>

(* observe_record, with the accumulator read beside the recorder *)
Count(t) ==
    LET k == tasks[t] IN
    /\ k.at = "count"
    /\ files' = IF k.in = k.to THEN [files EXCEPT ![k.to].total = @ + 1] ELSE files
    /\ Step(t, "rest")
    /\ UNCHANGED <<phase, session, active, counted, last, up, pending, got, now, player, faults>>

-----------------------------------------------------------------------------
(* The session controller, in the thread of the interface.                 *)

Main(from, to) ==
    /\ phase = from /\ tasks["main"].at = "rest"
    /\ phase' = to

Open ==
    /\ Main("idle", "opened")
    /\ session < Sessions
    /\ session' = session + 1
    /\ \/ /\ files' = [files EXCEPT ![session'].state = "open"]
          /\ active' = session' /\ last' = 0 /\ Works
       \/ /\ DiskFails
          /\ active' = 0
          /\ UNCHANGED <<files, last>>
    /\ counted' = 0
    /\ UNCHANGED <<up, tasks, pending, got, now, player>>

Account ==
    /\ Main("opened", "starting")
    /\ counted' = active
    /\ UNCHANGED <<session, active, files, last, up, tasks, pending, got, now, player, faults>>

Say(from, to, n) ==
    /\ Main(from, to)
    /\ RecordEvent("main", "control", session, n)
    /\ UNCHANGED <<session, active, counted, files, last, up, pending, got, now, player, faults>>

SayStarted == Say("starting", "started", 1)
SayBeforeStop == Say("running", "joining", 2)
SayStopped == Say("down", "ending", 3)
SayReport == Say("ending", "building", 4)

BackendStarts ==
    /\ Main("started", "running")
    /\ up' = TRUE
    /\ UNCHANGED <<session, active, counted, files, last, tasks, pending, got, now, player, faults>>

StartFails ==
    /\ Main("started", "ending")
    /\ UNCHANGED <<session, active, counted, files, last, up, tasks, pending, got, now, player, faults>>

SlipBackendStops ==                          \* SLIP: does not wait for the threads
    /\ Main("joining", "down")
    /\ up' = FALSE
    /\ UNCHANGED <<session, active, counted, files, last, tasks, pending, got, now, player, faults>>

(* stop returns when the receivers' threads have ended *)
BackendStops ==
    /\ Main("joining", "down")
    /\ \A t \in {"evt", "stat"} : tasks[t] = Resting
    /\ up' = FALSE
    /\ UNCHANGED <<session, active, counted, files, last, tasks, pending, got, now, player, faults>>

StopFails ==
    /\ StopFaults
    /\ Main("joining", "ending")
    /\ UNCHANGED <<session, active, counted, files, last, up, tasks, pending, got, now, player, faults>>

(* build_close_report: what has been counted by now *)
BuildReport ==
    /\ Main("building", "closing")
    /\ tasks' = [tasks EXCEPT !["main"] =
           [Resting EXCEPT !.in = IF active = 0 THEN 0 ELSE files[active].total]]
    /\ UNCHANGED <<session, active, counted, files, last, up, pending, got, now, player, faults>>

CloseFile ==
    /\ \/ /\ Main("closing", "reporting")
          /\ active # 0 /\ Works
          /\ files' = [files EXCEPT ![active].state = "closed"]
       \/ /\ Main("closing", "forgetting")
          /\ (active = 0 /\ Works) \/ (active # 0 /\ DiskFails)
          /\ UNCHANGED files
    /\ UNCHANGED <<session, active, counted, last, up, tasks, pending, got, now, player>>

WriteReport ==
    /\ Main("reporting", "forgetting")
    /\ \/ /\ files' = [files EXCEPT ![active].report = tasks["main"].in]
          /\ last' = active /\ Works
       \/ /\ DiskFails
          /\ UNCHANGED <<files, last>>
    /\ UNCHANGED <<session, active, counted, up, tasks, pending, got, now, player>>

(* the controller lets go of the recorder, closing what a failure left open *)
Forget ==
    /\ Main("forgetting", "idle")
    /\ active' = 0 /\ counted' = 0
    /\ files' = IF active # 0 THEN [files EXCEPT ![active].state = "closed"] ELSE files
    /\ tasks' = [tasks EXCEPT !["main"] = Resting]
    /\ UNCHANGED <<session, last, up, pending, got, now, player, faults>>

-----------------------------------------------------------------------------
(* The receivers and the worker of a command.                              *)

EvtPacket ==
    /\ up /\ tasks["evt"] = Resting /\ got.evt < Packets
    /\ RecordEvent("evt", "udp_evt", session, got.evt + 1)
    /\ got' = [got EXCEPT !.evt = @ + 1]
    /\ UNCHANGED <<phase, session, active, counted, files, last, up, pending, now, player, faults>>

(* the same callback's second record, the note the packet stands for *)
EvtNote ==
    /\ tasks["evt"].at = "rest" /\ tasks["evt"].rec.kind = "udp_evt"
    /\ RecordEvent("evt", "midi_event", session, tasks["evt"].rec.n)
    /\ UNCHANGED <<phase, session, active, counted, files, last, up, pending, got, now, player, faults>>

StatPacket ==
    /\ up /\ tasks["stat"] = Resting /\ got.stat < Stats
    /\ RecordEvent("stat", "udp_stat", session, got.stat + 1)
    /\ got' = [got EXCEPT !.stat = @ + 1]
    /\ UNCHANGED <<phase, session, active, counted, files, last, up, pending, now, player, faults>>

(* a callback whose last record is done returns *)
Return(t) ==
    /\ tasks[t].at = "rest" /\ tasks[t] # Resting
    /\ t = "evt" => tasks[t].rec.kind = "midi_event"
    /\ tasks' = [tasks EXCEPT ![t] = Resting]
    /\ UNCHANGED <<phase, session, active, counted, files, last, up, pending, got, now, player, faults>>

SendCommand ==
    /\ phase = "running" /\ got.cmd < Commands /\ pending = <<>>
    /\ pending' = <<session>>
    /\ got' = [got EXCEPT !.cmd = @ + 1]
    /\ UNCHANGED <<phase, session, active, counted, files, last, up, tasks, now, player, faults>>

(* its transaction ends, however long ago its session ended *)
CommandDone ==
    /\ pending # <<>> /\ tasks["cmd"] = Resting
    /\ RecordEvent("cmd", "command", Head(pending), got.cmd)
    /\ pending' = <<>>
    /\ UNCHANGED <<phase, session, active, counted, files, last, up, got, now, player, faults>>

Tick ==
    /\ now < MaxTime
    /\ now' = now + 1
    /\ UNCHANGED <<phase, session, active, counted, files, last, up, tasks, pending, got, player, faults>>

-----------------------------------------------------------------------------
(* The replay.                                                             *)

IsRecord(f, i) == i \in DOMAIN f /\ f[i] # EndOfLine

Starts(f, i) == IsRecord(f, i) /\ ~ IsRecord(f, i - 1)

(* a line holds one record; more than one cannot be parsed *)
Whole(f) == {i \in DOMAIN f : Starts(f, i) /\ ~ IsRecord(f, i + 1)}

Damaged(f) == {i \in DOMAIN f : Starts(f, i) /\ IsRecord(f, i + 1)}

Notes(f) == {i \in Whole(f) : f[i].kind = "midi_event"}

SlipEarlier(f, i, j) == f[i].ts < f[j].ts \/ (f[i].ts = f[j].ts /\ i > j)    \* SLIP: a sort that is not stable

Earlier(f, i, j) == f[i].ts < f[j].ts \/ (f[i].ts = f[j].ts /\ i < j)

EventsOf(f) ==
    LET order == SetToSortSeq(Notes(f), LAMBDA i, j : Earlier(f, i, j))
    IN [i \in DOMAIN order |-> f[order[i]]]

(* load_replay_session, of a recording nothing writes to any more *)
Load(s, strict) ==
    LET f == files[s].text IN
    /\ player.at = "off" /\ files[s].state = "closed" /\ phase = "idle"
    /\ player' = IF strict /\ Damaged(f) # {} THEN [player EXCEPT !.at = "refused", !.of = s]
                 ELSE [Silent EXCEPT !.at = "playing", !.of = s, !.events = EventsOf(f),
                                     !.skipped = Cardinality(Damaged(f))]
    /\ UNCHANGED <<phase, session, active, counted, files, last, up, tasks, pending, got, now, faults>>

(* the wait before event i *)
Gap(e, i) == IF i = 1 THEN 0 ELSE e[i].ts - e[i - 1].ts

Send ==
    LET e == player.events  i == player.next  at == player.clock + Gap(e, i) IN
    /\ player.at = "playing" /\ i <= Len(e)
    /\ player' = [player EXCEPT !.next = i + 1, !.clock = at,
                                !.sent = Append(@, [n |-> e[i].n, at |-> at])]
    /\ UNCHANGED <<phase, session, active, counted, files, last, up, tasks, pending, got, now, faults>>

-----------------------------------------------------------------------------

Thread(t) == WriteLine(t) \/ EndLine(t) \/ Count(t)

Next ==
    \/ Open \/ Account \/ SayStarted \/ SayBeforeStop \/ SayStopped \/ SayReport
    \/ BackendStarts \/ StartFails \/ BackendStops \/ StopFails
    \/ BuildReport \/ CloseFile \/ WriteReport \/ Forget
    \/ EvtPacket \/ EvtNote \/ StatPacket \/ SendCommand \/ CommandDone \/ Tick
    \/ \E t \in Threads : Thread(t)
    \/ \E t \in {"evt", "stat", "cmd"} : Return(t)
    \/ \E s \in Ids, strict \in BOOLEAN : Load(s, strict)
    \/ Send

Spec == Init /\ [][Next]_vars

-----------------------------------------------------------------------------

NumberOf(s) == Cardinality({i \in DOMAIN files[s].text : IsRecord(files[s].text, i)})

(* Types; the recorder and the accumulator in use are those of the last      *)
(* session, and a report exists only of a file that has been closed.         *)
TypeOK ==
    /\ session \in 0..Sessions /\ last \in 0..session
    /\ active \in {0, session} /\ counted \in {0, active}
    /\ up \in BOOLEAN /\ now \in 0..MaxTime
    /\ \A t \in Threads :
        /\ tasks[t].at \in {"rest", "line", "newline", "count"}
        /\ tasks[t].at # "rest" => /\ tasks[t].to \in 1..session
                                  /\ tasks[t].in \in {0, tasks[t].to}
                                  /\ tasks[t].rec \in Records
    /\ \A s \in Ids :
        /\ files[s].state \in {"none", "open", "closed"}
        /\ files[s].state = "none" => files[s] = NoFile
        /\ \A i \in DOMAIN files[s].text : files[s].text[i] \in Records \cup {EndOfLine}
        /\ files[s].total \in Nat
        /\ files[s].report # -1 => files[s].state = "closed"

(* A report states no more records than its file holds, whatever failed and  *)
(* whichever thread wrote at the end (observe_record after write_record).    *)
ReportClaimsNoMore ==
    \A s \in Ids : files[s].report <= NumberOf(s)

(* With a disk that works and no command under way at the end, a report      *)
(* counts every record of its file: the receivers have ended by then.        *)
ReportCountsAll ==
    \A s \in Ids : files[s].report # -1 => files[s].report = NumberOf(s)

(* Once a session's report exists, its recording does not change any more,   *)
(* late threads included (close_session closes before it reports).           *)
ReportIsTheEnd ==
    [][\A s \in Ids : files[s].report # -1 => files'[s].text = files[s].text]_vars

(* The artifacts get_last_recording_artifacts names are complete.            *)
ArtifactsExist ==
    last # 0 => files[last].state = "closed" /\ files[last].report # -1

(* A replay plays the notes in the order the garden played them, the ones of *)
(* one millisecond included (extract_replay_events sorts by time and place). *)
ReplayKeepsOrder ==
    \A i, j \in DOMAIN player.sent : i < j => player.sent[i].n < player.sent[j].n

(* ... and each as long after the first as it was recorded after it.         *)
ReplayKeepsTiming ==
    \A i \in DOMAIN player.sent :
        player.sent[i].at = player.events[i].ts - player.events[1].ts

(* A replay that reports no skipped record has every note of the recording,  *)
(* and one loaded strictly is refused or has them all.                       *)
NothingLostSilently ==
    player.at = "playing" /\ player.skipped = 0 =>
        \A i \in DOMAIN files[player.of].text :
            LET r == files[player.of].text[i] IN
            r.kind = "midi_event" => \E k \in DOMAIN player.events : player.events[k] = r

(* A recording is a file of lines that each hold one record, as the test of  *)
(* the writer says.                                                          *)
EachLineIsARecord ==
    \A s \in Ids : files[s].state = "closed" => Damaged(files[s].text) = {}

(* What a session's recording tells happened in that session.                *)
FilesAreOfTheirSession ==
    \A s \in Ids : \A i \in DOMAIN files[s].text :
        IsRecord(files[s].text, i) => files[s].text[i].of = s
=============================================================================
