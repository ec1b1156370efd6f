----------------------- MODULE SessionLifecycleProofs -----------------------
(***************************************************************************)
(* What holds of the session controller for any number of workers and      *)
(* sessions, and with every step of the UI thread interleaved with theirs. *)
(***************************************************************************)
EXTENDS MCSession, FiniteSetTheorems, TLAPS

\* Where the UI thread is tells which state is published.
StateFollowsMain ==
  /\ main = "ready" => state \in {"idle", "running", "error"}
  /\ main \in {"clear", "start"} => state = "starting"
  /\ main \in {"activate", "built"} => state = "running"
  /\ main = "built" => spec = "udp"
  /\ main = "stop" => state = "stopping"
  /\ state \in {"starting", "running", "stopping"} => attempt \in Sessions

\* The backend is there exactly while its session runs, but for the object a
\* failed stop leaves in the error state.
BackendFollowsState ==
  /\ state \in {"idle", "starting"} => backend = None /\ live = {}
  /\ state \in {"running", "stopping"} => backend = attempt /\ live = {attempt}
  /\ state = "error" => backend \in {None, attempt} /\ live = {}

\* So is the recording, if one was opened.
RecorderFollowsState ==
  /\ opened \ {recorder} = reported
  /\ recorder \in opened \cup {None}
  /\ opened \subseteq 1..attempt
  /\ state \in {"idle", "error"} \/ main = "clear" => recorder = None
  /\ main = "clear" => attempt \notin opened
  /\ state \in {"starting", "running", "stopping"} /\ attempt \in opened => recorder = attempt

\* A worker in a command knows its session, and holds an address only while it
\* is about to cache it.
WorkersAreInCommands ==
  \A w \in Workers :
    /\ worker[w].pc # "rest" => worker[w].of \in Sessions
    /\ worker[w].pc # "cache" => worker[w].ip = None

\* One listener at most, and none without a runtime somebody refers to.
Refers(r) == r = runtime \/ \E w \in Workers : worker[w].rt = r
ListenersAreReferred ==
  /\ \A r, s \in listening : r = s
  /\ \A r \in listening : Refers(r)
  /\ \A r \in Runtimes : rows[r] # None => Refers(r)

\* As long as nothing overlaps, workers are busy only while their session runs,
\* and all they and the controller hold is of this session.
BusyIsRunning == ~Resting => state = "running" /\ spec = "udp"
WorkersAreOfSession ==
  \A w \in Workers :
    /\ worker[w].pc # "rest" => worker[w].of = attempt
    /\ worker[w].rt # NoRuntime => worker[w].rt[2] = attempt
    /\ worker[w].ip \in {None, attempt}
RuntimeIsOfSession ==
  runtime # NoRuntime =>
    state \in {"running", "stopping"} /\ spec = "udp" /\ runtime[2] = attempt
RowsAreOfSession == \A r \in Runtimes : rows[r] \in {None, attempt}
CachesAreOfSession ==
  /\ ips \in {None, attempt} /\ status \in {None, attempt}
  /\ state = "idle" => ips = None /\ status = None
AllIsOfThisSession ==
  /\ BusyIsRunning /\ WorkersAreOfSession /\ RuntimeIsOfSession
  /\ RowsAreOfSession /\ CachesAreOfSession

SessionInv ==
  /\ TypeOK
  /\ StateFollowsMain
  /\ BackendFollowsState
  /\ RecorderFollowsState
  /\ WorkersAreInCommands
  /\ ListenersAreReferred
  /\ ~overlapped => AllIsOfThisSession

----------------------------------------------------------------------------
(* Types. *)

\* The sets the variables range over.
WorkerType ==
  [pc : {"rest", "look", "publish", "resolve", "cache", "bind", "wait", "record"},
   rt : Runtimes \cup {NoRuntime}, of : Sessions \cup {None}, ip : Sessions \cup {None}]
RestIsNoRuntime(w) == worker[w].pc \in {"rest", "look"} <=> worker[w].rt = NoRuntime

\* No runtime is the one nobody built.
LEMMA NoRuntimeIsNone == NoRuntime \notin Runtimes /\ None \notin Sessions
  BY WorkersAndSessions DEF SessionAssumption, NoRuntime, Runtimes, Sessions, None

\* Collecting what nobody refers to only takes listeners and rows away.
LEMMA CollectTyped ==
  ASSUME NEW published, NEW workers, NEW open, NEW last, Collect(published, workers, open, last),
         open \subseteq Runtimes, last \in [Runtimes -> Sessions \cup {None}]
  PROVE  /\ listening' \subseteq open
         /\ rows' \in [Runtimes -> Sessions \cup {None}]
  BY DEF Collect

\* Types survive every step of the UI thread.
LEMMA MainTyped ==
  ASSUME SessionInv, Main \/ RequestStart \/ RequestStop \/ ResetError \/ ReloadConfig \/ Poll
  PROVE  TypeOK'
<1>0. /\ TypeOK /\ StateFollowsMain /\ BackendFollowsState /\ WorkersAreInCommands
      /\ MaxSessions \in Nat /\ attempt \in Sessions \cup {None} /\ worker \in [Workers -> WorkerType]
      /\ \A w \in Workers : RestIsNoRuntime(w)
      /\ listening \subseteq Runtimes /\ rows \in [Runtimes -> Sessions \cup {None}]
  BY WorkersAndSessions DEF SessionInv, TypeOK, WorkerType, RestIsNoRuntime, SessionAssumption
<1>1. ASSUME Shutdown
      PROVE  /\ runtime' = NoRuntime /\ listening' \subseteq Runtimes
             /\ rows' \in [Runtimes -> Sessions \cup {None}]
  BY <1>0, <1>1, CollectTyped DEF Shutdown
<1>2. CASE RequestStart \/ RequestStop
  <2>1. attempt' \in Sessions \cup {None}
    BY <1>0, <1>2 DEF RequestStart, RequestStop, Sessions, None
  <2>2. overlapped' \in BOOLEAN
    BY <1>2 DEF RequestStart, RequestStop, Overlaps
  <2> QED
    BY <1>0, <1>2, <2>1, <2>2 DEF RequestStart, RequestStop, Enters, TypeOK, recording,
                                  plane, caches
<1>3. CASE ClearForStart
  <2>1. attempt \in Sessions
    BY <1>0, <1>3 DEF ClearForStart, StateFollowsMain
  <2> QED
    BY <1>0, <1>1, <1>3, <2>1 DEF ClearForStart, Clear, TypeOK
<1>4. CASE StartRefused
  BY <1>0, <1>1, <1>4 DEF StartRefused, Enters, CloseRecording, TypeOK, caches
<1>5. CASE BackendStarts
  <2>1. attempt \in Sessions
    BY <1>0, <1>5 DEF BackendStarts, StateFollowsMain
  <2> QED
    BY <1>0, <1>5, <2>1 DEF BackendStarts, Enters, TypeOK, recording, plane, caches
<1>6. CASE Activate
  BY <1>0, <1>1, <1>6 DEF Activate, TypeOK, recording, plane, caches
<1>7. CASE PublishRuntime
  <2>1. attempt \in Sessions
    BY <1>0, <1>7 DEF PublishRuntime, StateFollowsMain
  <2>2. /\ runtime' \in Runtimes /\ listening' \subseteq Runtimes
        /\ rows' \in [Runtimes -> Sessions \cup {None}]
    BY <1>0, <1>7, <2>1, CollectTyped DEF PublishRuntime, Runtimes
  <2> QED
    BY <1>0, <1>7, <2>2 DEF PublishRuntime, TypeOK, recording, caches
<1>8. CASE StopBackend
  BY <1>0, <1>1, <1>8 DEF StopBackend, Enters, Clear, CloseRecording, TypeOK
<1>9. CASE StopFails
  BY <1>0, <1>1, <1>9 DEF StopFails, Enters, CloseRecording, TypeOK, caches
<1>10. CASE ResetError
  BY <1>0, <1>1, <1>10 DEF ResetError, Enters, Clear, CloseRecording, Overlaps, TypeOK
<1>11. CASE ReloadConfig
  BY <1>0, <1>1, <1>11 DEF ReloadConfig, Clear, TypeOK, recording
<1>12. CASE Poll
  <2>1. ips' \in Sessions \cup {None} /\ status' \in Sessions \cup {None}
    BY <1>0, <1>12 DEF Poll, TypeOK, Upsert
  <2> QED
    BY <1>0, <1>12, <2>1 DEF Poll, TypeOK, session, recording, plane
<1> QED
  BY <1>2, <1>3, <1>4, <1>5, <1>6, <1>7, <1>8, <1>9, <1>10, <1>11, <1>12 DEF Main

\* Types, and what a worker knows, survive every step of a command.
LEMMA WorkerTyped ==
  ASSUME SessionInv, NEW w \in Workers, Ensure(w) \/ Work(w)
  PROVE  TypeOK' /\ WorkersAreInCommands'
<1>0. /\ TypeOK /\ StateFollowsMain /\ BackendFollowsState /\ WorkersAreInCommands
      /\ attempt \in Sessions \cup {None} /\ worker \in [Workers -> WorkerType]
      /\ \A v \in Workers : RestIsNoRuntime(v)
      /\ listening \subseteq Runtimes /\ rows \in [Runtimes -> Sessions \cup {None}]
      /\ runtime \in Runtimes \cup {NoRuntime} /\ {backend, ips, status} \subseteq Sessions \cup {None}
  BY DEF SessionInv, TypeOK, WorkerType, RestIsNoRuntime
<1>1. UNCHANGED <<session, recording, overlapped>>
  BY DEF Ensure, Work, Look, Publish, Resolve, Unresolved, CacheIp, Bind, Answered, Record
<1>2. /\ listening' \subseteq Runtimes /\ rows' \in [Runtimes -> Sessions \cup {None}]
      /\ runtime' \in Runtimes \cup {NoRuntime}
      /\ {ips', status'} \subseteq Sessions \cup {None}
  <2>1. CASE Ensure(w) \/ Look(w) \/ Resolve(w)
    BY <1>0, <2>1 DEF Ensure, Look, Resolve, plane, caches
  <2>2. CASE Publish(w)
    <3>1. worker[w].rt \in Runtimes
      BY <1>0, <2>2 DEF Publish, RestIsNoRuntime, WorkerType
    <3> QED
      BY <1>0, <2>2, <3>1, CollectTyped DEF Publish, caches
  <2>3. CASE Unresolved(w)
    BY <1>0, <2>3, CollectTyped DEF Unresolved, Drops, caches
  <2>4. CASE CacheIp(w)
    BY <1>0, <2>4 DEF CacheIp, plane, WorkerType
  <2>5. CASE Bind(w) \/ Answered(w)
    <3>1. worker[w].rt \in Runtimes /\ worker[w].of \in Sessions \cup {None}
      BY <1>0, <2>5 DEF Bind, Answered, RestIsNoRuntime, WorkerType
    <3> QED
      BY <1>0, <2>5, <3>1 DEF Bind, Answered, caches
  <2>6. CASE Record(w)
    <3>1. worker[w].rt \in Runtimes /\ worker[w].of \in Sessions \cup {None}
      BY <1>0, <2>6 DEF Record, RestIsNoRuntime, WorkerType
    <3>2. status' \in Sessions \cup {None}
      BY <1>0, <2>6, <3>1 DEF Record, Upsert
    <3> QED
      BY <1>0, <2>6, <3>2, CollectTyped DEF Record, Drops
  <2> QED
    BY <2>1, <2>2, <2>3, <2>4, <2>5, <2>6 DEF Work
<1>3. PICK rec \in WorkerType :
        /\ worker' = [worker EXCEPT ![w] = rec]
        /\ rec.pc \in {"rest", "look"} <=> rec.rt = NoRuntime
        /\ rec.pc # "rest" => rec.of \in Sessions
        /\ rec.pc # "cache" => rec.ip = None
  <2>0. AtRest \in WorkerType
    BY DEF AtRest, WorkerType
  <2>1. CASE Ensure(w)
    <3> DEFINE rec == [AtRest EXCEPT !.pc = "look", !.of = attempt]
    <3>1. rec \in WorkerType /\ rec.pc = "look" /\ rec.of = attempt /\ rec.rt = NoRuntime
          /\ rec.ip = None /\ attempt \in Sessions
      BY <1>0, <2>1 DEF Ensure, AtRest, WorkerType, StateFollowsMain
    <3> QED
      BY <2>1, <3>1 DEF Ensure
  <2>2. CASE Look(w) /\ runtime # NoRuntime
    <3> DEFINE rec == [worker[w] EXCEPT !.pc = "resolve", !.rt = runtime]
    <3>1. rec \in WorkerType /\ rec.pc = "resolve" /\ rec.rt # NoRuntime
          /\ rec.of \in Sessions /\ rec.ip = None
      BY <1>0, <2>2 DEF Look, WorkerType, WorkersAreInCommands
    <3>2. worker' = [worker EXCEPT ![w] = rec]
      BY <1>0, <2>2 DEF Look
    <3> QED
      BY <3>1, <3>2
  <2>3. CASE Look(w) /\ runtime = NoRuntime
    <3> DEFINE rec == [worker[w] EXCEPT !.pc = "publish", !.rt = <<w, worker[w].of>>]
    <3>1. worker[w].of \in Sessions /\ worker[w].ip = None
      BY <1>0, <2>3 DEF Look, WorkersAreInCommands
    <3>2. <<w, worker[w].of>> \in Runtimes
      BY <3>1 DEF Runtimes
    <3>3. rec \in WorkerType /\ rec.pc = "publish" /\ rec.rt # NoRuntime
          /\ rec.of \in Sessions /\ rec.ip = None
      BY <1>0, <3>1, <3>2, NoRuntimeIsNone DEF WorkerType
    <3>4. worker' = [worker EXCEPT ![w] = rec]
      BY <1>0, <2>3 DEF Look
    <3> QED
      BY <3>3, <3>4
  <2>4. ASSUME worker[w].pc \notin {"rest", "look", "cache"},
               NEW pc \in {"resolve", "bind", "wait", "record"}, Goes(w, pc)
        PROVE  \E rec \in WorkerType :
                 /\ worker' = [worker EXCEPT ![w] = rec]
                 /\ rec.pc \in {"rest", "look"} <=> rec.rt = NoRuntime
                 /\ rec.pc # "rest" => rec.of \in Sessions
                 /\ rec.pc # "cache" => rec.ip = None
    <3> DEFINE rec == [worker[w] EXCEPT !.pc = pc]
    <3>1. rec \in WorkerType /\ rec.pc = pc /\ rec.rt # NoRuntime
          /\ rec.of \in Sessions /\ rec.ip = None
      BY <1>0, <2>4 DEF WorkerType, WorkersAreInCommands, RestIsNoRuntime
    <3>2. worker' = [worker EXCEPT ![w] = rec]
      BY <1>0, <2>4 DEF Goes
    <3> QED
      BY <3>1, <3>2
  <2>5. CASE Publish(w) \/ Bind(w) \/ Answered(w)
    BY <2>4, <2>5 DEF Publish, Bind, Answered
  <2>6. CASE Resolve(w)
    <3>1. CASE Goes(w, "bind")
      BY <2>4, <2>6, <3>1 DEF Resolve
    <3>2. CASE backend # None /\ worker' = [worker EXCEPT ![w].pc = "cache", ![w].ip = backend]
      <4> DEFINE rec == [worker[w] EXCEPT !.pc = "cache", !.ip = backend]
      <4>1. rec \in WorkerType /\ rec.pc = "cache" /\ rec.rt # NoRuntime /\ rec.of \in Sessions
        BY <1>0, <2>6 DEF Resolve, WorkerType, WorkersAreInCommands, RestIsNoRuntime
      <4>2. worker' = [worker EXCEPT ![w] = rec]
        BY <1>0, <3>2
      <4> QED
        BY <4>1, <4>2
    <3> QED
      BY <2>6, <3>1, <3>2 DEF Resolve
  <2>7. CASE Unresolved(w) \/ Record(w)
    <3>1. worker' = [worker EXCEPT ![w] = AtRest]
      BY <2>7 DEF Unresolved, Record, Drops
    <3> QED
      BY <2>0, <3>1 DEF AtRest
  <2>8. CASE CacheIp(w)
    <3> DEFINE rec == [worker[w] EXCEPT !.pc = "bind", !.ip = None]
    <3>1. rec \in WorkerType /\ rec.pc = "bind" /\ rec.rt # NoRuntime
          /\ rec.of \in Sessions /\ rec.ip = None
      BY <1>0, <2>8 DEF CacheIp, WorkerType, WorkersAreInCommands, RestIsNoRuntime
    <3>2. worker' = [worker EXCEPT ![w] = rec]
      BY <1>0, <2>8 DEF CacheIp
    <3> QED
      BY <3>1, <3>2
  <2> QED
    BY <2>1, <2>2, <2>3, <2>5, <2>6, <2>7, <2>8 DEF Work
<1>4. /\ worker' \in [Workers -> WorkerType]
      /\ \A v \in Workers : RestIsNoRuntime(v)'
  BY <1>0, <1>3 DEF RestIsNoRuntime
<1>5. WorkersAreInCommands'
  BY <1>0, <1>3 DEF WorkersAreInCommands
<1>6. TypeOK'
  BY <1>0, <1>1, <1>2, <1>4 DEF TypeOK, session, recording, WorkerType, RestIsNoRuntime
<1> QED
  BY <1>5, <1>6

----------------------------------------------------------------------------
(* The parts of a session. *)

\* Only the UI thread moves the session, its backend and its recording.
LEMMA WorkerLeavesSession ==
  ASSUME NEW w \in Workers, Ensure(w) \/ Work(w)
  PROVE  UNCHANGED <<state, main, spec, attempt, backend, live, recorder, opened,
                     reported, overlapped>>
  BY DEF Ensure, Work, Look, Publish, Resolve, Unresolved, CacheIp, Bind, Answered,
         Record, session, recording

\* State, backend and recording move together (start_session, stop_session,
\* reset_error and their error paths).
LEMMA MainKeepsParts ==
  ASSUME SessionInv, Main \/ RequestStart \/ RequestStop \/ ResetError \/ ReloadConfig \/ Poll
  PROVE  /\ StateFollowsMain' /\ BackendFollowsState' /\ RecorderFollowsState'
         /\ WorkersAreInCommands'
<1>0. /\ StateFollowsMain /\ BackendFollowsState /\ RecorderFollowsState
      /\ attempt \in Sessions \cup {None} /\ MaxSessions \in Nat
      /\ WorkersAreInCommands
  BY WorkersAndSessions DEF SessionInv, TypeOK, SessionAssumption
<1>1. worker' = worker
  BY DEF Main, RequestStart, RequestStop, ResetError, ReloadConfig, Poll, ClearForStart,
         StartRefused, BackendStarts, Activate, PublishRuntime, StopBackend, StopFails
<1>2. WorkersAreInCommands'
  BY <1>0, <1>1 DEF WorkersAreInCommands
<1>3. CASE RequestStart
  <2>1. /\ attempt' \in Sessions /\ attempt' = attempt + 1 /\ attempt \in Nat
    BY <1>0, <1>3 DEF RequestStart, Sessions, None
  <2>2. opened \subseteq 1..attempt' /\ attempt' \notin opened
    BY <1>0, <2>1 DEF RecorderFollowsState
  <2> QED
    BY <1>0, <1>2, <1>3, <2>1, <2>2
       DEF RequestStart, Enters, recording, StateFollowsMain, BackendFollowsState,
           RecorderFollowsState
<1>4. CASE ClearForStart
  <2>1. attempt \in Sessions /\ attempt \in 1..attempt
    BY <1>0, <1>4 DEF ClearForStart, StateFollowsMain, Sessions
  <2>2. StateFollowsMain' /\ BackendFollowsState'
    BY <1>0, <1>4 DEF ClearForStart, StateFollowsMain, BackendFollowsState
  <2>3. /\ state' = "starting" /\ main' = "start" /\ attempt' = attempt /\ reported' = reported
        /\ opened = reported /\ attempt \notin opened /\ opened \subseteq 1..attempt
    BY <1>0, <1>4 DEF ClearForStart, StateFollowsMain, RecorderFollowsState, None
  <2>4. \/ recorder' = attempt /\ opened' = opened \cup {attempt}
        \/ recorder' = None /\ opened' = opened
    BY <1>4 DEF ClearForStart
  <2>5. None \notin opened
    BY <2>3 DEF None
  <2>6. RecorderFollowsState'
    BY <2>1, <2>3, <2>4, <2>5 DEF RecorderFollowsState
  <2> QED
    BY <1>2, <2>2, <2>6
<1>5. CASE StartRefused \/ StopBackend \/ StopFails \/ ResetError
  <2>1. /\ recorder' = None /\ reported' = opened' /\ opened' = opened
    BY <1>0, <1>5 DEF StartRefused, StopBackend, StopFails, ResetError, CloseRecording,
       RecorderFollowsState, None
  <2>2. None \notin opened
    BY <1>0 DEF RecorderFollowsState, None
  <2>3. /\ main' = "ready" /\ state' \in {"idle", "error"} /\ attempt' = attempt
        /\ live' = {} /\ backend' \in {None, attempt} /\ (state' = "idle" => backend' = None)
    BY <1>0, <1>5 DEF StartRefused, StopBackend, StopFails, ResetError, Enters,
       StateFollowsMain, BackendFollowsState
  <2>4. StateFollowsMain' /\ BackendFollowsState'
    BY <2>3 DEF StateFollowsMain, BackendFollowsState
  <2>5. RecorderFollowsState'
    BY <1>0, <2>1, <2>2, <2>3 DEF RecorderFollowsState
  <2> QED
    BY <1>2, <2>4, <2>5
<1>6. CASE BackendStarts \/ Activate \/ PublishRuntime \/ RequestStop
  BY <1>0, <1>2, <1>6 DEF BackendStarts, Activate, PublishRuntime, RequestStop, Enters,
     recording, StateFollowsMain, BackendFollowsState, RecorderFollowsState
<1>7. CASE ReloadConfig \/ Poll
  BY <1>0, <1>2, <1>7 DEF ReloadConfig, Poll, session, recording, StateFollowsMain,
     BackendFollowsState, RecorderFollowsState
<1> QED
  BY <1>3, <1>4, <1>5, <1>6, <1>7 DEF Main

----------------------------------------------------------------------------
(* Listeners and rows. *)

\* What is left after collecting is referred to.
LEMMA CollectKeepsReferred ==
  ASSUME NEW open, NEW last, \A r, s \in open : r = s,
         Collect(runtime', worker', open, last)
  PROVE  /\ \A r, s \in listening' : r = s
         /\ \A r \in listening' : Refers(r)'
         /\ \A r \in Runtimes : rows'[r] # None => Refers(r)'
  BY DEF Collect, Refers

\* A listener and a row are there only for a runtime somebody refers to.
LEMMA StepListeners ==
  ASSUME SessionInv, [Next]_vars
  PROVE  ListenersAreReferred'
<1>0. /\ ListenersAreReferred /\ worker \in [Workers -> WorkerType]
      /\ rows \in [Runtimes -> Sessions \cup {None}]
      /\ \A v \in Workers : RestIsNoRuntime(v)
      /\ listening \subseteq Runtimes
  BY DEF SessionInv, TypeOK, WorkerType, RestIsNoRuntime
<1>1. ASSUME Shutdown, worker' = worker PROVE ListenersAreReferred'
  <2>1. /\ runtime' = NoRuntime
        /\ Collect(runtime', worker', listening \ {runtime}, rows)
    BY <1>1 DEF Shutdown
  <2> QED
    BY <1>0, <2>1, CollectKeepsReferred DEF ListenersAreReferred
<1>2. ASSUME UNCHANGED <<runtime, listening, rows>>,
             \A v \in Workers : worker[v].rt # NoRuntime => worker'[v].rt = worker[v].rt
      PROVE  ListenersAreReferred'
  <2>1. ASSUME NEW r \in Runtimes, Refers(r) PROVE Refers(r)'
    BY <1>2, <2>1, NoRuntimeIsNone DEF Refers
  <2> QED
    BY <1>0, <1>2, <2>1 DEF ListenersAreReferred
<1>3. ASSUME Collect(runtime', worker', listening, rows) PROVE ListenersAreReferred'
  BY <1>0, <1>3, CollectKeepsReferred DEF ListenersAreReferred
<1>4. CASE RequestStart \/ RequestStop \/ Poll \/ BackendStarts
  BY <1>2, <1>4 DEF RequestStart, RequestStop, Poll, BackendStarts, plane
<1>5. CASE ClearForStart \/ StartRefused \/ StopBackend \/ StopFails \/ ResetError \/ ReloadConfig
  BY <1>1, <1>5 DEF ClearForStart, StartRefused, StopBackend, StopFails, ResetError, ReloadConfig
<1>6. CASE Activate
  BY <1>1, <1>2, <1>6 DEF Activate, plane
<1>7. CASE PublishRuntime
  BY <1>3, <1>7 DEF PublishRuntime
<1>8. ASSUME NEW w \in Workers, Ensure(w) \/ Look(w) \/ Resolve(w) \/ CacheIp(w)
      PROVE  ListenersAreReferred'
  <2>1. UNCHANGED <<runtime, listening, rows>>
    BY <1>8 DEF Ensure, Look, Resolve, CacheIp, plane
  <2>2. \A v \in Workers : worker[v].rt # NoRuntime => worker'[v].rt = worker[v].rt
    <3>1. CASE Ensure(w) \/ Look(w)
      BY <1>0, <3>1 DEF Ensure, Look, RestIsNoRuntime
    <3>2. CASE Resolve(w) \/ CacheIp(w)
      BY <1>0, <3>2 DEF Resolve, CacheIp, Goes, WorkerType
    <3> QED
      BY <1>8, <3>1, <3>2
  <2> QED
    BY <1>2, <2>1, <2>2
<1>9. ASSUME NEW w \in Workers, Publish(w) \/ Unresolved(w) \/ Record(w)
      PROVE  ListenersAreReferred'
  <2>1. CASE Publish(w)
    <3>1. Collect(runtime', worker, listening, rows) /\ Goes(w, "resolve")
      BY <2>1 DEF Publish
    <3>2. \A v \in Workers : worker'[v].rt = worker[v].rt
      BY <1>0, <3>1 DEF Goes, WorkerType
    <3>3. Collect(runtime', worker', listening, rows)
      BY <3>1, <3>2 DEF Collect
    <3> QED
      BY <1>3, <3>3
  <2>2. CASE Unresolved(w) \/ Record(w)
    <3>1. Collect(runtime', worker', listening, rows)
      BY <2>2 DEF Unresolved, Record, Drops
    <3> QED
      BY <1>3, <3>1
  <2> QED
    BY <1>9, <2>1, <2>2
<1>10. ASSUME NEW w \in Workers, Bind(w) \/ Answered(w)
       PROVE  ListenersAreReferred'
  <2>1. /\ runtime' = runtime /\ \A v \in Workers : worker'[v].rt = worker[v].rt
    BY <1>0, <1>10 DEF Bind, Answered, Goes, WorkerType
  <2>2. \A r : Refers(r)' <=> Refers(r)
    BY <2>1 DEF Refers
  <2>3. Refers(worker[w].rt)
    BY DEF Refers
  <2>4. \/ listening' = {worker[w].rt} /\ rows' = rows
        \/ listening' = listening /\ rows' = [rows EXCEPT ![worker[w].rt] = worker[w].of]
    BY <1>10 DEF Bind, Answered
  <2>5. \A r \in Runtimes : rows'[r] # None => r = worker[w].rt \/ rows[r] # None
    BY <1>0, <2>4
  <2>6. (\A r, s \in listening' : r = s) /\ (\A r \in listening' : Refers(r))
    BY <1>0, <2>3, <2>4 DEF ListenersAreReferred
  <2> QED
    BY <1>0, <2>2, <2>3, <2>5, <2>6 DEF ListenersAreReferred
<1>11. CASE UNCHANGED vars
  BY <1>2, <1>11 DEF vars, plane
<1> QED
  BY <1>4, <1>5, <1>6, <1>7, <1>8, <1>9, <1>10, <1>11 DEF Next, Main, Work

----------------------------------------------------------------------------
(* Nothing of an earlier session. *)

\* Collecting brings nothing new into the rows.
LEMMA CollectKeepsRows ==
  ASSUME RowsAreOfSession, attempt' = attempt, NEW published, NEW workers, NEW open,
         Collect(published, workers, open, rows)
  PROVE  RowsAreOfSession'
  BY DEF Collect, RowsAreOfSession

\* Without a runtime and with every worker at rest nothing has a row.
LEMMA RestHasNoRows ==
  ASSUME SessionInv, Resting, runtime = NoRuntime
  PROVE  \A r \in Runtimes : rows[r] = None
<1>1. \A w \in Workers : worker[w].rt = NoRuntime
  BY DEF SessionInv, TypeOK, Resting
<1>2. \A r \in Runtimes : ~Refers(r)
  BY <1>1, NoRuntimeIsNone DEF Refers
<1> QED
  BY <1>2 DEF SessionInv, ListenersAreReferred

\* A step of the UI thread brings nothing of another session in.
LEMMA MainKeepsScope ==
  ASSUME SessionInv, AllIsOfThisSession, ~overlapped',
         Main \/ RequestStart \/ RequestStop \/ ResetError \/ ReloadConfig \/ Poll
  PROVE  AllIsOfThisSession'
<1>0. /\ BusyIsRunning /\ WorkersAreOfSession /\ RuntimeIsOfSession
      /\ RowsAreOfSession /\ CachesAreOfSession
      /\ StateFollowsMain /\ BackendFollowsState /\ WorkersAreInCommands
      /\ \A w \in Workers : worker[w].pc \in {"rest", "look"} <=> worker[w].rt = NoRuntime
      /\ runtime \in Runtimes \cup {NoRuntime}
      /\ state \in {"idle", "starting", "running", "stopping", "error"}
  BY DEF AllIsOfThisSession, SessionInv, TypeOK
<1>1. /\ worker' = worker /\ (Resting' <=> Resting)
  BY DEF Main, RequestStart, RequestStop, ResetError, ReloadConfig, Poll, ClearForStart,
         StartRefused, BackendStarts, Activate, PublishRuntime, StopBackend, StopFails, Resting
<1>2. ASSUME attempt' = attempt PROVE WorkersAreOfSession'
  BY <1>0, <1>1, <1>2 DEF WorkersAreOfSession
<1>3. ASSUME Shutdown, attempt' = attempt PROVE RuntimeIsOfSession' /\ RowsAreOfSession'
  <2>1. RowsAreOfSession'
    BY <1>0, <1>3, CollectKeepsRows DEF Shutdown
  <2> QED
    BY <1>3, <2>1 DEF Shutdown, RuntimeIsOfSession
<1>4. CASE RequestStart
  <2>1. /\ state = "idle" /\ state' = "starting" /\ Resting
        /\ UNCHANGED <<runtime, rows, ips, status>>
    BY <1>4 DEF RequestStart, Overlaps, Enters, plane, caches
  <2>2. runtime = NoRuntime
    BY <1>0, <2>1 DEF RuntimeIsOfSession
  <2>3. \A r \in Runtimes : rows[r] = None
    BY <2>1, <2>2, RestHasNoRows
  <2>4. \A w \in Workers : worker[w].pc = "rest" /\ worker[w].rt = NoRuntime /\ worker[w].ip = None
    BY <1>0, <2>1 DEF Resting, WorkersAreInCommands
  <2>5. WorkersAreOfSession'
    BY <1>1, <2>4 DEF WorkersAreOfSession
  <2>6. BusyIsRunning' /\ RuntimeIsOfSession' /\ RowsAreOfSession' /\ CachesAreOfSession'
    BY <1>0, <1>1, <2>1, <2>2, <2>3
       DEF BusyIsRunning, RuntimeIsOfSession, RowsAreOfSession, CachesAreOfSession
  <2> QED
    BY <2>5, <2>6 DEF AllIsOfThisSession
<1>5. CASE RequestStop
  <2>1. /\ state = "running" /\ state' = "stopping" /\ Resting
        /\ UNCHANGED <<runtime, rows, ips, status, attempt, spec>>
    BY <1>5 DEF RequestStop, Overlaps, Enters, plane, caches
  <2> QED
    BY <1>0, <1>1, <1>2, <2>1 DEF AllIsOfThisSession, BusyIsRunning, RuntimeIsOfSession,
       RowsAreOfSession, CachesAreOfSession
<1>6. CASE ClearForStart \/ StartRefused \/ StopBackend \/ StopFails \/ ResetError \/ ReloadConfig
  <2>1. /\ Shutdown /\ attempt' = attempt
        /\ state \in {"starting", "stopping", "error", "idle"}
    BY <1>0, <1>6 DEF ClearForStart, StartRefused, StopBackend, StopFails, ResetError,
       ReloadConfig, StateFollowsMain
  <2>2. Resting
    BY <1>0, <2>1 DEF BusyIsRunning
  <2>3. \/ ips' = None /\ status' = None
        \/ UNCHANGED <<ips, status>> /\ state' = "error"
    BY <1>6 DEF ClearForStart, StartRefused, StopBackend, StopFails, ResetError,
       ReloadConfig, Clear, Enters, caches
  <2>4. CachesAreOfSession'
    BY <1>0, <2>1, <2>3 DEF CachesAreOfSession
  <2>5. BusyIsRunning'
    BY <1>1, <2>2 DEF BusyIsRunning
  <2> QED
    BY <1>2, <1>3, <2>1, <2>4, <2>5 DEF AllIsOfThisSession
<1>7. CASE BackendStarts
  <2>1. /\ state = "starting" /\ state' = "running"
        /\ UNCHANGED <<runtime, rows, ips, status, attempt, spec>>
    BY <1>0, <1>7 DEF BackendStarts, Enters, plane, caches, StateFollowsMain
  <2>2. Resting
    BY <1>0, <2>1 DEF BusyIsRunning
  <2> QED
    BY <1>0, <1>1, <1>2, <2>1, <2>2 DEF AllIsOfThisSession, BusyIsRunning,
       RuntimeIsOfSession, RowsAreOfSession, CachesAreOfSession
<1>8. CASE Activate
  <2>1. UNCHANGED <<state, ips, status, attempt, spec>>
    BY <1>8 DEF Activate, caches
  <2>2. BusyIsRunning' /\ CachesAreOfSession'
    BY <1>0, <1>1, <2>1 DEF BusyIsRunning, CachesAreOfSession
  <2>3. RuntimeIsOfSession' /\ RowsAreOfSession'
    <3>1. CASE Shutdown
      BY <1>3, <2>1, <3>1
    <3>2. CASE UNCHANGED plane
      BY <1>0, <2>1, <3>2 DEF plane, RuntimeIsOfSession, RowsAreOfSession
    <3> QED
      BY <1>8, <3>1, <3>2 DEF Activate
  <2> QED
    BY <1>2, <2>1, <2>2, <2>3 DEF AllIsOfThisSession
<1>9. CASE PublishRuntime
  <2>1. /\ UNCHANGED <<state, ips, status, attempt, spec>> /\ state = "running" /\ spec = "udp"
        /\ runtime' = <<"main", attempt>>
        /\ Collect(runtime', worker, listening, rows)
    BY <1>0, <1>9 DEF PublishRuntime, caches, StateFollowsMain
  <2>2. BusyIsRunning' /\ CachesAreOfSession'
    BY <1>0, <1>1, <2>1 DEF BusyIsRunning, CachesAreOfSession
  <2>3. RuntimeIsOfSession'
    BY <2>1 DEF RuntimeIsOfSession
  <2>4. RowsAreOfSession'
    BY <1>0, <2>1, CollectKeepsRows
  <2> QED
    BY <1>2, <2>1, <2>2, <2>3, <2>4 DEF AllIsOfThisSession
<1>10. CASE Poll
  <2>1. /\ UNCHANGED <<state, attempt, spec, runtime, rows, backend>>
        /\ ips' \in {ips, backend}
        /\ status' \in Upsert(status, IF runtime = NoRuntime THEN None ELSE rows[runtime])
    BY <1>10 DEF Poll, session, plane
  <2>2. backend \in {None, attempt} /\ (state = "idle" => backend = None)
    BY <1>0 DEF BackendFollowsState
  <2>3. status' \in {None, attempt} /\ (state = "idle" => status' = None)
    <3>1. CASE runtime = NoRuntime
      BY <1>0, <2>1, <3>1 DEF Upsert, CachesAreOfSession
    <3>2. CASE runtime # NoRuntime
      <4>1. rows[runtime] \in {None, attempt} /\ state # "idle"
        BY <1>0, <3>2 DEF RowsAreOfSession, RuntimeIsOfSession
      <4> QED
        BY <1>0, <2>1, <3>2, <4>1 DEF Upsert, CachesAreOfSession
    <3> QED
      BY <3>1, <3>2
  <2>4. CachesAreOfSession'
    BY <1>0, <2>1, <2>2, <2>3 DEF CachesAreOfSession
  <2> QED
    BY <1>0, <1>1, <1>2, <2>1, <2>4 DEF AllIsOfThisSession, BusyIsRunning,
       RuntimeIsOfSession, RowsAreOfSession
<1> QED
  BY <1>4, <1>5, <1>6, <1>7, <1>8, <1>9, <1>10 DEF Main

\* Neither does a step of a command.
LEMMA WorkerKeepsScope ==
  ASSUME SessionInv, AllIsOfThisSession, NEW w \in Workers, Ensure(w) \/ Work(w)
  PROVE  AllIsOfThisSession'
<1>0. /\ BusyIsRunning /\ WorkersAreOfSession /\ RuntimeIsOfSession
      /\ RowsAreOfSession /\ CachesAreOfSession /\ BackendFollowsState
      /\ worker \in [Workers -> WorkerType]
      /\ rows \in [Runtimes -> Sessions \cup {None}]
      /\ \A v \in Workers : RestIsNoRuntime(v)
      /\ WorkersAreInCommands
  BY DEF AllIsOfThisSession, SessionInv, TypeOK, WorkerType, RestIsNoRuntime
<1>1. UNCHANGED <<state, spec, attempt, backend>>
  BY WorkerLeavesSession
<1>2. state = "running" /\ spec = "udp"
  <2>1. CASE Ensure(w)
    BY <2>1 DEF Ensure
  <2>2. CASE Work(w)
    <3>1. worker[w].pc # "rest"
      BY <2>2 DEF Work, Look, Publish, Resolve, Unresolved, CacheIp, Bind, Answered, Record
    <3> QED
      BY <1>0, <3>1 DEF BusyIsRunning, Resting
  <2> QED
    BY <2>1, <2>2
<1>3. BusyIsRunning'
  BY <1>1, <1>2 DEF BusyIsRunning
<1>4. backend = attempt
  BY <1>0, <1>2 DEF BackendFollowsState
<1>5. WorkersAreOfSession'
  <2>1. CASE Ensure(w)
    BY <1>0, <1>1, <2>1 DEF Ensure, AtRest, WorkersAreOfSession, WorkerType
  <2>2. CASE Look(w)
    <3>1. worker[w].of = attempt
      BY <1>0, <2>2 DEF Look, WorkersAreOfSession
    <3>2. CASE runtime # NoRuntime
      BY <1>0, <1>1, <2>2, <3>1, <3>2
         DEF Look, WorkersAreOfSession, RuntimeIsOfSession, WorkerType
    <3>3. CASE runtime = NoRuntime
      BY <1>0, <1>1, <2>2, <3>1, <3>3 DEF Look, WorkersAreOfSession, WorkerType
    <3> QED
      BY <3>2, <3>3
  <2>3. CASE Publish(w) \/ Bind(w) \/ Answered(w)
    BY <1>0, <1>1, <2>3 DEF Publish, Bind, Answered, Goes, WorkersAreOfSession, WorkerType
  <2>4. CASE Resolve(w) \/ CacheIp(w)
    BY <1>0, <1>1, <1>4, <2>4 DEF Resolve, CacheIp, Goes, WorkersAreOfSession, WorkerType
  <2>5. CASE Unresolved(w) \/ Record(w)
    BY <1>0, <1>1, <2>5 DEF Unresolved, Record, Drops, AtRest, WorkersAreOfSession, WorkerType
  <2> QED
    BY <2>1, <2>2, <2>3, <2>4, <2>5 DEF Work
<1>6. RuntimeIsOfSession'
  <2>1. CASE Publish(w)
    <3>1. worker[w].rt # NoRuntime /\ runtime' = worker[w].rt
      BY <1>0, <2>1 DEF Publish, RestIsNoRuntime
    <3> QED
      BY <1>0, <1>1, <1>2, <3>1 DEF RuntimeIsOfSession, WorkersAreOfSession
  <2>2. CASE ~Publish(w)
    <3>1. runtime' = runtime
      BY <2>2 DEF Ensure, Work, Look, Resolve, Unresolved, CacheIp, Bind, Answered,
                  Record, Drops, plane
    <3> QED
      BY <1>0, <1>1, <3>1 DEF RuntimeIsOfSession
  <2> QED
    BY <2>1, <2>2
<1>7. RowsAreOfSession'
  <2>1. CASE Ensure(w) \/ Look(w) \/ Resolve(w) \/ CacheIp(w)
    BY <1>0, <1>1, <2>1 DEF Ensure, Look, Resolve, CacheIp, plane, RowsAreOfSession
  <2>2. CASE Publish(w) \/ Unresolved(w) \/ Record(w)
    BY <1>0, <1>1, <2>2, CollectKeepsRows DEF Publish, Unresolved, Record, Drops
  <2>3. CASE Bind(w) \/ Answered(w)
    <3>1. worker[w].of = attempt
      BY <1>0, <2>3 DEF Bind, Answered, WorkersAreOfSession
    <3> QED
      BY <1>0, <1>1, <2>3, <3>1 DEF Bind, Answered, RowsAreOfSession
  <2> QED
    BY <2>1, <2>2, <2>3 DEF Work
<1>8. CachesAreOfSession'
  <2>1. ips' \in {None, attempt}
    BY <1>0 DEF Ensure, Work, Look, Publish, Resolve, Unresolved, CacheIp, Bind, Answered,
                Record, caches, CachesAreOfSession, WorkersAreOfSession
  <2>2. status' \in {None, attempt}
    <3>1. CASE Record(w)
      <4>1. worker[w].of = attempt /\ worker[w].rt \in Runtimes
        BY <1>0, <3>1 DEF Record, WorkersAreOfSession, RestIsNoRuntime, WorkerType
      <4>2. rows[worker[w].rt] \in {None, attempt}
        BY <1>0, <4>1 DEF RowsAreOfSession
      <4> QED
        BY <1>0, <3>1, <4>1, <4>2 DEF Record, Upsert, CachesAreOfSession
    <3>2. CASE ~Record(w)
      BY <1>0, <3>2 DEF Ensure, Work, Look, Publish, Resolve, Unresolved, CacheIp, Bind,
                        Answered, caches, CachesAreOfSession
    <3> QED
      BY <3>1, <3>2
  <2> QED
    BY <1>1, <1>2, <2>1, <2>2 DEF CachesAreOfSession
<1> QED
  BY <1>3, <1>5, <1>6, <1>7, <1>8 DEF AllIsOfThisSession

----------------------------------------------------------------------------
(* The invariant. *)

LEMMA InitSessionInv == Init => SessionInv
<1> SUFFICES ASSUME Init PROVE SessionInv
  OBVIOUS
<1>1. MaxSessions \in Nat
  BY WorkersAndSessions DEF SessionAssumption
<1>2. TypeOK /\ WorkersAreInCommands
  BY <1>1 DEF Init, TypeOK, AtRest, WorkersAreInCommands
<1>3. StateFollowsMain /\ BackendFollowsState /\ RecorderFollowsState
  BY DEF Init, StateFollowsMain, BackendFollowsState, RecorderFollowsState
<1>4. ListenersAreReferred
  BY DEF Init, ListenersAreReferred
<1>5. AllIsOfThisSession
  BY DEF Init, AllIsOfThisSession, BusyIsRunning, WorkersAreOfSession, RuntimeIsOfSession,
         RowsAreOfSession, CachesAreOfSession, Resting, AtRest
<1> QED
  BY <1>2, <1>3, <1>4, <1>5 DEF SessionInv

LEMMA StepSessionInv == SessionInv /\ [Next]_vars => SessionInv'
<1> SUFFICES ASSUME SessionInv, [Next]_vars PROVE SessionInv'
  OBVIOUS
<1>1. ListenersAreReferred'
  BY StepListeners
<1>2. CASE Main \/ RequestStart \/ RequestStop \/ ResetError \/ ReloadConfig \/ Poll
  <2>1. overlapped => overlapped'
    BY <1>2 DEF Main, RequestStart, RequestStop, ResetError, ReloadConfig, Poll,
       ClearForStart, StartRefused, BackendStarts, Activate, PublishRuntime, StopBackend,
       StopFails, Overlaps
  <2>2. ~overlapped' => AllIsOfThisSession'
    BY <1>2, <2>1, MainKeepsScope DEF SessionInv
  <2>3. /\ TypeOK' /\ StateFollowsMain' /\ BackendFollowsState' /\ RecorderFollowsState'
        /\ WorkersAreInCommands'
    BY <1>2, MainTyped, MainKeepsParts
  <2> QED
    BY <1>1, <2>2, <2>3 DEF SessionInv
<1>3. ASSUME NEW w \in Workers, Ensure(w) \/ Work(w) PROVE SessionInv'
  <2>1. UNCHANGED <<state, main, spec, attempt, backend, live, recorder, opened,
                    reported, overlapped>>
    BY <1>3, WorkerLeavesSession
  <2>2. StateFollowsMain' /\ BackendFollowsState' /\ RecorderFollowsState'
    BY <2>1 DEF SessionInv, StateFollowsMain, BackendFollowsState, RecorderFollowsState
  <2>3. ~overlapped' => AllIsOfThisSession'
    BY <1>3, <2>1, WorkerKeepsScope DEF SessionInv
  <2>4. TypeOK' /\ WorkersAreInCommands'
    BY <1>3, WorkerTyped
  <2> QED
    BY <1>1, <2>2, <2>3, <2>4 DEF SessionInv
<1>4. CASE UNCHANGED vars
  <2>1. TypeOK' /\ WorkersAreInCommands'
    BY <1>4 DEF vars, session, recording, plane, caches, SessionInv, TypeOK,
       WorkersAreInCommands
  <2>2. StateFollowsMain' /\ BackendFollowsState' /\ RecorderFollowsState'
    BY <1>4 DEF vars, session, recording, SessionInv, StateFollowsMain,
       BackendFollowsState, RecorderFollowsState
  <2>3. ~overlapped' => AllIsOfThisSession'
    BY <1>4 DEF vars, session, recording, plane, caches, SessionInv, AllIsOfThisSession,
       BusyIsRunning, WorkersAreOfSession, RuntimeIsOfSession, RowsAreOfSession,
       CachesAreOfSession, Resting
  <2> QED
    BY <1>1, <2>1, <2>2, <2>3 DEF SessionInv
<1> QED
  BY <1>2, <1>3, <1>4 DEF Next

\* Whenever and however it is stopped, also in the middle of commands, a session
\* has one backend, at most one recording and one ACK listener, every opened
\* recording is closed with its report, and an idle controller keeps nothing
\* alive (start_session, stop_session, reset_error, _close_recording_if_open).
THEOREM SessionsOwnTheirParts == Spec => []SessionOwnsItsParts
<1>1. SessionInv => SessionOwnsItsParts
  <2> SUFFICES ASSUME SessionInv PROVE SessionOwnsItsParts
    OBVIOUS
  <2>1. Cardinality(live) <= 1
    <3>1. live = {} \/ live = {attempt}
      BY DEF SessionInv, TypeOK, BackendFollowsState
    <3>2. Cardinality({}) = 0 /\ Cardinality({attempt}) = 1
      BY FS_EmptySet, FS_Singleton
    <3> QED
      BY <3>1, <3>2
  <2>2. OneBackendLives
    BY <2>1 DEF SessionInv, BackendFollowsState, OneBackendLives
  <2>3. RecordingFollowsSession
    BY DEF SessionInv, RecorderFollowsState, RecordingFollowsSession
  <2>4. OneListener
    <3>1. CASE listening = {}
      BY <3>1, FS_EmptySet DEF OneListener
    <3>2. ASSUME NEW r \in listening PROVE OneListener
      <4>1. listening = {r}
        BY DEF SessionInv, ListenersAreReferred
      <4>2. Cardinality({r}) = 1
        BY FS_Singleton
      <4> QED
        BY <4>1, <4>2 DEF OneListener
    <3> QED
      BY <3>1, <3>2
  <2> QED
    BY <2>2, <2>3, <2>4 DEF SessionOwnsItsParts
<1> QED
  BY <1>1, InitSessionInv, StepSessionInv, PTL DEF Spec

\* As long as no session begins or ends while a command is in flight, the
\* runtime, the address commands go to and all the panel shows of a node are of
\* the session that runs, however the UI thread's poll and the commands of any
\* number of workers interleave (_shutdown_control_plane_runtime, the caches
\* cleared by start_session and stop_session).
THEOREM NothingOfEarlierSessions == Spec => []CachesAreOfThisSession
<1>1. SessionInv => CachesAreOfThisSession
  <2> SUFFICES ASSUME SessionInv, ~overlapped
               PROVE  /\ RuntimeFollowsSession
                      /\ main = "ready" => {ips, status} \subseteq {None, attempt}
    BY DEF CachesAreOfThisSession
  <2>1. AllIsOfThisSession
    BY DEF SessionInv
  <2>2. ASSUME Resting PROVE listening \subseteq {runtime}
    <3>1. \A w \in Workers : worker[w].rt = NoRuntime
      BY <2>2 DEF SessionInv, TypeOK, Resting
    <3>2. \A r \in listening : r # NoRuntime
      BY NoRuntimeIsNone DEF SessionInv, TypeOK
    <3> QED
      BY <3>1, <3>2 DEF SessionInv, ListenersAreReferred, Refers
  <2>3. RuntimeFollowsSession
    BY <2>1, <2>2 DEF AllIsOfThisSession, RuntimeIsOfSession, RuntimeFollowsSession, Resting
  <2> QED
    BY <2>1, <2>3 DEF AllIsOfThisSession, CachesAreOfSession
<1> QED
  BY <1>1, InitSessionInv, StepSessionInv, PTL DEF Spec

-----------------------------------------------------------------------------
\* Command numbers.  Of two numbers less than half the number space apart, the
\* one given out later is the newer, also when the numbers have wrapped around.
\* Kept folded, so that the provers reason about sums and not about division.
Rest(a, m) == a % m

LEMMA Division ==
  ASSUME NEW m \in Nat \ {0}, NEW a \in Nat, NEW q \in Int, NEW r \in Int,
         q = a \div m, r = a % m
  PROVE  a = m * q + r /\ r \in 0..(m - 1)
OBVIOUS

LEMMA RestOf ==
  ASSUME NEW m \in Nat \ {0}, NEW a \in Nat
  PROVE  \E q \in Int : a = m * q + Rest(a, m) /\ Rest(a, m) \in 0..(m - 1)
<1>1. PICK q \in Int, r \in Int : q = a \div m /\ r = a % m
  OBVIOUS
<1>2. a = m * q + r /\ r \in 0..(m - 1)
  BY <1>1, Division
<1>3. Rest(a, m) = r
  BY <1>1 DEF Rest
<1> QED
  BY <1>2, <1>3

LEMMA RestIs ==
  ASSUME NEW m \in Nat \ {0}, NEW a \in Nat, NEW q \in Int, NEW r \in 0..(m - 1),
         a = m * q + r
  PROVE  Rest(a, m) = r
BY DEF Rest

LEMMA OneMore ==
  ASSUME NEW m \in Int, NEW q \in Int
  PROVE  m * (q + 1) = m * q + m
OBVIOUS

LEMMA OnceAround ==
  ASSUME NEW m \in Nat \ {0}, NEW d \in 0..(m - 1)
  PROVE  Rest(d, m) = d /\ Rest(d + m, m) = d
BY DEF Rest

LEMMA DistanceIsKept ==
  ASSUME NEW m \in Nat \ {0}, NEW a \in Nat, NEW d \in 1..(m - 1)
  PROVE  Rest(a + d, m) # Rest(a, m) /\ Rest(Rest(a + d, m) + m - Rest(a, m), m) = d
<1>1. PICK q \in Int : a = m * q + Rest(a, m) /\ Rest(a, m) \in 0..(m - 1)
  BY RestOf
<1> DEFINE r == Rest(a, m)
<1>2. a = m * q + r /\ r \in 0..(m - 1)
  BY <1>1
<1> HIDE DEF r
<1>3. CASE r + d < m
  <2>1. a + d = m * q + (r + d) /\ a + d \in Nat /\ r + d \in 0..(m - 1)
    BY <1>2, <1>3
  <2>2. Rest(a + d, m) = r + d
    BY <2>1, RestIs
  <2>3. Rest(d + m, m) = d
    BY OnceAround
  <2>4. r + d + m - r = d + m /\ r + d # r
    BY <1>2
  <2> QED
    BY <2>2, <2>3, <2>4 DEF r
<1>4. CASE r + d >= m
  <2>1. m * (q + 1) = m * q + m /\ q + 1 \in Int
    BY OneMore
  <2>2. a + d = m * (q + 1) + (r + d - m) /\ a + d \in Nat /\ r + d - m \in 0..(m - 1)
    BY <1>2, <1>4, <2>1
  <2>3. Rest(a + d, m) = r + d - m
    BY <2>1, <2>2, RestIs
  <2>4. Rest(d, m) = d
    BY OnceAround
  <2>5. r + d - m + m - r = d /\ r + d - m # r
    BY <1>2
  <2> QED
    BY <2>3, <2>4, <2>5 DEF r
<1> QED
  BY <1>2, <1>3, <1>4

-----------------------------------------------------------------------------
\* The results of commands.  A node has one command at a time, so while a
\* thread holds the row it has read, nobody else writes that node's row.
Answer == [kind : {"unsent", "sent"}, n : 1..MaxCommands]
Steps == {"rest", "tx", "write", "back", "wb1", "last", "wb2"}
ThreadRecord ==
  [pc : Steps, node : Nodes \cup {"none"}, row : Results!Row, prev : Results!Row]
ResultTypes ==
  /\ issued \in 0..MaxCommands
  /\ kept \in [Nodes -> Results!Row] /\ cache \in [Nodes -> Results!Row]
  /\ done \in [Nodes -> SUBSET Answer]
  /\ thread \in [Workers -> ThreadRecord]
  /\ poll \in [node : Nodes \cup {"none"}, row : Results!Row, prev : Results!Row]
OneThread ==
  /\ \A t \in Workers : (thread[t].pc = "rest") <=> (thread[t].node = "none")
  /\ \A t, u \in Workers : thread[t].node = thread[u].node /\ thread[t].node # "none" => t = u

\* What Newest says, also of a node without results.
NewestOf(D, r) ==
  IF D = {} THEN r = Results!Absent
  ELSE r \in D /\ \A d \in D : d.kind = "sent" => r.kind = "sent" /\ r.n >= d.n
\* The results of a node but that of a command: all are of earlier ones.
Older(n, row) == \A d \in done[n] \ {row} : d.n < row.n
ThreadTells(t) ==
  LET n == thread[t].node
      row == thread[t].row IN
  /\ thread[t].pc # "rest" => row \in Answer /\ row.n <= issued
  /\ thread[t].pc = "tx" => row \notin done[n] /\ Older(n, row)
  /\ thread[t].pc = "write" =>
       /\ row \in done[n] /\ Older(n, row)
       /\ thread[t].prev = kept[n] /\ NewestOf(done[n] \ {row}, kept[n])
Writing(n) == \E t \in Workers : thread[t].node = n /\ thread[t].pc = "write"
ResultsTell ==
  /\ \A n \in Nodes : \A d \in done[n] : d.n <= issued
  /\ \A t \in Workers : ThreadTells(t)
  /\ \A n \in Nodes : ~Writing(n) => NewestOf(done[n], kept[n])
ResultsInv == ResultTypes /\ OneThread /\ ResultsTell

\* A later number is newer, and the earlier one is not (IsNewer, Seq).
LEMMA LaterIsNewer ==
  ASSUME NEW old \in Answer, NEW new \in Answer, old.n < new.n
  PROVE  /\ Results!Seq(new) # Results!Seq(old)
         /\ Results!IsNewer(Results!Seq(new), Results!Seq(old))
<1> DEFINE a == Start + old.n
           d == new.n - old.n
<1>0. d \in 1..(SeqMod \div 2 - 1)
  BY MCSessionAssumption DEF Results!StatusAssumption, Answer
<1>1. /\ SeqMod \in Nat \ {0} /\ a \in Nat /\ a + d = Start + new.n
      /\ d \in 1..(SeqMod - 1)
  BY MCSessionAssumption DEF Results!StatusAssumption, Answer
<1>2. Results!Seq(old) = Rest(a, SeqMod) /\ Results!Seq(new) = Rest(a + d, SeqMod)
  BY <1>1 DEF Results!Seq, Rest
<1>3. Results!IsNewer(Results!Seq(new), Results!Seq(old)) <=>
        Rest(Results!Seq(new) + SeqMod - Results!Seq(old), SeqMod) \in 1..(SeqMod \div 2 - 1)
  BY Zenon DEF Results!IsNewer, Rest
<1> HIDE DEF a, d
<1>4. /\ Rest(a + d, SeqMod) # Rest(a, SeqMod)
      /\ Rest(Rest(a + d, SeqMod) + SeqMod - Rest(a, SeqMod), SeqMod) = d
  BY <1>1, DistanceIsKept
<1>5. Results!Seq(new) # Results!Seq(old)
  BY <1>2, <1>4, Zenon
<1>6. Rest(Results!Seq(new) + SeqMod - Results!Seq(old), SeqMod) = d
  BY <1>2, <1>4, Zenon
<1> QED
  BY <1>0, <1>3, <1>5, <1>6, Zenon

\* Choosing between the newest row of older commands and that of a later one
\* gives the newest of all (_select_more_recent...).
LEMMA SelectGivesNewest ==
  ASSUME NEW D \in SUBSET Answer, NEW old, NewestOf(D, old),
         NEW new \in Answer, \A d \in D : d.n < new.n
  PROVE  NewestOf(D \cup {new}, Results!Select(old, new))
<1> USE DEF Answer
<1>1. CASE D = {}
  BY <1>1 DEF NewestOf, Results!Select, Results!Absent
<1>2. CASE D # {}
  <2>1. /\ old \in D /\ old \in Answer /\ old.n < new.n
        /\ \A d \in D : d.kind = "sent" => old.kind = "sent" /\ old.n >= d.n
    BY <1>2 DEF NewestOf
  <2>2. CASE old.kind = "sent" /\ new.kind = "sent"
    <3>1. Results!Select(old, new) = new
      BY <2>1, <2>2, LaterIsNewer DEF Results!Select
    <3> QED
      BY <2>2, <3>1 DEF NewestOf
  <2>3. CASE old.kind = "sent" /\ new.kind = "unsent"
    <3>1. Results!Select(old, new) = old
      BY <2>3 DEF Results!Select
    <3> QED
      BY <2>1, <2>3, <3>1 DEF NewestOf
  <2>4. CASE old.kind = "unsent"
    <3>1. Results!Select(old, new) = new
      BY <2>4 DEF Results!Select
    <3> QED
      BY <2>1, <2>4, <3>1 DEF NewestOf
  <2> QED
    BY <2>1, <2>2, <2>3, <2>4
<1> QED
  BY <1>1, <1>2

LEMMA SelectIsRow ==
  ASSUME NEW old \in Results!Row, NEW new \in Results!Row
  PROVE  Results!Select(old, new) \in Results!Row
BY DEF Results!Select

LEMMA ThreadGoesOn ==
  ASSUME NEW x \in ThreadRecord, NEW s \in Steps
  PROVE  [x EXCEPT !.pc = s] \in ThreadRecord
BY Zenon DEF ThreadRecord

LEMMA ThreadReads ==
  ASSUME NEW x \in ThreadRecord, NEW s \in Steps, NEW r \in Results!Row
  PROVE  [x EXCEPT !.pc = s, !.prev = r] \in ThreadRecord
BY Zenon DEF ThreadRecord

LEMMA ResultsStart ==
  ASSUME Results!Init
  PROVE  ResultsInv
<1> USE DEF Results!Init, Results!AtRest, Results!Absent
<1>1. ResultTypes
  BY MCSessionAssumption DEF ResultTypes, ThreadRecord, Results!Row, Steps, Results!StatusAssumption
<1>2. OneThread
  BY DEF OneThread
<1>3. ResultsTell
  BY DEF ResultsTell, ThreadTells, NewestOf
<1> QED
  BY <1>1, <1>2, <1>3 DEF ResultsInv

LEMMA ResultsStep ==
  ASSUME ResultsInv, Results!Next
  PROVE  ResultsInv'
<1>0. ResultTypes /\ OneThread /\ ResultsTell
  BY DEF ResultsInv
<1>1. ASSUME NEW t \in Workers, NEW n \in Nodes, Results!Send(t, n)
      PROVE  ResultsInv'
  <2>1. PICK k \in {"unsent", "sent"} :
          thread' = [thread EXCEPT ![t] =
            [pc |-> "tx", node |-> n, row |-> [kind |-> k, n |-> issued + 1],
             prev |-> Results!Absent]]
    BY <1>1 DEF Results!Send, Results!AtRest
  <2>2. /\ thread[t].pc = "rest" /\ issued < MaxCommands /\ issued' = issued + 1
        /\ \A u \in Workers : thread[u].node # n
        /\ UNCHANGED <<kept, cache, done, poll>>
    BY <1>1 DEF Results!Send
  <2>3. n # "none"
    BY <1>0, <2>2 DEF OneThread
  <2> DEFINE row == [kind |-> k, n |-> issued + 1]
  <2>4. row \in Answer /\ row \in Results!Row /\ row.n = issued + 1
    <3>1. issued + 1 \in 1..MaxCommands /\ issued + 1 \in 0..MaxCommands
      BY <1>0, <2>2, MCSessionAssumption DEF ResultTypes, Results!StatusAssumption
    <3> QED
      BY <3>1, Zenon DEF Answer, Results!Row
  <2> HIDE DEF row
  <2>5. /\ thread'[t] = [pc |-> "tx", node |-> n, row |-> row, prev |-> Results!Absent]
        /\ \A u \in Workers \ {t} : thread'[u] = thread[u]
    BY <1>0, <2>1 DEF ResultTypes, ThreadRecord, row
  <2>6. ResultTypes'
    <3>1. Results!Absent \in Results!Row /\ issued' \in 0..MaxCommands
      BY <1>0, <2>2, MCSessionAssumption DEF ResultTypes, Results!Row, Results!Absent,
         Results!StatusAssumption
    <3>2. [pc |-> "tx", node |-> n, row |-> row, prev |-> Results!Absent] \in
            ThreadRecord
      BY <2>4, <3>1 DEF Steps, ThreadRecord
    <3> QED
      BY <1>0, <2>1, <2>2, <3>1, <3>2 DEF ResultTypes, ThreadRecord, row
  <2>7. OneThread'
    BY <1>0, <2>2, <2>3, <2>5 DEF OneThread
  <2>8. \A m \in Nodes : \A d \in done[m] : d.n \in Int /\ d.n <= issued
    BY <1>0 DEF ResultTypes, ResultsTell, Answer
  <2>9. ResultsTell'
    <3>1. \A m \in Nodes : Writing(m) <=> Writing(m)'
      BY <2>2, <2>5 DEF Writing
    <3>2. ASSUME NEW u \in Workers \ {t} PROVE ThreadTells(u)'
      <4>1. thread'[u] = thread[u] /\ ThreadTells(u)
        BY <1>0, <2>5 DEF ResultsTell
      <4>2. thread[u].row \in Answer /\ thread[u].row.n <= issued =>
              thread[u].row.n <= issued'
        BY <1>0, <2>2 DEF ResultTypes, Answer
      <4> QED
        BY <2>2, <4>1, <4>2 DEF ThreadTells, Older
    <3>3. ThreadTells(t)'
      BY <1>0, <2>2, <2>4, <2>5, <2>8 DEF ResultTypes, ThreadRecord, ThreadTells, Older
    <3> QED
      BY <1>0, <2>2, <2>8, <3>1, <3>2, <3>3 DEF ResultTypes, ResultsTell
  <2> QED
    BY <2>6, <2>7, <2>9 DEF ResultsInv
<1>2. ASSUME NEW t \in Workers, Results!ReadPrevious(t)
      PROVE  ResultsInv'
  <2> DEFINE n == thread[t].node
             row == thread[t].row
  <2>1. /\ thread[t].pc = "tx" /\ done' = [done EXCEPT ![n] = @ \cup {row}]
        /\ thread' = [thread EXCEPT ![t] = [@ EXCEPT !.pc = "write", !.prev = kept[n]]]
        /\ UNCHANGED <<issued, kept, cache, poll>>
    BY <1>2 DEF Results!ReadPrevious
  <2>2. n \in Nodes /\ n # "none" /\ row \in Answer /\ row.n <= issued
        /\ row \notin done[n] /\ Older(n, row) /\ NewestOf(done[n], kept[n])
    <3>1. n \in Nodes /\ n # "none" /\ row \in Answer /\ row.n <= issued
          /\ row \notin done[n] /\ Older(n, row)
      BY <1>0, <2>1 DEF ResultTypes, ThreadRecord, OneThread, ResultsTell, ThreadTells
    <3>2. ~Writing(n)
      BY <1>0, <2>1, <3>1 DEF OneThread, Writing
    <3> QED
      BY <1>0, <3>1, <3>2 DEF ResultsTell
  <2>3. /\ thread'[t].pc = "write" /\ thread'[t].node = n /\ thread'[t].row = row
        /\ thread'[t].prev = kept[n]
        /\ \A u \in Workers \ {t} : thread'[u] = thread[u] /\ (thread[u].node # n)
        /\ done'[n] = done[n] \cup {row} /\ \A m \in Nodes \ {n} : done'[m] = done[m]
    BY <1>0, <2>1, <2>2 DEF ResultTypes, ThreadRecord, OneThread
  <2>4. ResultTypes'
    <3>1. [thread[t] EXCEPT !.pc = "write", !.prev = kept[n]] \in ThreadRecord
      BY <1>0, <2>2, ThreadReads DEF ResultTypes, Steps
    <3>2. done' \in [Nodes -> SUBSET Answer]
      BY <1>0, <2>1, <2>2 DEF ResultTypes
    <3> QED
      BY <1>0, <2>1, <3>1, <3>2, Zenon DEF ResultTypes
  <2> HIDE DEF n, row
  <2>5. OneThread'
    BY <1>0, <2>1, <2>2, <2>3 DEF OneThread, n
  <2>6. ResultsTell'
    <3>1. ThreadTells(t)'
      <4>1. done'[n] \ {row} = done[n]
        BY <2>2, <2>3
      <4> QED
        BY <2>1, <2>2, <2>3, <4>1 DEF ThreadTells, Older
    <3>2. ASSUME NEW u \in Workers \ {t} PROVE ThreadTells(u)'
      <4>1. thread[u].pc \in {"tx", "write"} => thread[u].node \in Nodes \ {n}
        BY <1>0, <2>3 DEF ResultTypes, ThreadRecord, OneThread
      <4>2. /\ ThreadTells(u) /\ thread'[u] = thread[u] /\ UNCHANGED <<issued, kept>>
            /\ thread[u].pc \in {"tx", "write"} => done'[thread[u].node] = done[thread[u].node]
        BY <1>0, <2>1, <2>3, <4>1 DEF ResultsTell
      <4> QED
        BY <4>2 DEF ThreadTells, Older
    <3>3. \A m \in Nodes : \A d \in done'[m] : d.n <= issued
      BY <1>0, <2>2, <2>3 DEF ResultsTell
    <3>4. ASSUME NEW m \in Nodes, ~Writing(m)' PROVE NewestOf(done'[m], kept[m])
      <4>1. m # n
        BY <2>3, <3>4 DEF Writing
      <4>2. ~Writing(m)
        BY <2>3, <3>4, <2>1 DEF Writing, n
      <4> QED
        BY <1>0, <2>3, <4>1, <4>2 DEF ResultsTell
    <3> QED
      BY <2>1, <3>1, <3>2, <3>3, <3>4 DEF ResultsTell
  <2> QED
    BY <2>4, <2>5, <2>6 DEF ResultsInv
<1>3. ASSUME NEW t \in Workers, Results!WriteRow(t)
      PROVE  ResultsInv'
  <2> DEFINE n == thread[t].node
             row == thread[t].row
  <2>1. /\ thread[t].pc = "write" /\ kept' = [kept EXCEPT ![n] = Results!Select(thread[t].prev, row)]
        /\ thread' = [thread EXCEPT ![t].pc = "back"]
        /\ UNCHANGED <<issued, cache, done, poll>>
    BY <1>3 DEF Results!WriteRow
  <2>2. /\ n \in Nodes /\ n # "none" /\ row \in Answer /\ row \in done[n] /\ Older(n, row)
        /\ thread[t].prev = kept[n] /\ NewestOf(done[n] \ {row}, kept[n])
        /\ row \in Results!Row /\ kept[n] \in Results!Row
    BY <1>0, <2>1 DEF ResultTypes, ThreadRecord, OneThread, ResultsTell, ThreadTells
  <2>3. /\ thread'[t].pc = "back" /\ thread'[t].node = n /\ thread'[t].row = row
        /\ \A u \in Workers \ {t} : thread'[u] = thread[u] /\ (thread[u].node # n)
        /\ kept'[n] = Results!Select(kept[n], row) /\ \A m \in Nodes \ {n} : kept'[m] = kept[m]
    BY <1>0, <2>1, <2>2 DEF ResultTypes, ThreadRecord, OneThread
  <2>4. Results!Select(kept[n], row) \in Results!Row
    BY <2>2, SelectIsRow
  <2>5. ResultTypes'
    <3>1. [thread[t] EXCEPT !.pc = "back"] \in ThreadRecord
      BY <1>0, ThreadGoesOn DEF ResultTypes, Steps
    <3>2. kept' \in [Nodes -> Results!Row]
      BY <1>0, <2>1, <2>2, <2>4 DEF ResultTypes
    <3> QED
      BY <1>0, <2>1, <3>1, <3>2 DEF ResultTypes
  <2> HIDE DEF n, row
  <2>6. OneThread'
    BY <1>0, <2>1, <2>2, <2>3 DEF OneThread, n
  <2>7. ResultsTell'
    <3>1. ThreadTells(t)'
      BY <1>0, <2>1, <2>3 DEF ResultsTell, ThreadTells, row
    <3>2. ASSUME NEW u \in Workers \ {t} PROVE ThreadTells(u)'
      <4>1. thread[u].pc \in {"tx", "write"} => thread[u].node \in Nodes \ {n}
        BY <1>0, <2>3 DEF ResultTypes, ThreadRecord, OneThread
      <4>2. /\ ThreadTells(u) /\ thread'[u] = thread[u] /\ UNCHANGED <<issued, done>>
            /\ thread[u].pc \in {"tx", "write"} => kept'[thread[u].node] = kept[thread[u].node]
        BY <1>0, <2>1, <2>3, <4>1 DEF ResultsTell
      <4> QED
        BY <4>2 DEF ThreadTells, Older
    <3>3. ASSUME NEW m \in Nodes \ {n}, ~Writing(m)' PROVE NewestOf(done[m], kept'[m])
      <4>1. ~Writing(m)
        BY <2>3, <3>3, <2>1 DEF Writing, n
      <4> QED
        BY <1>0, <2>3, <4>1 DEF ResultsTell
    <3>4. NewestOf(done[n], kept'[n])
      <4>1. done[n] \ {row} \in SUBSET Answer /\ \A d \in done[n] \ {row} : d.n < row.n
        BY <1>0, <2>2 DEF ResultTypes, Older
      <4>2. (done[n] \ {row}) \cup {row} = done[n]
        BY <2>2
      <4> QED
        BY <2>2, <2>3, <4>1, <4>2, SelectGivesNewest
    <3> QED
      BY <1>0, <2>1, <2>2, <3>1, <3>2, <3>3, <3>4 DEF ResultsTell
  <2> QED
    BY <2>5, <2>6, <2>7 DEF ResultsInv
\* The copies of the controller and the panel leave the runtime's rows alone.
<1>4. ASSUME UNCHANGED <<issued, thread, kept, done>>, ResultTypes'
      PROVE  ResultsInv'
  BY <1>0, <1>4 DEF ResultsInv, OneThread, ResultsTell, ThreadTells, Writing, Older
<1>5. ASSUME NEW t \in Workers,
             UNCHANGED <<issued, kept, done>>, ResultTypes',
             thread[t].pc \notin {"rest", "tx", "write"},
             \A u \in Workers \ {t} : thread'[u] = thread[u],
             \/ /\ thread'[t].pc \notin {"rest", "tx", "write"}
                /\ thread'[t].node = thread[t].node /\ thread'[t].row = thread[t].row
             \/ thread'[t].pc = "rest" /\ thread'[t].node = "none"
      PROVE  ResultsInv'
  <2>1. OneThread'
    BY <1>0, <1>5 DEF OneThread
  <2>2. \A u \in Workers : ThreadTells(u)'
    BY <1>0, <1>5 DEF ResultsTell, ThreadTells, Older
  <2>3. \A m \in Nodes : Writing(m) <=> Writing(m)'
    BY <1>5 DEF Writing
  <2> QED
    BY <1>0, <1>5, <2>1, <2>2, <2>3 DEF ResultsInv, ResultsTell
<1>6. ASSUME NEW t \in Workers,
             \/ Results!ReadForRow(t) \/ Results!WriteBackRow(t)
             \/ Results!ReadForResult(t) \/ Results!WriteBackResult(t)
      PROVE  ResultsInv'
  <2>1. thread[t].node \in Nodes
    BY <1>0, <1>6 DEF ResultTypes, ThreadRecord, OneThread, Results!ReadForRow, Results!WriteBackRow,
       Results!ReadForResult, Results!WriteBackResult
  <2>2. /\ Results!Select(cache[thread[t].node], kept[thread[t].node]) \in Results!Row
        /\ Results!Select(thread[t].prev, thread[t].row) \in Results!Row
    BY <1>0, <2>1, SelectIsRow DEF ResultTypes, ThreadRecord
  <2>3. ResultTypes'
    <3>1. Results!Absent \in Results!Row
      BY MCSessionAssumption DEF Results!Absent, Results!Row, Results!StatusAssumption
    <3>2. CASE Results!ReadForRow(t) \/ Results!ReadForResult(t)
      <4>1. PICK s \in Steps, r \in Results!Row :
              thread' = [thread EXCEPT ![t] = [@ EXCEPT !.pc = s, !.prev = r]]
        BY <1>0, <2>1, <2>2, <3>2 DEF ResultTypes, Steps, Results!ReadForRow, Results!ReadForResult
      <4>2. [thread[t] EXCEPT !.pc = s, !.prev = r] \in ThreadRecord
        BY <1>0, ThreadReads DEF ResultTypes
      <4> QED
        BY <1>0, <3>2, <4>1, <4>2, Zenon DEF ResultTypes, Results!ReadForRow, Results!ReadForResult
    <3>3. CASE Results!WriteBackRow(t)
      <4>1. [thread[t] EXCEPT !.pc = "last"] \in ThreadRecord
        BY <1>0, ThreadGoesOn DEF ResultTypes, Steps
      <4>2. cache' \in [Nodes -> Results!Row]
        BY <1>0, <2>1, <3>3 DEF ResultTypes, ThreadRecord, Results!WriteBackRow
      <4> QED
        BY <1>0, <3>3, <4>1, <4>2 DEF ResultTypes, Results!WriteBackRow
    <3>4. CASE Results!WriteBackResult(t)
      <4>1. Results!AtRest \in ThreadRecord
        BY <3>1 DEF Results!AtRest, ThreadRecord, Steps
      <4>2. cache' \in [Nodes -> Results!Row]
        BY <1>0, <2>2, <3>4 DEF ResultTypes, Results!WriteBackResult
      <4> QED
        BY <1>0, <3>4, <4>1, <4>2 DEF ResultTypes, Results!WriteBackResult
    <3> QED
      BY <1>6, <3>2, <3>3, <3>4
  <2> QED
    BY <1>0, <1>5, <1>6, <2>3 DEF ResultTypes, ThreadRecord, Results!ReadForRow, Results!WriteBackRow,
       Results!ReadForResult, Results!WriteBackResult, Results!AtRest
<1>7. ASSUME NEW n \in Nodes, Results!ReadForPoll(n)
      PROVE  ResultsInv'
  <2>1. ResultTypes'
    BY <1>0, <1>7 DEF ResultTypes, Results!ReadForPoll
  <2> QED
    BY <1>4, <1>7, <2>1 DEF Results!ReadForPoll
<1>8. CASE Results!WritePoll
  <2>1. Results!Select(poll.prev, poll.row) \in Results!Row
    BY <1>0, SelectIsRow DEF ResultTypes
  <2>2. ResultTypes'
    BY <1>0, <1>8, <2>1 DEF ResultTypes, Results!WritePoll
  <2> QED
    BY <1>4, <1>8, <2>2 DEF Results!WritePoll
<1> QED
  BY <1>1, <1>2, <1>3, <1>6, <1>7, <1>8 DEF Results!Next, Results!Step

\* For any number of nodes, workers and commands that the number space can tell
\* apart: once the results of a node are in, the runtime's row is the newest of
\* them, in whatever order the commands of several nodes end and the threads
\* run (_consume_transaction_result; the panel has one command to a node).
THEOREM RuntimeRowIsNewest == MCSpec => []RuntimeKeepsNewest
<1>1. MCInit => ResultsInv
  BY ResultsStart DEF MCInit
<1>2. ResultsInv /\ [MCNext]_mcvars => ResultsInv'
  <2>1. ASSUME ResultsInv, UNCHANGED outcomes PROVE ResultsInv'
    BY <2>1 DEF outcomes, ResultsInv, ResultTypes, OneThread, ResultsTell, ThreadTells, Writing,
       Older
  <2> QED
    BY <2>1, ResultsStep DEF MCNext, mcvars, SessionOnly
<1>3. ResultsInv => RuntimeKeepsNewest
  <2> SUFFICES ASSUME ResultsInv, NEW n \in Nodes, Results!Settled(n), done[n] # {}
               PROVE  Results!Newest(n, kept[n])
    BY DEF RuntimeKeepsNewest, Results!RuntimeKeepsNewest
  <2>1. ~Writing(n)
    BY DEF Results!Settled, Writing
  <2> QED
    BY <2>1 DEF ResultsInv, ResultsTell, NewestOf, Results!Newest
<1> QED
  BY <1>1, <1>2, <1>3, PTL DEF MCSpec
=============================================================================
