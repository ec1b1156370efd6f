-------------------------- MODULE SessionLifecycle --------------------------
(***************************************************************************)
(* The session controller: one session at a time, its backend, recording,  *)
(* control-plane runtime and caches.                                       *)
(*                                                                         *)
(* The UI thread starts, stops and resets sessions and polls the nodes.    *)
(* Commands run on worker threads of the panel and of OTA deployments; the *)
(* controller's fields have no lock.  A runtime opens its ACK listener, on *)
(* the one port nodes answer to, with its first command, and the listener  *)
(* closes with the runtime's stop or when nobody refers to the runtime.    *)
(***************************************************************************)
EXTENDS Naturals, FiniteSets

CONSTANTS
  Workers,      \* threads that send commands to the one node modelled
  MaxSessions   \* bound: start requests accepted in a behaviour

SessionAssumption ==
  /\ MaxSessions \in Nat
  /\ Workers \cap {"main", "none"} = {}
ASSUME WorkersAndSessions == SessionAssumption

None == 0
Sessions == 1..MaxSessions
Specs == {"udp", "serial", "invalid"}
Runtimes == (Workers \cup {"main"}) \X Sessions   \* who built it, in which session
NoRuntime == <<"none", None>>

VARIABLES
  state,     \* the published session state
  main,      \* what the UI thread is doing: "ready" between two requests
  spec,      \* mode of the resolved configuration
  attempt,   \* the latest start request
  backend,   \* session whose backend the controller keeps
  live,      \* backends that have been started and not released
  recorder,  \* session whose recording is open
  opened,    \* sessions whose recording was opened
  reported,  \* sessions whose recording was closed with its report
  runtime,   \* the published control-plane runtime
  listening, \* runtimes whose ACK listener has the port
  rows,      \* session of the last command each runtime has a status of
  ips,       \* session the cached address of the node is from
  status,    \* session the cached last command of the node is from
  worker,    \* each worker: step, runtime it uses, session of its command, address read
  overlapped \* history: a session began or ended while a command was in flight

session == <<state, main, spec, attempt, backend, live>>
recording == <<recorder, opened, reported>>
plane == <<runtime, listening, rows>>
caches == <<ips, status>>
vars == <<session, recording, plane, caches, worker, overlapped>>

AtRest == [pc |-> "rest", rt |-> NoRuntime, of |-> None, ip |-> None]

TypeOK ==
  /\ state \in {"idle", "starting", "running", "stopping", "error"}
  /\ main \in {"ready", "clear", "start", "activate", "built", "stop"} /\ spec \in Specs
  /\ {attempt, backend, recorder, ips, status} \subseteq Sessions \cup {None}
  /\ live \cup opened \cup reported \subseteq Sessions /\ listening \subseteq Runtimes
  /\ runtime \in Runtimes \cup {NoRuntime}
  /\ rows \in [Runtimes -> Sessions \cup {None}]
  /\ worker \in [Workers -> [pc : {"rest", "look", "publish", "resolve", "cache", "bind",
                                   "wait", "record"},
                             rt : Runtimes \cup {NoRuntime},
                             of : Sessions \cup {None}, ip : Sessions \cup {None}]]
  /\ \A w \in Workers : worker[w].pc \in {"rest", "look"} <=> worker[w].rt = NoRuntime
  /\ overlapped \in BOOLEAN

Init ==
  /\ state = "idle" /\ main = "ready" /\ spec \in Specs /\ attempt = None
  /\ backend = None /\ live = {}
  /\ recorder = None /\ opened = {} /\ reported = {}
  /\ runtime = NoRuntime /\ listening = {} /\ rows = [r \in Runtimes |-> None]
  /\ ips = None /\ status = None
  /\ worker = [w \in Workers |-> AtRest] /\ overlapped = FALSE

Resting == \A w \in Workers : worker[w].pc = "rest"
Overlaps == overlapped' = (overlapped \/ ~Resting)

(* Of the runtimes only those the controller or a worker refers to exist.  *)
Collect(published, workers, open, last) ==
  LET Used(r) == r = published \/ \E w \in Workers : workers[w].rt = r
  IN  /\ listening' = {r \in open : Used(r)}
      /\ rows' = [r \in Runtimes |-> IF Used(r) THEN last[r] ELSE None]
(* _shutdown_control_plane_runtime: the listener is closed at once. *)
Shutdown ==
  /\ runtime' = NoRuntime
  /\ Collect(NoRuntime, worker, listening \ {runtime}, rows)
(* _apply_transition, _publish_snapshot: every listener sees the new state. *)
Enters(s) == state' = s
\* Slip: only the addresses are cleared, not the results of commands.
ClearAddresses == ips' = None /\ UNCHANGED status
Clear == ips' = None /\ status' = None
(* _close_recording_if_open, which the failed and the final transitions call. *)
CloseRecording ==
  /\ recorder' = None
  /\ reported' = IF recorder = None THEN reported ELSE reported \cup {recorder}
  /\ UNCHANGED opened

-----------------------------------------------------------------------------
(* start_session.  Any other state than idle is an invalid transition.     *)
RequestStart ==
  /\ main = "ready" /\ state = "idle" /\ attempt < MaxSessions /\ Overlaps
  /\ Enters("starting") /\ main' = "clear" /\ attempt' = attempt + 1
  /\ UNCHANGED <<spec, backend, live, recording, plane, caches, worker>>

(* The recording is disabled, fails to open or is opened. *)
ClearForStart ==
  /\ main = "clear"
  /\ Shutdown /\ Clear
  /\ \/ recorder' = attempt /\ opened' = opened \cup {attempt}
     \/ recorder' = None /\ UNCHANGED opened
  /\ main' = "start"
  /\ UNCHANGED <<state, spec, attempt, backend, live, reported, worker, overlapped>>

(* Preflight blocks, the configuration is invalid, the backend is not      *)
(* available or its start raises: nothing of it stays alive.               *)
StartRefused ==
  /\ main = "start"
  /\ backend' = None /\ Shutdown
  /\ Enters("error") /\ CloseRecording /\ main' = "ready"
  /\ UNCHANGED <<spec, attempt, live, caches, worker, overlapped>>

BackendStarts ==
  /\ main = "start" /\ spec # "invalid"
  /\ backend' = attempt /\ live' = live \cup {attempt}
  /\ Enters("running") /\ main' = "activate"
  /\ UNCHANGED <<spec, attempt, recording, plane, caches, worker, overlapped>>

(* _maybe_activate_control_plane_runtime: sees no runtime and builds one.  *)
Activate ==
  /\ main = "activate"
  /\ \/ spec # "udp" /\ Shutdown /\ main' = "ready"
     \/ spec = "udp" /\ runtime # NoRuntime /\ UNCHANGED plane /\ main' = "ready"
     \/ spec = "udp" /\ runtime = NoRuntime /\ UNCHANGED plane /\ main' = "built"
  /\ UNCHANGED <<state, spec, attempt, backend, live, recording, caches, worker, overlapped>>
PublishRuntime ==
  /\ main = "built"
  /\ runtime' = <<"main", attempt>> /\ Collect(runtime', worker, listening, rows)
  /\ main' = "ready"
  /\ UNCHANGED <<state, spec, attempt, backend, live, recording, caches, worker, overlapped>>

-----------------------------------------------------------------------------
(* stop_session. *)
RequestStop ==
  /\ main = "ready" /\ state = "running" /\ Overlaps
  /\ Enters("stopping") /\ main' = "stop"
  /\ UNCHANGED <<spec, attempt, backend, live, recording, plane, caches, worker>>

StopBackend ==
  /\ main = "stop"
  /\ backend' = None /\ live' = live \ {backend}
  /\ Shutdown /\ Clear /\ CloseRecording
  /\ Enters("idle") /\ main' = "ready"
  /\ UNCHANGED <<spec, attempt, worker, overlapped>>

\* Slip: a failed stop goes back to idle, as a stop that worked.
StopFailsToIdle ==
  /\ main = "stop"
  /\ live' = live \ {backend}
  /\ Shutdown /\ CloseRecording
  /\ Enters("idle") /\ main' = "ready"
  /\ UNCHANGED <<spec, attempt, backend, caches, worker, overlapped>>
(* The backend's stop raises, after it released all it could: the          *)
(* controller keeps the object.                                            *)
StopFails ==
  /\ main = "stop"
  /\ live' = live \ {backend}
  /\ Shutdown /\ CloseRecording
  /\ Enters("error") /\ main' = "ready"
  /\ UNCHANGED <<spec, attempt, backend, caches, worker, overlapped>>

(* reset_error forgets the backend without stopping it again. *)
ResetError ==
  /\ main = "ready" /\ state = "error" /\ Overlaps
  /\ Enters("idle") /\ backend' = None
  /\ Shutdown /\ Clear /\ CloseRecording
  /\ UNCHANGED <<main, spec, attempt, live, worker>>

(* reload_config; the window allows it only without a session. *)
ReloadConfig ==
  /\ main = "ready" /\ state \in {"idle", "error"}
  /\ spec' \in Specs
  /\ Shutdown /\ Clear
  /\ UNCHANGED <<state, main, attempt, backend, live, recording, worker, overlapped>>

(* Of two statuses the one with the newer sequence number stays; numbers   *)
(* restart with every runtime, so across sessions it may be either.        *)
Upsert(old, new) == IF new = None THEN {old} ELSE IF old = None THEN {new} ELSE {old, new}

(* get_control_plane_node_snapshots, from the UI's timer, in every state.  *)
(* A backend that heard the node gives its address, even once stopped.     *)
Poll ==
  /\ main = "ready"
  /\ ips' \in {ips} \cup IF spec = "udp" /\ backend # None THEN {backend} ELSE {}
  /\ status' \in Upsert(status, IF runtime = NoRuntime THEN None ELSE rows[runtime])
  /\ UNCHANGED <<session, recording, plane, worker, overlapped>>

-----------------------------------------------------------------------------
(* send_control_...: one command of a worker. *)
Goes(w, pc) == worker' = [worker EXCEPT ![w].pc = pc]
Drops(w) ==
  /\ worker' = [worker EXCEPT ![w] = AtRest]
  /\ Collect(runtime, worker', listening, rows) /\ UNCHANGED runtime

(* Refused unless the session is running and over UDP. *)
Ensure(w) ==
  /\ worker[w].pc = "rest" /\ state = "running" /\ spec = "udp"
  /\ worker' = [worker EXCEPT ![w] = [AtRest EXCEPT !.pc = "look", !.of = attempt]]
  /\ UNCHANGED <<session, recording, plane, caches, overlapped>>

(* _ensure_control_plane_runtime reads the runtime and may build one. *)
Look(w) ==
  /\ worker[w].pc = "look"
  /\ worker' = [worker EXCEPT ![w] = IF runtime # NoRuntime
                  THEN [@ EXCEPT !.pc = "resolve", !.rt = runtime]
                  ELSE [@ EXCEPT !.pc = "publish", !.rt = <<w, worker[w].of>>]]
  /\ UNCHANGED <<session, recording, plane, caches, overlapped>>
Publish(w) ==
  /\ worker[w].pc = "publish"
  /\ runtime' = worker[w].rt
  /\ Collect(runtime', worker, listening, rows)
  /\ Goes(w, "resolve")
  /\ UNCHANGED <<session, recording, caches, overlapped>>

(* _resolve_node_ip_for_control: the cached address, else the backend's,   *)
(* written to the cache in a later step; without any the command fails.    *)
Resolve(w) ==
  /\ worker[w].pc = "resolve"
  /\ \/ ips # None /\ Goes(w, "bind")
     \/ /\ ips = None /\ backend # None
        /\ worker' = [worker EXCEPT ![w].pc = "cache", ![w].ip = backend]
  /\ UNCHANGED <<session, recording, plane, caches, overlapped>>
Unresolved(w) ==
  /\ worker[w].pc = "resolve" /\ ips = None
  /\ Drops(w)
  /\ UNCHANGED <<session, recording, caches, overlapped>>
CacheIp(w) ==
  /\ worker[w].pc = "cache"
  /\ ips' = worker[w].ip
  /\ worker' = [worker EXCEPT ![w].pc = "bind", ![w].ip = None]
  /\ UNCHANGED <<session, recording, plane, status, overlapped>>

(* _ensure_listener_running: the port is the runtime's, is free, or is     *)
(* another's and the command ends as LISTENER_NOT_RUNNING.                 *)
Bind(w) ==
  /\ worker[w].pc = "bind"
  /\ IF listening \subseteq {worker[w].rt}
     THEN Goes(w, "wait") /\ listening' = {worker[w].rt} /\ UNCHANGED rows
     ELSE Goes(w, "record") /\ UNCHANGED listening
          /\ rows' = [rows EXCEPT ![worker[w].rt] = worker[w].of]
  /\ UNCHANGED <<session, recording, runtime, caches, overlapped>>
(* The transaction ends: the runtime keeps its result. *)
Answered(w) ==
  /\ worker[w].pc = "wait"
  /\ rows' = [rows EXCEPT ![worker[w].rt] = worker[w].of]
  /\ Goes(w, "record")
  /\ UNCHANGED <<session, recording, runtime, listening, caches, overlapped>>

(* _record_control_plane_transaction_result writes the result back. *)
Record(w) ==
  /\ worker[w].pc = "record"
  /\ \E mid \in Upsert(status, rows[worker[w].rt]) : status' \in Upsert(mid, worker[w].of)
  /\ Drops(w)
  /\ UNCHANGED <<session, recording, ips, overlapped>>

-----------------------------------------------------------------------------
Work(w) == \/ Look(w) \/ Publish(w) \/ Resolve(w) \/ Unresolved(w) \/ CacheIp(w)
           \/ Bind(w) \/ Answered(w) \/ Record(w)
Main == \/ ClearForStart \/ StartRefused \/ BackendStarts \/ Activate \/ PublishRuntime
        \/ StopBackend \/ StopFails
Next ==
  \/ Main \/ RequestStart \/ RequestStop \/ ResetError \/ ReloadConfig \/ Poll
  \/ \E w \in Workers : Ensure(w) \/ Work(w)
(* Neither the UI thread inside a request nor a worker inside a command    *)
(* stops: every wait in them is bounded.                                   *)
Spec == Init /\ [][Next]_vars /\ WF_vars(Main) /\ \A w \in Workers : WF_vars(Work(w))

-----------------------------------------------------------------------------
(* Without a session nothing of one is alive, and a running session's      *)
(* backend is: no two backends ever share the ports of the machine.        *)
OneBackendLives ==
  /\ Cardinality(live) <= 1
  /\ state = "idle" => backend = None /\ live = {}
  /\ state = "running" => backend = attempt /\ live = {backend}

(* Every recording that was opened is closed with its report once its      *)
(* session is over, however it ends, and it is never closed before.        *)
RecordingFollowsSession ==
  /\ opened \ {recorder} = reported
  /\ main = "ready" /\ state \in {"idle", "error"} => recorder = None
  /\ main = "ready" /\ state = "running" /\ attempt \in opened => recorder = attempt

(* A control-plane runtime exists only in a running UDP session, was built *)
(* for it, and between commands only it holds the port of the answers.     *)
RuntimeFollowsSession ==
  /\ runtime # NoRuntime =>
       state \in {"running", "stopping"} /\ spec = "udp" /\ runtime[2] = attempt
  /\ (\A w \in Workers : worker[w].pc = "rest") => listening \subseteq {runtime}

(* At most one runtime listens for answers: two would steal each other's.  *)
OneListener == Cardinality(listening) <= 1

(* Whenever it is stopped, a session has its backend, its recording and its *)
(* listener, one of each, and without a session nothing of one is left.     *)
SessionOwnsItsParts == OneBackendLives /\ RecordingFollowsSession /\ OneListener

(* As long as sessions begin and end between commands, the runtime is the   *)
(* session's, and what the panel shows of a node and the address commands   *)
(* go to are of this session: nothing of an earlier one is seen in it.      *)
CachesAreOfThisSession ==
  ~overlapped =>
    /\ RuntimeFollowsSession
    /\ main = "ready" => {ips, status} \subseteq {None, attempt}
(* The same of the results that commands write back to the controller. *)
WriteBackIsSessionScoped == main = "ready" /\ state = "running" => status \in {None, attempt}

(* The configuration a session started with stays until it is over. *)
SpecIsFixedInSession ==
  [][(state \in {"starting", "running", "stopping"}) => (spec' = spec)]_vars

(* A runtime the controller has dropped gives the port back, whatever its  *)
(* workers were doing, so that commands of the next session find it free.  *)
DroppedListenerCloses ==
  \A r \in Runtimes : (r \in listening /\ r # runtime) ~> (r \notin listening \/ r = runtime)
=============================================================================
