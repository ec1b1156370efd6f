# Control OKÚA: a formal model

Control OKÚA is a desktop application (Python, Qt) that receives MIDI-like
events from sensor nodes (ESP32 firmware) over UDP or serial, routes them to MIDI
outputs, records them, controls the nodes through a small authenticated command
protocol over UDP (ping, status requests, settings, restarts), updates them over
the air in campaigns, and serves a remote console over HTTP.

These TLA+ modules model its state: who changes what, in which order, and what
may happen in between. `PROJECT.json` maps every definition to the lines it is
translated from, lists the runs, one wrong variant of the code per property
that the property notices, and the hazards the properties are aimed at.
Paths below are relative to `src/src/control_okua/` unless they say otherwise.

## 1. The system

| part | state it keeps | operations | interacts with | model |
|---|---|---|---|---|
| session controller (`services/session_controller.py`) | state machine, backend, recorder, control-plane runtime, caches of addresses and results | start, stop, reset, reload, poll, `send_control_*` | everything; called by the Qt thread, the panel's worker, HTTP threads; no lock | `SessionLifecycle`, `NodeView` |
| nonce manager (`core/control_plane/nonce_manager.py`) | `control_plane_state.json`, epoch, counter | construct, `next_nonce` | built with the runtime | `NonceManager` |
| command, ACK and transaction services, pending store | sequence counter, one UDP socket, table of pending commands | send, resend, poll, correlate, give up | shared by all commands of a runtime, no lock | `CommandTransaction` |
| runtime status (`core/control_plane/runtime.py`) | last row of each node | consume a result, snapshot | controller's cache, panel, remote API | `RuntimeStatus`, `NodeView` |
| node command gate (`src/firmware/okua_node_udp_v1/*.ino`) | ACK cache, per-source replay window and token bucket, pending restart, settings | receive, judge, answer, dispatch, restart | one loop; state in RAM | `ControlNode` |
| node OTA (`okua_ota.cpp`) | update state, flags, two flash slots, expectation in NVS | check, download, install, validate the first boot, roll back | the gate | `NodeOta` |
| UDP and serial reception | sockets or port, threads, a lock each in transport and backend | start, stop, receive, snapshot | router, registry, recorder | `UdpReception`, `SerialReception` |
| MIDI router and parser (`core/midi`) | queue, ports, flusher thread; bytes of an unfinished message | open, enqueue, flush, close; feed a byte | backends | `MidiRouter`, `MidiParser` |
| node registry (`core/registry`) | per node: sequences, loss, restarts, status, events | observe EVT and STAT, refresh | UDP backend, UI | `NodeRegistry` |
| recording and replay (`core/recording`) | `session.jsonl`, `report.json`, counters | open, write, close; load, replay | controller, receivers, workers | `SessionJournal` |
| OTA orchestration and campaigns | result of the waves, manifest server, published rollout | start, continue, pause, abort, refresh; deploy a wave | sends OTA_CHECK_NOW through the controller | `OtaCampaign` |
| firmware catalog (`core/firmware`) | catalog file, managed folder, published rollouts | load, import, delete, mark, publish | dialogs, agent, campaigns | `FirmwareCatalog` |
| artifact agent (`src/tools/firmware_artifact_agent.py`) | build folder, plans | plan, compile, copy, import | PlatformIO, catalog | `ArtifactAgent` |
| remote API, users, login | accounts file, sessions, audit log | every route | controller | `RemoteApi` |
| configuration and profiles | `config.json`, two dictionaries | load, migrate, repair, save, change profile, apply remote settings | `run_app`, main window | `SiteConfig` |
| control panel (`app_qt/control_plane_panel.py`) | selector, running command, worker thread, bridge of results | click, refresh, search, verify a restart | controller | `ControlPanel` |
| wire format, widgets, dialogs | | | | not modelled, section 7 |

What is hard in it: an application with hardly a lock around objects that the
Qt thread, worker threads, receiver threads and HTTP threads share, and two locks
taken in both orders where there are some; one ACK port for all transactions; a
network that loses, repeats and delays; numbers that wrap around or start again;
a nonce that must grow over crashes and clock changes with one file to remember it;
nodes that forget at a restart, have fixed tables that overflow, and may lose power
while they rewrite themselves; files read, changed and replaced whole by several writers.

What makes each part correct:

* nonces: none is used twice, and they grow, or the command is refused;
* transactions: a verdict that is reported was given to that very command; the
  pending table lists only what is waited for; every transaction ends;
* the gate: a command runs at most once per boot; answers, cached ones included,
  say what happened; the rate is bounded; an acknowledged restart happens;
* both together: OK is reported only of a command that ran, at most once per
  boot, because somebody asked for it;
* sessions: a session owns one backend, recording and listener and leaves none of
  them behind; what the panel shows and sends to belongs to this session;
* reception: what arrives is routed until the stop, in order; stop returns with
  everything released; a failed start leaves nothing;
* registry: lost and seen packets add up; restarts are counted when they happen;
* recording: no record vanishes uncounted; a replay is what was played;
* OTA: a node always has an image that works; a new one is confirmed only
  after its own checks; a campaign opens a wave when the last one runs the new image;
* catalog, accounts, settings: what was answered as done is on file, whoever else
  writes and wherever a write fails, as far as the code provides for it.

## 2. The modules

Each component has one module. Most are exercised together in a *suite* (`MC*`):
a module that instantiates or extends components on small constants, with a variable
`part` that says which one a behaviour exercises. `part` is chosen in `Init` and never
changes; a step of one part leaves the variables of the others alone. So a suite
is the disjoint union of its parts, and the weak or strong fairness of terms of different
parts may be joined by disjunction: only one of them can ever be enabled. An
operator of a suite such as `Parts!P` names the component's property where
it is defined and explained.

| module | models |
|---|---|
| `NonceManager` | allocation of nonces by the threads |
| `ControlNode` | the node's command gate |
| `CommandTransaction` | transactions of several clients over a shared runtime and a lossy network; nodes answer anything |
| `RemoteCommand` | abstract specification: what a client of the control plane is promised |
| `ControlPlane` | `CommandTransaction` and `ControlNode` composed; implements `RemoteCommand` |
| `SessionLifecycle`, `RuntimeStatus` | sessions of the controller; results on their way to the caches |
| `NodeView`, `ControlPanel` | addresses of nodes and what is said of them; the panel |
| `UdpReception`, `SerialReception`, `MidiRouter`, `MidiParser` | the receiving end |
| `NodeRegistry`, `SessionJournal` | what is known of a node; recording and replay |
| `NodeOta`, `OtaCampaign` | update of a node; update of many |
| `FirmwareCatalog`, `ArtifactAgent`, `RemoteApi`, `SiteConfig` | files of the PC and who changes them |
| `*Proofs` | theorems, with their invariants and proofs: about the modules `NonceManager`, `ControlNode`, `CommandTransaction`, `ControlPlane` and `NodeOta`, and about the suites of sessions (`SessionLifecycleProofs`), of reception (`ReceptionProofs`) and of the operator (`OperatorProofs`) (section 6) |

Operators whose comment says *slip* are wrong versions of the definition next to
them: a dropped check, a forgotten reset. No specification uses them. They record
which mistake each property notices, and `PROJECT.json` lists the pairs.

### The control plane

`NonceManager`. A step is what one thread does between two points where
another thread of the interpreter, or a crash, can intervene: read the file, truncate
it, write it, set the controller's field, compose a nonce, increment the counter.
`file` is the state file in its three shapes (missing, saved, torn); `epochOf`
and `counter` describe every manager ever built, because a thread may go on with one
the controller has dropped (`ShutdownRuntime`). `Crash` keeps only the file.

`ControlNode`. One action per outcome of `buildAckForFrameWithSecurity`, in the
code's order: `RejectAuth`, `AnswerDuplicate`, `RejectConflict`, `RejectReplay`,
`RejectRate`, `AnswerCommand`; `Receive` is one pass of `serviceControlPlaneIngress`,
so that answer, cache entry and dispatch are one step, as in the single-threaded
loop. The loop itself stands still while the network is away (`link`), as `ensureLink` waits for it
in a blocking call, and while a download runs, which a silent server keeps up for ever (`ota = "checking"`): `LoopRuns`
says that neither holds it, and every action of the loop needs it. The replay bitmap is the set of distances below the largest nonce; where
the code takes the first of several equal slots the model takes any. Time is
counted in refill periods. `ran`, `judged`, `spent` and `born` are histories.

`CommandTransaction`. Each client is a thread inside `_execute_transaction`; `pc`
names the point it has reached. The read and the increment of the nonce counter are
apart; `Send`/`Register` put the datagram on the wire before the command is pending;
the polls take any datagram that is there. `use[c]` is the runtime the client
holds: it keeps it when the session stops, and the port closes when the last
client of a dropped runtime returns. A deadline may come at any moment of a wait.
Datagrams are sets: order is lost, and a command may stay on the wire after it was
answered.

`ControlPlane` replaces "any verdict" by the node's gate. `RemoteCommand` has five
variables (what each client asked and was told, the identities given, what ran
since the node's last restart and ever). Under the refinement mapping a client's open
command is its identity once the frame has its nonce, and what ran is the node's
dispatch history. A failure may be reported of a command that ran, or runs later: a
lost ACK, a stolen ACK and a failed resend are all reported as failures.

`SessionLifecycle`. The Qt thread walks through start (`main`: clear, start, activate,
built) and stop; each point that may raise has its failure. Workers walk through
`send_control_*`: look at the state, publish a runtime, resolve the address, cache it,
bind the ACK port, wait, record. `Collect` says which runtimes still exist: those
the controller or a worker refers to, as reference counting does. `overlapped` is a
history: a session began or ended while a command was in flight. `RuntimeStatus`
takes apart the reading, choosing and writing of a node's row, in the runtime, the
controller and the panel's poll; command numbers wrap modulo `SeqMod`.

`NodeView`. `Packet` overwrites the one EVT or STAT summary of the backend;
looking is two steps, reading the summaries and writing the cache. `heard` and
`source` are histories of where nodes were heard. `ControlPanel`: `Click` makes a
thread, whose signals are queued in `posted` and handled by `Finish` and
`ThreadFinished` in the Qt thread. The verification of a restart is taken apart as the thread
takes it: `Note` reads the node's last STAT, `SendReboot` sends the command, and each turn
is a `Ping`, at every third turn a request for a STAT (`AskForStat`), and a `Look` at the three kinds of evidence a STAT
can give (uptime, reset reason, boot marker of four bits) and at the answers. The nodes restart by themselves
too, lose power, and are asked by others; STATs come in the order they were sent.

### Reception and records

`UdpReception` and `SerialReception` have a program counter per thread, and the lock
of transport and backend as owner fields, since neither can be taken again by its holder;
critical sections that take no second lock are one step. A start is taken apart the same way: router, lock,
each socket, each thread, event; where one fails, the steps that undo it follow one by one in the code's order,
by then with a receiver that may be at work (`RouterFails`, `BindFails`, `SpawnFails`, `Unbind`,
`Complain`, `Undo` and the actions of `stop`, `Clear`, `CloseUnused`). `CloseMayFail`, `ThreadMayFail` and
`SlowCallback` choose the environment. `MidiRouter` splits `flush` into taking the
queue under the lock and sending without it, and `close` into its phases.
`MidiParser` keeps the whole stream and compares each message the parser gives with
`Expected`, a reference definition that looks at the stream instead of at a state.

`NodeRegistry` models one node, since records share nothing, with the network between:
`net`, `boot` and the numbers of the newest packets are the truth it is compared with. `Near` and `Marked` bound the network
and the node: no stream gets ahead of its packets by half the sequence numbers, and boot markers do not come round between two STATs. `SessionJournal` writes a record
in the two calls the code uses (text, end of line), counts it in a third step, and
has the threads that hand records over, the closing of the file and the report, the
loader and the replayer.

### Updates and stores

`NodeOta`: slots, marks and the boot selection are in flash, as is the expected
artifact; `PowerLoss` is possible before any step; download and installation are split
where flash is written. The bootloader is external: it starts a selected
new image once and goes back to the other slot if it was not confirmed. `selectFailed` remembers
that a boot selection failed, after which the code drops the expectation. `OtaCampaign`:
`Deploy` publishes, serves and opens the wave, `Ask` and `Answered` are one node's
dispatch, `Merge` and `Gate` judge reports; `Marked` is the rebuilding of the result
that every operation ends with; a plan (`IsPlan`) shares out the nodes, `CanaryPlan` is the
one the dialog makes. The nodes are reduced to the states they report, in an order that
`NodeOta` can produce; `setback` remembers that one lost power or failed its trial.

`FirmwareCatalog`: two writers (application, agent), each with its own copy of the
file; `op` is where a writer stands between two effects on the disk.
`ArtifactAgent`: plans, the one build folder, the import. `RemoteApi`: one `pc` per
request; who asks, which role, reading the accounts, saving, renewing the session,
answering and the audit line are separate steps of separate threads. `SiteConfig`: a save
truncates and then writes (`pen`); the application's and the window's
dictionaries start as one object (`same`) and part when the window reloads
or changes the profile. The session reads the application's until such a change or reload has *succeeded*, and
the window's from then on (`follows`, `Read`). `Repaired` is what `validate_and_fix` does to a file somebody wrote: an
unknown profile becomes none, a group of settings that is not valid gets its defaults, the rest stays.
`unsaved` and `owed` are histories: the remote settings last applied could not be saved; the file was last
given settings by hand and no save has been cut off since. Likewise `met` and `mixed` remember that two writers
of the catalog, or two commands of the agent, were at work at the same time.

## 3. The runs

| run (module) | what it shows | distinct states |
|---|---|---|
| `nonce_single` (`MCNonceManager`) | nonces grow, one thread, a crash at every step of the file's rewriting, clock jumps both ways, epochs and counters that run out | 4 thousand |
| `nonce_threads` (`MCNonceManager`) | **violation**: two threads get the same nonce | |
| `node_gate` (`MCControlNode`) | the gate with one source whose frames come repeatedly and in any order: a number reused with another command, a jump past the window, a bad tag; entries expire and are displaced; the network comes and goes, a check takes its time | 689 thousand |
| `transactions` (`MCCommandTransaction`) | `alone`: one client, two nodes, retries; `shared`: two clients, with retries, on one runtime and port | 1.56 million |
| `plane` (`MCControlPlane`) | the promise of a remote command is kept: `alone` with two sessions and a restart, `shared` with two clients, `expiring` with an OTA check and a cache that expires, `retried` with retries that are not taken for replays | 718 thousand |
| `reception` (`MCReception`) | `udp`, `serial` and `slow` (callbacks slower than stop waits): start, fail to start at each point, receive, fail, stop; `router`: the flusher against close; `parser`: every stream of up to five bytes; `reordered`: a node's packets overtake each other, get lost and wrap around; `restarted`: it restarts twice, with all reset reasons | 252 thousand |
| `sessions` (`MCSession`) | `quiet`: sessions stopped between commands of two workers; `overlap`: three sessions, stopped also in the middle of a command; `results`: results of two nodes' commands on two threads | 90 thousand |
| `records` (`MCRecords`) | `working`, `failing`: a recording and its replay, on a disk and a backend that work or fail | 2.0 million |
| `operator` (`MCOperator`) | `sending`, `showing`: addresses used and shown; `selector`, `stopped`: the panel; `verifying`: a restart is verified, with a lost datagram, restarts nobody asked for and a session that stops and starts; `campaign`: two nodes in one wave, or in two while ports are taken; `lost`: nodes lose power, fail their trial or fall silent; `quiet`: a node that calibrates and goes quiet | 668 thousand |
| `update` (`MCUpdate`) | one node whose manifests are right, wrong or go back and whose boot selections may fail | 94 thousand |
| `stores` (`MCStores`) | `alone`, `fresh`, `pair`, `ended`: accounts; `faulty`, `exposed`: settings; `library`, `shared`: the catalog, by one writer and by two; `builder`, `builders`: the agent, one command at a time and two | 2.2 million |
| `udp_close_fails` (`UdpReception`) | **violation**: stop never returns when closing a socket fails | |

What the properties say stands above each of them in the modules. The temporal
ones are `RebootHappens`, `LoneTransactionEnds`, `KeepsPromise` (the abstract
specification), `StopReleasesEverything`, `WorkSettles`, `CommandsEnd`, `UpdateIsDecided`;
`NoncesIncrease`, `AccountsStay`, `EndedIsRefused`, `CatalogIsTrue` (in part), `PanelIsTrue`,
`InstallIsSound` and `WavesWait` say what no step may do; the others are invariants. The component
modules state more properties than the runs check; those are named for the reader in
section 5 when the code violates them.

**Bounds and why they suffice.**

* Numbers that wrap: 16-bit spaces are 2 (`transactions`, wraps with the third command),
  4 (`plane`), 8 (registry, results) and 16 (panel); comparisons need an upper
  and a lower half, and the starts (`Start`, `FirstSeqs`, `seq`) lie just below the wrap.
* Nonces: caps of 5 epochs and 2 counter values make both words run out; the clock
  shows times below, at and beyond what the file holds.
* Gate: a window of 3 with nonces 0, 1 and 4 gives distances inside, at the edge
  of and outside it; a cache of 2 forces displacement; one token makes the limit bite
  with the second frame; `LastArrival` stops arrivals before the horizon so that
  promised restarts fall due.
* Threads and clients: two of a kind, the smallest number for every exchange, and one where only
  the environment interferes. Sessions: two or three, so that one is over, one
  runs and a worker may be left from the first.
* Reception: three packets or messages, batches of up to two: one before, one during
  and one after a stop or a failure. The parser's alphabet has a byte of each class
  (data, channel status with one and two data bytes, common, exclusive start and end, real time).
* Registry: ages, hold and recovery times of one tick and streaks of two make every row
  of the status policy reachable within the clock.
* Update: version codes 1 to 3, so that there is something older and newer than what runs;
  a manifest that allows a downgrade promises the oldest;
  two nodes in two waves or in one; a wave of one shows all there is to a gate, which quantifies over
  its rows; one boot per campaign and node, and one setback.
* Stores: three accounts, two of them on file; as many requests as two clients
  need to meet; one or two failures of the disk at any point; three images, one
  for another target; an agent that plans across the patch number 99, and two commands of
  it that need not go so far to meet; one hand edit, which offers every profile, an unknown one,
  valid and damaged settings, and files of both versions; two acts of the operator, so that one follows a
  save that failed.
* Verification: three turns, so that the last asks for a STAT; one lost datagram, one
  restart nobody asked for, one stop of the session.
* Symmetry: the two clients of `plane` are interchangeable, also where only one of them
  ever sends; that run has no liveness.

Deadlock is checked for the nonce manager and the node. The suites switch it
off: their parts do a bounded number of things and then stop.

**Fairness and what justifies it.**

* `ControlNode`: a loop that is not held up comes round, and `millis()` advances (`WF` on `Restart`, which needs
  `LoopRuns`, and `Tick`). Nothing is assumed of the network or of the end of a download: `RebootHappens`
  says that the restart comes if from some time on neither holds the loop.
* `CommandTransaction`: a thread inside a transaction is scheduled; since its
  loop compares the clock with a fixed deadline, the end of a wait is not postponed for ever by
  datagrams (`WF` on `Retry` or `GiveUp`). Nothing is assumed of the network.
* Reception: threads that wait for a lock get it eventually if it is free again and
  again (`SF` on starting, stopping and receiving: CPython's locks do not starve
  a waiter for ever under the operating system's scheduler); holders go on (`WF`). Nothing arrives by fairness.
* `SessionLifecycle`, `RuntimeStatus`: the Qt loop and the workers run; the poll of
  every half second reads a node again and again, between other threads' writes (`SF`).
* `NodeView`, `ControlPanel`: the worker's loop has a deadline and runs; the Qt thread handles
  what is posted to it. Nobody has to click.
* `NodeOta`: boot, loop and clock go on; a restart that was asked for is reached in spite of power losses
  (`SF`). Power, network and server are free.
* `OtaCampaign`: the answer to a dispatch comes or times out; the dialog's timer ticks (`SF`,
  as the status it depends on may change back); a node that is alive goes on with its update and
  is heard in good health (`WF`). The operator and setbacks are free.
* The stores have no liveness: every request and save ends by itself.

## 4. What was found: the runs

* `nonce_threads`: `next_nonce` and the lazy construction of the runtime are not
  atomic, so two threads can draw the same nonce. The documentation promises
  monotonic nonces for new commands. `KeepsPromise` holds with two clients all the
  same: the pending key has the sequence number as well, and the node refuses the
  second nonce; the price is a command refused as a replay.
* `udp_close_fails`: `_close_socket_locked` reports a failed close with the
  transport's lock held; the backend's callback takes its own lock and asks the
  transport for a snapshot, which needs the first one. `stop` never returns. The code
  catches the `OSError`, so it means to go on.

## 5. What else the code does otherwise

Each row is a property stated in a module that the code violates, and the words it disagrees
with; "without" means that the property holds with the condition it has, and that the row is why it has it. No run of `PROJECT.json` checks them. Seven can be repeated with the
configuration named in the row (`tlc -config X.cfg M`, `ControlNode` ones with
`MCControlNode`); the others need the environment the row describes.

| property | what happens | what is said |
|---|---|---|
| `ControlNode.RateLimitEnds` (`ControlNode_ratelimit`) | the refusal of a rate-limited command is cached for 120 s and its nonce used up | a retry repeats all its numbers |
| `ControlNode.AtMostOncePerBoot` (`ControlNode_evict`) | with more than eight sources one loses its window and a command runs twice in a boot; `RunsAtMostOnce` proves that this is the only way | replay protection |
| `SessionLifecycle.WriteBackIsSessionScoped` (`SessionLifecycle_writeback`) | a command thread that outlives its session writes its result into the next one's cache | `tests/test_session_controller_control_plane_snapshot.py:417`, by its name |
| `RuntimeStatus.NewerIsKept` (`RuntimeStatus_races`) | with two commands to one node in flight, the row of the older overwrites the newer | `tests/test_control_plane_runtime.py:430`, by its name |
| `NodeOta.ConfirmedIsExpected` (`NodeOta_select`) | a second check before the restart rewrites the slot selected for boot; if the selection then fails, the expectation is dropped and the image is confirmed unchecked | `docs/firmware/ota_firmware_runtime.md:185` |
| `NodeOta.InstallsNewerOnly` | with `allow_downgrade` in the manifest an older image is taken | `docs/firmware/ota_firmware_runtime.md:134` |
| `OtaCampaign.WavesWait` (`OtaCampaign_stale`), with `Earlier` | a report from before the node was asked still says "confirmed", and the gate passes | `docs/firmware/ota_gate.md`: a restart must be observed |
| `OtaCampaign.ConfirmedRunsNew`, after a setback | a node that rolled back or lost power counts as updated: the version is not looked at | `docs/firmware/ota_gate.md`: expected version |
| `OtaCampaign.RestartMustRecover` | a wave whose node went silent while validating stays pending for ever | `docs/firmware/ota_gate.md`: failed after 90 s |
| `NodeRegistry.NoFalseLoss` | a restart does not reset the sequence baselines: the jump counts as up to 32766 lost packets | `tests/test_node_registry.py:201` |
| `ControlNode.RebootHappens`, without the loop running | a restart that was acknowledged waits as long as the network is away (`.ino:1556`) or a server keeps a download open and silent (`okua_ota.cpp:527`); power may be lost meanwhile | `docs/app/control_plane_f3_app_minimal.md:86` |
| `FirmwareCatalog.EntryHasImage`, without `~met` | the agent reads the catalog, the application deletes an image, the agent saves its copy: the entry is back, its image is not | `tests/test_firmware_ingest_service.py:282`, by its name |
| `FirmwareCatalog.EntriesPersist`, beside the agent too | the save of an old copy, or of the empty one after a failed read, undoes imports | `tests/test_firmware_ingest_service.py:191` |
| `FirmwareCatalog.SuccessMeansListed` | the agent prints "imported" whatever the result | `docs/firmware/ota_artifact_protocol.md:236` |
| `ArtifactAgent.CatalogSaysBuilt`, without `~mixed` | two commands share a build folder: the entry of one describes the image of the other | `docs/firmware/ota_artifact_protocol.md`, 5.4 |
| `ArtifactAgent.CodeFollowsVersion` | 1.0.100 has the code of 1.1.0 | `docs/firmware/ota_gate.md:199` |
| `RemoteApi.OnlyOwnAccount` (`RemoteApi_update`) | of two changes that both read the accounts before either saved, only the later stays; two first setups at once replace each other | `tests/test_remote_user_store.py:21` |
| `RemoteApi.AuthenticatedIsAudited` | an error while the answer is written skips the audit line | `docs/remote/remote_service_v1.md:120` |
| `RemoteApi.ActorIsNamed` | errors after authentication are audited as anonymous | `docs/remote/remote_service_v1.md:24` |
| `RemoteApi.NotRunningIs409` | a session that stops after the check gives 500 | `docs/remote/remote_service_v1.md:577` |
| `SiteConfig.ProfileOnFile`, after remote settings | applying remote settings after a change of profile writes the old profile back | `README.md:289` |
| `SiteConfig.ServiceIsOnFile` | a change of profile writes back the remote settings from before they were applied | `docs/ui/remote_module_qa_report.md:216` |
| `SiteConfig.SelectorOnce` | a save cut short is loaded as corrupt and the selector shown again | `README.md:261` |
| `SiteConfig.SettingsSurvive`, files that cannot be moved | the defaults are written over a file that was only unreadable for a moment | `README.md:266` |
| `SiteConfig.SettingsSurvive`, cut-off saves | an end of the process, or a full disk, while a save writes leaves neither the old nor the new settings | `README.md:266` |
| `SiteConfig.SettingsSurvive`, damaged settings | an unknown profile and groups of settings that are not valid are replaced and saved over a file of version 2 without a copy | `README.md:267` keeps one of version 1 |
| `SiteConfig.SessionFollowsProfile`, the window's profile | a change of profile that could not be saved is shown by the window, while the session goes on reading the application's | `README.md:289` |
| `SiteConfig.ServiceIsAsAsked`, without `~unsaved` | a remote service turned off is left listening when that could not be saved | `docs/ui/remote_module_qa_report.md:216` |
| `ControlPanel.ConfirmedMeansRestarted`, without `missed` | one lost ping, or one refused while the session was stopped, and one answered are reported as a confirmed restart | `docs/app/control_plane_f3_multinode_gate.md:91` |
| `ControlPanel.ConfirmedMeansRestarted`, of this command | a restart between the last STAT and the command is reported as the command's: the code cannot tell them apart | `docs/app/control_plane_f3_multinode_gate.md:91` |
| `SerialReception.FailedStartLeavesNothing`, thread fails | the port stays open when its thread cannot be started: neither the adapter nor the backend closes it | `tests/test_serial_session_backend.py:173`, by its name |
| `ControlPanel.TargetIsShown` | with no match in the selector a click goes to node 1 | `tests/test_control_plane_panel.py:369` |
| `ControlPanel.ShownIsLatest` | after a session restart an older local result hides the newer one for three seconds | `control_plane_panel.py:1251` |
| `SessionJournal.EachLineIsARecord` | two records can end up on one line, as text and newline are two unlocked writes | `tests/test_session_record_writer.py:82` |
| `SessionJournal.FilesAreOfTheirSession` | the outcome of a command sent in one session is recorded in the next | `README.md:486` |
| `NodeView.RefusedMeansUnheard` | a node whose packets are always followed by another's before a look is never resolved | `docs/app/control_plane_f3_app_minimal.md:35` |
| `NodeView.TargetIsLastSource` | a cached address of any age is used before the runtime is looked at | `docs/app/control_plane_f3_app_minimal.md:115` |
| `NodeView.ActiveIsShown` | after a reboot verification its summary hides a transaction under way | `tests/test_control_plane_runtime_snapshot.py:79` |
| `SerialReception.StopReturns`, close fails | as `udp_close_fails`, and every later snapshot waits too | `tests/test_serial_transport.py:80` |

Paths in the last column are below `src/`; `control_plane_panel.py` is in `src/src/control_okua/app_qt/`.

Two more observations that no property states: the documentation asks for an explicit
confirmation of `REBOOT_SOFT`, which the panel does not require; and after a read error of
the serial port its thread ends while the session stays `RUNNING`.

## 6. What is proved

TLAPS checks these for all values of the constants that the modules' `ASSUME`s allow:
caps and sizes are positive, the set of sources is finite, frames have their fields,
a node's verdicts are not the application's own words, the waves of a plan share out its nodes. Some
theorems name a condition that the code needs: `Few`, no more sources than the node has slots;
`FewClients`, no more threads than sequence numbers; `~Earlier`, no node still reports the end
of an earlier update.

**Nonces** (`NonceManagerProofs`). `TypeCorrect` and `NonceMonotonicity`: with one thread
(`SingleThread`), any clock, caps and number of managers. The inductive invariant `IInv`
adds to the types that everything issued lies below the newest manager's next
nonce (`IssuedBelow`), that a readable file is at least as recent as the newest
manager (`FileCoversEpoch`), that a thread draws from the newest manager
(`NewestInUse`, where one thread is needed), and that an epoch about to be
published is larger and already saved (`EpochAhead`). Without the last, a crash
between building and saving would not be excluded. `LaterEpochIsLarger` is the arithmetic:
nonces of a later epoch are beyond all of an earlier one.

**The gate** (`ControlNodeProofs`).

* `NodeTypeCorrect`: types, with the invariant `TypeInv`, which adds the `Buckets`
  relation between tokens, spending and age of a source; `RateLimitHolds` follows:
  `spent + tokens` grows by at most one per tick.
* `RunsAtMostOnce`: under `Few`, no nonce of a source is dispatched twice in a boot.
  `OnceInv` says that every dispatched nonce is *consumed* in its source's window: below
  the window, or marked in it. `WindowNeverForgets` shows that recording a nonce, which may
  shift the window, keeps every consumed nonce consumed, `DispatchIsFresh` that only an
  unconsumed nonce is dispatched, `FewNeverEvict` that no source loses its state.
  The cache plays no part in the argument.
* `TruthfulAnswers`: under `Few`, what an answer says happened in this boot, also when it
  is repeated from the cache. `TruthInv` adds to `OnceInv` that every cached answer is still
  true (`CacheIsTruthful`). A command runs only if no live entry has its key, so no cached
  refusal becomes a lie; and one that is accepted has not run in this boot
  (`AcceptedHasNotRun`, from the consumed nonces), so no refusal is false when it is given.

**Transactions** (`CommandTransactionProofs`), for any clients, targets, retries and runtimes.

* `TransactionTypeCorrect`; `PendingTableIsTrue`: the pending table lists exactly commands
  that are waited for, under their owner's name; `LoneClientLosesNoAck`: as long as one
  client alone has taken part, no ACK it waits for is read and dropped.
* `VerdictsAreForTheirCommands`: under `FewClients`, a reported verdict was given to that very
  command. The argument is that keys are unique (`IdentityInv`): every nonce on the wire was
  drawn from a counter that has moved on since (`NoncesAreDrawn`), and clients that read the
  same counter before it moved took successive sequence numbers, the last `k` of them
  (`SequencesAreRecent`), which differ as long as `k` is at most the size of the word.
  `NoncesDiffer` and `OneFurtherBack` are the arithmetic, on both words.

**The control plane** (`ControlPlaneProofs`). `PromiseIsKept`: under `FewClients`, `ControlPlane`
implements `RemoteCommand`, with any number of commands, retries, runtimes and restarts and any
limits of the node: the initial states map to the initial state, and every step to a step or
a stutter. `PlaneInv` joins the invariants of the two halves, which each half keeps by its own
proof (`HalvesKeep` instantiates them), with three ties: an identity given was drawn from a
counter that has moved, or is about to (`NumbersAreDrawn`, so a new one is fresh); whatever is
on its way has an identity (`CommandsAreNumbered`, so nothing runs that nobody asked for); and
what ran, and what was ever answered with OK, is in the history of what ran (`RunsAreKept`,
which a restart does not empty, so a late OK is still true). `IdentityIsFresh` and `NodeRuns` are
the two steps that need all of it.

**Sessions** (`SessionLifecycleProofs`), for any workers and sessions. `SessionsOwnTheirParts`:
one backend, one recording, one listener, and nothing alive when idle. `NothingOfEarlierSessions`:
while nothing overlaps, runtime, address and rows are of the session that runs.
`SessionInv` says for each place of the UI thread which state is published, for each state what
backend and recording there are, and that a listener's runtime is referred to by the
controller or by a worker: the last is what `Collect` needs to close a port.

**Results** (same module), for any nodes, threads and start of the numbers. `RuntimeRowIsNewest`: when
the results of a node are in, the runtime's row is the newest of them. The suite assumes at most half
as many commands as there are numbers. `ResultsInv` says that a node has one
thread (the panel's rule, `OneThread`), that this thread's result is later than all others of the
node (`Older`), and that a row which nobody is writing is the newest (`ResultsTell`).
`LaterIsNewer` is the arithmetic of the wrap.

**Reception** (`ReceptionProofs`), for any packets, messages, batches, buses and notes, whether
closing fails or not. `ReceptionInv` has a part for each component:

* `UdpInv` and `SerialInv` say for each place of the thread that starts, undoes a start or stops which socket,
  port, receivers, router and locks there are. A failed start comes by each of its failures through the steps
  that undo it, while a receiver that was started may read, observe and route; the invariant follows what is still to be
  given back from place to place. From it `FailedStartIsUndone`; and
  `PortIsClosedOnce`, since whoever closes the port has taken it out of its field under the lock.
* Packets and messages are counted: those received are those observed or routed and those in
  the hand of a receiver, which at its end holds none (`UdpCounts`; `DeliveryInv`, which leaves out the
  suite's `slow` part, where a stop gives up on the thread). From it `WhatCameInIsRouted`.
* `RouterInv`: what has left, the batch being sent and the queue follow one another in
  the order of queueing (`RouterOrder`), and every note is in one of them or was lost with its
  port (`RouterKeeps`); hence `NotesLeaveOnceInOrder`.

**The record of a node** (same module), for any number of packets, restarts, sequence numbers, markers and
limits of the status policy. `PacketsAreCounted`: loss, restarts and the newest event are what took place.
`RegistryInv` says:

* `LossInv`: numbers on their way and the newest one observed are at most half the space behind the next
  (the network's bound `Near`, as an invariant), so that of two numbers the difference of their rests tells which
  is older (`GapOf`, on division); and counted gaps and packets add up (`GapsAreCounted`). No restarts here: after
  one the numbers begin anew and the code does count a jump (section 5, `NoFalseLoss`).
* `RestartInv`: along the net boots grow and, within a boot, uptimes (`InTurn`); none is ahead of the node or
  behind the STAT observed last (`UntilNow`, `SinceHeard`); and boots are fewer than the markers apart (`Marked`).
  Hence a STAT shows a restart exactly when its boot is another one (`RestartShows`).
* `NodeInv`: which fields a record has, and that the newest event about the status names it. The lemmas about
  `AppendEvent`, `Evaluate`, `UpdateSeqLoss` and `UpdateReboot` say what each leaves alone.

**OTA** (`NodeOtaProofs`), for any version codes and validation limits. `NodeIsNeverBricked`: one slot
has an image that proved itself. `InstallationIsSound`: while no boot selection has failed, an image
is confirmed only as the expected one, on the network and heard; and it is newer unless the
manifest allows otherwise. `NodeInv` says that a trial is alone (`TrialIsAlone`: nothing is
downloaded over the other slot until it ends) and that the image selected or on trial has an
expectation (`ExpectationIsKept`, false once a selection failed: section 5, `ConfirmedIsExpected`).

**Campaigns** (`OperatorProofs`), for any nodes, any plan, any boots and all disturbances.

* `CampaignTypeOK`, whose inductive form adds that a node of the running wave that no longer
  waits for its question has a row of its own (`WaveHasRows`): so an executed wave has a row for each node.
* `NodesAreAskedOnce` and `AbortIsFinal`. `OnceInv` says which nodes were asked: those of executed
  waves and those of the running one that left `todo` or are waited for (`AskedOnceInv`, which needs
  that waves do not overlap); that whatever may be fetched is served where it is published (`ServedInv`,
  since a published rollout never changes its port); and that nothing is left to ask once aborted.
* `CampaignIsSound` and `WavesAreInTurn`, under `~Earlier`. Until a node is set back (`NewInv`),
  a boot marker other than the first, and a confirmation, are those of the new image (`NodesTell`);
  so are the markers that rows and questions remember (`RowsTell`), which is why a marker that differs from
  a report's confirms rightly; and all waves before the one that runs have updated their nodes (`WavesTell`:
  `PassedIsNew` for the last one, itself for those before). With `Earlier` the second is false
  (section 5, `OtaCampaign_stale`).

**Addresses of nodes** (`OperatorProofs`), for any nodes, addresses, packets, moves and age limit.
`AddressesAreTheNodes`: a command goes where its own node was heard, and a node shown as reachable
was heard there within the limit. `ViewInv` says that whatever is kept of an address, in the summaries, in
what a thread has read of them before they changed, in the cache and in a command's
hand, comes from a packet of that node and bears no later time than the last one from there.

**The panel** (`OperatorProofs`), for any nodes, probes and other senders.

* `NewestTransactionIsShown`: no local copy hides a later transaction, and a signal is of the command in
  hand. Its hypothesis is that a session sends at most half as many commands as there are
  sequence numbers: beyond that the code's comparison of two numbers turns round. `SelectorInv` says that
  a transaction's number lies behind the runtime's by as many as followed it (`Behind`), that
  the local copy is none the runtime has not had (`NotAfter`), that each command still to be sent
  has a place left (`PlacesLeft`), and where the one signal under way comes from (`SignalsTell`).
* `ConfirmedRestartsAreReal`, with any losses, restarts and session stops: a restart that is confirmed by a STAT took
  place after the last STAT the panel had when it was about to send the command; one that is confirmed by silence and
  an answer took place after the command was accepted, unless a ping to a node that was up went unanswered; and no refresh
  or search moves the selection. `VerifyingInv` says that what was last heard of a node is not
  more than it is by now (`StatsTell`), and of a verification (`ProbesTell`) that as long as the node has not
  restarted since the STAT that was noted, boot marker and reason are the ones noted and its uptime has not fallen
  below the last one looked at; and that a node which was silent because it was down has restarted by the time
  it answers. Why the two exceptions are there is in section 5. `KeepIsANode` needs that a set of numbers has
  a least one, by well-founded induction of the library.

Only model-checked:

* liveness and fairness, which are out of the prover's reach: `RebootHappens`, `LoneTransactionEnds`,
  `StopReleasesEverything`, `WorkSettles`, `CommandsEnd`, `UpdateIsDecided`;
* `FramingIsMidi`: the reference `Expected` is recursive over the stream, and induction over data is
  out of the prover's reach; all streams of up to five bytes are compared;
* `RetriesAreNoReplays`, which compares the times of retries with the lifetime of
  cached answers;
* what `MCRecords` and `MCStores` check: records, replay, settings, catalog and accounts.

## 7. What is not modelled, and why

* The bytes of frames and the HMAC: a frame carries its identity and whether its
  tag is right. Frames for other nodes and malformed ones are dropped by
  the parser before any state changes.
* `millis()` wrap-around (49.7 days): ages and expiry are compared with signed
  differences; an entry that is not looked at for 24.8 days could look fresh again.
* The rest of the firmware's sketch: sampling, production of events, LEDs, how the association
  with the access point is made. That it holds the loop up while it lasts is in `ControlNode` (`LinkChanges`), and what an
  image on trial makes of it in `NodeOta`.
* Widgets, tables, dialogs, the home map, the live diagnostics panel and wording of messages: they show
  state that the models have, and keep none that decides anything.
* Conversion of snapshots to JSON, static files of the remote console, password hashing,
  the choice of the address to listen on, the access note, audit files of campaigns.
* Which single field a repair of `validate_and_fix` replaces, beyond the profile, and the wording of preflight: a
  configuration is what decides the course of the program. Somebody writes the file between two runs only.
* Outside the repository, modelled from how the code uses it and marked external: the
  bootloader of ESP-IDF, PlatformIO's build folder, the UDP network, DHCP, text editors, the end of a process,
  CPython's interleaving of threads.
* In `NodeOta` a download always ends or fails: what a connected server that falls silent does
  (`okua_ota.cpp:527`, no deadline) is in `ControlNode`, where a check need not end.
* In the panel's model STATs come in order; one delayed across a restart would be taken for another restart, as
  in the registry.
* The interval between drawing a sequence number (`protocol.py:46`) and reading the nonce counter
  (`nonce_manager.py:139`) of one command, which are one step of `CommandTransaction` (the increment of the counter, after a
  call, is another). A thread held up there for as long as others need to use up all 65536 sequence numbers could
  be given an identity that is in use; the theorems about identities leave that out. The increment of a counter of the
  report (`session_report.py:55`) is one step as well.

## 8. Order of work

Done: the control plane, then sessions, reception, registry, results, update, campaign, catalog,
accounts, settings, panel, recording and replay; proofs of the control plane from the nonce to the
promise, of sessions and results, of reception and a node's record, of the update of a node and of campaigns, of addresses
and of the panel. Theorems worth proving next:

1. `RemoteApi`: an enabled admin stays while one browser changes accounts, and a session that ended is refused.
2. `SessionJournal`: the report counts the records of the file, and each is on file once.
