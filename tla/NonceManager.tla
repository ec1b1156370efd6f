---------------------------- MODULE NonceManager ----------------------------
(***************************************************************************)
(* Allocation of command nonces by the desktop application.                *)
(*                                                                         *)
(* A nonce is (control_epoch_s << 32) | cmd_counter.  The epoch of a       *)
(* control session is max(unix time, persisted epoch + 1), persisted by    *)
(* truncating and rewriting control_plane_state.json before the session's  *)
(* first command; the counter starts at zero.  A control-plane runtime is  *)
(* built lazily by the first thread that needs it, kept in a field of the  *)
(* session controller and dropped when the session stops or the            *)
(* configuration is reloaded.  No lock protects any of this: the threads   *)
(* are the Qt main thread, the panel's worker thread and the threads of    *)
(* the remote HTTP service.                                                *)
(*                                                                         *)
(* A step is what one thread does between two points where another thread  *)
(* of the interpreter (or a crash) can intervene.                          *)
(***************************************************************************)
EXTENDS Naturals

CONSTANTS
  Threads,      \* threads that may build the runtime or send a command
  EpochCap,     \* 2^32: the first epoch that does not fit the high word
  CounterCap,   \* 2^32: the first counter that does not fit the low word
  ClockValues,  \* unix times the wall clock may show, in any order
  MaxManagers   \* bound: managers built in a behaviour

ASSUME CapsAssumption ==
  /\ EpochCap \in Nat \ {0}
  /\ CounterCap \in Nat \ {0}
ASSUME ClockAssumption == ClockValues \subseteq Nat
ASSUME BoundAssumption == MaxManagers \in Nat

VARIABLES
  file,     \* control_plane_state.json
  epochOf,  \* epoch of every manager built so far
  counter,  \* next counter of every manager built so far
  built,    \* number of managers built so far
  runtime,  \* manager of the controller's current runtime, 0 when None
  pc,       \* what each thread is about to do
  using,    \* manager of the runtime each thread works on
  epoch,    \* epoch each thread has computed for the manager it builds
  held,     \* nonce each thread has composed and not yet accounted for
  issued    \* history: the nonces handed out

vars == <<file, epochOf, counter, built, runtime, pc, using, epoch, held, issued>>

Managers == 1..MaxManagers
Steps == {"idle", "load", "truncate", "write", "publish", "compose", "bump"}

compose_nonce(e, c) == e * CounterCap + c

MissingFile == [kind |-> "missing", epoch |-> 0]
TornFile == [kind |-> "torn", epoch |-> 0]
SavedFile(e) == [kind |-> "saved", epoch |-> e]
Epochs == 0..(EpochCap - 1)
Files == [kind : {"missing", "torn", "saved"}, epoch : Epochs]

Goto(t, step) == pc' = [pc EXCEPT ![t] = step]

Init ==
  /\ file = MissingFile
  /\ epochOf = [m \in Managers |-> 0]
  /\ counter = [m \in Managers |-> 0]
  /\ built = 0
  /\ runtime = 0
  /\ pc = [t \in Threads |-> "idle"]
  /\ using = [t \in Threads |-> 0]
  /\ epoch = [t \in Threads |-> 0]
  /\ held = [t \in Threads |-> 0]
  /\ issued = {}

----------------------------------------------------------------------------
(* Building a runtime. *)

\* A command finds the runtime in place, or starts to build one.
EnsureRuntime(t) ==
  /\ pc[t] = "idle"
  /\ IF runtime # 0
       THEN /\ using' = [using EXCEPT ![t] = runtime]
            /\ Goto(t, "compose")
       ELSE /\ built < MaxManagers
            /\ Goto(t, "load")
            /\ UNCHANGED using
  /\ UNCHANGED <<file, epochOf, counter, built, runtime, epoch, held, issued>>

\* The epoch the constructor computes from the file and the wall clock.
\* Slip: the persisted epoch is ignored.
NextEpochOfClock(now) == now
NextEpoch(now) == IF now > file.epoch + 1 THEN now ELSE file.epoch + 1

\* The file cannot be read or is torn, or the epoch is beyond u32 and fails
\* validation before the file is opened: no manager, the command is refused.
LoadRefused(t) ==
  /\ pc[t] = "load"
  /\ Goto(t, "idle")
  /\ UNCHANGED <<file, epochOf, counter, built, runtime, using, epoch, held, issued>>

\* Slip: the width of the epoch is not checked.
LoadStateUnchecked(t) ==
  /\ pc[t] = "load"
  /\ file.kind # "torn"
  /\ \E now \in ClockValues : epoch' = [epoch EXCEPT ![t] = NextEpoch(now)]
  /\ Goto(t, "truncate")
  /\ UNCHANGED <<file, epochOf, counter, built, runtime, using, held, issued>>

LoadState(t) ==
  /\ pc[t] = "load"
  /\ file.kind # "torn"
  /\ \E now \in ClockValues :
       /\ NextEpoch(now) < EpochCap
       /\ epoch' = [epoch EXCEPT ![t] = NextEpoch(now)]
  /\ Goto(t, "truncate")
  /\ UNCHANGED <<file, epochOf, counter, built, runtime, using, held, issued>>

\* Path.write_text opens the file for writing, which empties it, ...
TruncateFile(t) ==
  /\ pc[t] = "truncate"
  /\ file' = TornFile
  /\ Goto(t, "write")
  /\ UNCHANGED <<epochOf, counter, built, runtime, using, epoch, held, issued>>

\* ... and then writes the new contents.
WriteFile(t) ==
  /\ pc[t] = "write"
  /\ file' = SavedFile(epoch[t])
  /\ Goto(t, "publish")
  /\ UNCHANGED <<epochOf, counter, built, runtime, using, epoch, held, issued>>

\* The file cannot be opened, or the new contents cannot be written to it.
SaveFails(t) ==
  /\ pc[t] \in {"truncate", "write"}
  /\ Goto(t, "idle")
  /\ UNCHANGED <<file, epochOf, counter, built, runtime, using, epoch, held, issued>>

\* The finished runtime replaces whatever the controller held; the thread
\* goes on to send its command, or only wanted the runtime in place.
PublishRuntime(t) ==
  /\ pc[t] = "publish"
  /\ built < MaxManagers
  /\ built' = built + 1
  /\ epochOf' = [epochOf EXCEPT ![built + 1] = epoch[t]]
  /\ counter' = [counter EXCEPT ![built + 1] = 0]
  /\ runtime' = built + 1
  /\ using' = [using EXCEPT ![t] = built + 1]
  /\ \E step \in {"compose", "idle"} : Goto(t, step)
  /\ UNCHANGED <<file, epoch, held, issued>>

----------------------------------------------------------------------------
(* Drawing a nonce.  compose_nonce is a call, so another thread may run     *)
(* between reading the counter and incrementing it.                         *)

ComposeNonce(t) ==
  /\ pc[t] = "compose"
  /\ IF counter[using[t]] < CounterCap
       THEN /\ held' = [held EXCEPT ![t] =
                          compose_nonce(epochOf[using[t]], counter[using[t]])]
            /\ Goto(t, "bump")
       ELSE /\ Goto(t, "idle")
            /\ UNCHANGED held
  /\ UNCHANGED <<file, epochOf, counter, built, runtime, using, epoch, issued>>

BumpCounter(t) ==
  /\ pc[t] = "bump"
  /\ counter' = [counter EXCEPT ![using[t]] = @ + 1]
  /\ issued' = issued \cup {held[t]}
  /\ Goto(t, "idle")
  /\ UNCHANGED <<file, epochOf, built, runtime, using, epoch, held>>

----------------------------------------------------------------------------
(* stop_session, reset_error and reload_config drop the runtime while       *)
(* threads may still be working on it.                                      *)
ShutdownRuntime ==
  /\ runtime' = 0
  /\ UNCHANGED <<file, epochOf, counter, built, pc, using, epoch, held, issued>>

\* The process dies and is started again: only the file survives.
Crash ==
  /\ runtime' = 0
  /\ pc' = [t \in Threads |-> "idle"]
  /\ UNCHANGED <<file, epochOf, counter, built, using, epoch, held, issued>>

ThreadStep(t) ==
  \/ EnsureRuntime(t)
  \/ LoadRefused(t)
  \/ LoadState(t)
  \/ TruncateFile(t)
  \/ WriteFile(t)
  \/ SaveFails(t)
  \/ PublishRuntime(t)
  \/ ComposeNonce(t)
  \/ BumpCounter(t)

Next ==
  \/ \E t \in Threads : ThreadStep(t)
  \/ ShutdownRuntime
  \/ Crash

Spec == Init /\ [][Next]_vars

----------------------------------------------------------------------------
(* Properties. *)

TypeOK ==
  /\ file \in Files
  /\ epochOf \in [Managers -> Epochs]
  /\ counter \in [Managers -> Nat]
  /\ built \in 0..MaxManagers
  /\ runtime \in 0..built
  /\ pc \in [Threads -> Steps]
  /\ using \in [Threads -> 0..built]
  /\ epoch \in [Threads -> Epochs]
  /\ held \in [Threads -> Nat]
  /\ issued \subseteq Nat

\* Nonces grow: a nonce handed out is larger than every nonce handed out
\* before it, whatever crashed in between, wherever the wall clock jumped and
\* however often the runtime was rebuilt (next_nonce, NonceManager.__init__).
\* True of one thread; two threads can break it, and do.
NoncesIncrease ==
  [][\A t \in Threads : BumpCounter(t) => \A n \in issued : n < held[t]]_vars

\* A new logical command gets a nonce no earlier command had (next_nonce):
\* what docs/app/control_plane_f3_app_minimal.md claims of the application.
NoncesFresh ==
  [][\A t \in Threads : BumpCounter(t) => held[t] \notin issued]_vars
=============================================================================
