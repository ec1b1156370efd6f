-------------------------- MODULE NonceManagerProofs --------------------------
(***************************************************************************)
(* Nonces grow across restarts, clock jumps and rebuilt runtimes, for any  *)
(* bounds and any clock, as long as one thread at a time draws them.       *)
(***************************************************************************)
EXTENDS NonceManager, TLAPS

\* At most one thread works on the control plane.
SingleThread == \A s, t \in Threads : s = t

\* Steps of building a runtime, and those after its epoch is computed.
Building == {"load", "truncate", "write", "publish"}
Numbered == {"truncate", "write", "publish"}
Drawing == {"compose", "bump"}

----------------------------------------------------------------------------
(* The inductive invariant. *)

\* Everything issued lies below the next nonce of the newest manager.
IssuedBelow ==
  /\ built = 0 => issued = {}
  /\ built > 0 =>
       /\ counter[built] <= CounterCap
       /\ \A n \in issued : n < compose_nonce(epochOf[built], counter[built])

\* A file that can be read is at least as recent as the newest manager.
FileCoversEpoch ==
  built > 0 => /\ file.kind # "missing"
               /\ file.kind = "saved" => epochOf[built] <= file.epoch

\* The thread that draws works on the newest manager, and no runtime is in
\* place while one is being built.
NewestInUse ==
  /\ runtime \in {0, built}
  /\ \A t \in Threads : pc[t] \in Building => runtime = 0
  /\ \A t \in Threads : pc[t] \in Drawing => built > 0 /\ using[t] = built
  /\ \A t \in Threads : pc[t] = "bump" =>
       /\ held[t] = compose_nonce(epochOf[built], counter[built])
       /\ counter[built] < CounterCap

\* The epoch about to be published is newer than the newest manager's, and
\* the file already holds it.
EpochAhead ==
  \A t \in Threads :
    /\ pc[t] \in Numbered => (built > 0 => epochOf[built] < epoch[t])
    /\ pc[t] = "publish" => file = SavedFile(epoch[t])

IInv == TypeOK /\ IssuedBelow /\ FileCoversEpoch /\ NewestInUse /\ EpochAhead

----------------------------------------------------------------------------
\* The first nonce of a later epoch is beyond every nonce of an earlier one.
LEMMA LaterEpochIsLarger ==
  ASSUME NEW d \in Nat, NEW e \in Nat, NEW c \in Nat, d < e, c <= CounterCap
  PROVE  compose_nonce(d, c) <= compose_nonce(e, 0)
<1> USE CapsAssumption
<1>1. PICK k \in Nat : e = d + 1 + k
  <2>1. e - d - 1 \in Nat
    BY Z3
  <2> QED
    BY <2>1, Z3
<1>2. e * CounterCap = d * CounterCap + CounterCap + k * CounterCap
  BY <1>1, Z3
<1>3. k * CounterCap >= 0
  BY <1>1, Z3
<1>4. d * CounterCap \in Nat /\ k * CounterCap \in Nat
  BY <1>1, Z3
<1> QED
  BY <1>2, <1>3, <1>4 DEF compose_nonce

LEMMA ComposeIsNat ==
  ASSUME NEW e \in Nat, NEW c \in Nat
  PROVE  compose_nonce(e, c) \in Nat
<1>1. e * CounterCap \in Nat
  BY CapsAssumption, Z3
<1> QED
  BY <1>1 DEF compose_nonce

THEOREM InitInvariant == Init => IInv
<1> SUFFICES ASSUME Init PROVE IInv
  OBVIOUS
<1>1. TypeOK
  BY CapsAssumption, BoundAssumption
  DEF Init, TypeOK, Managers, Epochs, Steps, Files, MissingFile
<1>2. IssuedBelow /\ FileCoversEpoch /\ NewestInUse /\ EpochAhead
  BY DEF Init, IssuedBelow, FileCoversEpoch, NewestInUse, EpochAhead,
         Building, Numbered, Drawing
<1> QED
  BY <1>1, <1>2 DEF IInv

\* Every step of the single thread, a shutdown and a crash keep the invariant.
THEOREM StepInvariant ==
  ASSUME SingleThread, IInv, [Next]_vars
  PROVE  IInv'
<1> USE BoundAssumption, CapsAssumption
<1> USE DEF IInv, TypeOK, Managers, Epochs, Steps, Goto
<1>0. built > 0 => /\ built \in Managers
                   /\ epochOf[built] \in Nat
                   /\ counter[built] \in Nat
  OBVIOUS
<1>1. ASSUME NEW t \in Threads, EnsureRuntime(t) PROVE IInv'
  <2>1. TypeOK'
    BY <1>1 DEF EnsureRuntime
  <2>2. IssuedBelow' /\ FileCoversEpoch'
    BY <1>1, <1>0 DEF EnsureRuntime, IssuedBelow, FileCoversEpoch, EpochAhead, Numbered
  <2>3. NewestInUse'
    BY <1>1 DEF EnsureRuntime, NewestInUse, SingleThread, Building, Drawing
  <2>4. EpochAhead'
    BY <1>1 DEF EnsureRuntime, EpochAhead, SingleThread, Numbered
  <2> QED
    BY <2>1, <2>2, <2>3, <2>4
<1>2. ASSUME NEW t \in Threads, LoadRefused(t) PROVE IInv'
  <2>1. TypeOK'
    BY <1>2 DEF LoadRefused
  <2>2. IssuedBelow' /\ FileCoversEpoch'
    BY <1>2, <1>0 DEF LoadRefused, IssuedBelow, FileCoversEpoch, EpochAhead, Numbered
  <2>3. NewestInUse'
    BY <1>2 DEF LoadRefused, NewestInUse, SingleThread, Building, Drawing
  <2>4. EpochAhead'
    BY <1>2 DEF LoadRefused, EpochAhead, SingleThread, Numbered
  <2> QED
    BY <2>1, <2>2, <2>3, <2>4
<1>3. ASSUME NEW t \in Threads, LoadState(t) PROVE IInv'
  <2>1. PICK now \in ClockValues : /\ NextEpoch(now) < EpochCap
                                   /\ epoch' = [epoch EXCEPT ![t] = NextEpoch(now)]
    BY <1>3 DEF LoadState
  <2>2. NextEpoch(now) \in Epochs /\ NextEpoch(now) > file.epoch
    BY <2>1, ClockAssumption DEF NextEpoch, Files
  <2>3. TypeOK'
    BY <1>3, <2>1, <2>2 DEF LoadState
  <2>4. IssuedBelow' /\ FileCoversEpoch'
    BY <1>3 DEF LoadState, IssuedBelow, FileCoversEpoch
  <2>5. NewestInUse'
    BY <1>3 DEF LoadState, NewestInUse, SingleThread, Building, Drawing
  <2>6. built > 0 => epochOf[built] <= file.epoch
    BY <1>3 DEF LoadState, FileCoversEpoch, Files
  <2>7. EpochAhead'
    BY <1>3, <2>1, <2>2, <2>6
    DEF LoadState, EpochAhead, SingleThread, Numbered, Files
  <2> QED
    BY <2>3, <2>4, <2>5, <2>7
<1>4. ASSUME NEW t \in Threads, TruncateFile(t) PROVE IInv'
  <2>1. TypeOK'
    BY <1>4, SMTT(30) DEF TruncateFile, TornFile, Files
  <2>2. IssuedBelow' /\ FileCoversEpoch'
    BY <1>4, <1>0 DEF TruncateFile, TornFile, Files, IssuedBelow, FileCoversEpoch, EpochAhead, Numbered
  <2>3. NewestInUse'
    BY <1>4 DEF TruncateFile, NewestInUse, SingleThread, Building, Drawing
  <2>4. EpochAhead'
    BY <1>4 DEF TruncateFile, TornFile, Files, EpochAhead, SingleThread, Numbered
  <2> QED
    BY <2>1, <2>2, <2>3, <2>4
<1>5. ASSUME NEW t \in Threads, WriteFile(t) PROVE IInv'
  <2>1. TypeOK'
    BY <1>5 DEF WriteFile, SavedFile, Files
  <2>2. IssuedBelow' /\ FileCoversEpoch'
    BY <1>5, <1>0 DEF WriteFile, SavedFile, Files, IssuedBelow, FileCoversEpoch, EpochAhead, Numbered
  <2>3. NewestInUse'
    BY <1>5 DEF WriteFile, NewestInUse, SingleThread, Building, Drawing
  <2>4. EpochAhead'
    BY <1>5 DEF WriteFile, SavedFile, Files, EpochAhead, SingleThread, Numbered
  <2> QED
    BY <2>1, <2>2, <2>3, <2>4
<1>6. ASSUME NEW t \in Threads, PublishRuntime(t) PROVE IInv'
  <2> DEFINE m == built + 1
  <2>1. /\ built' = m /\ m \in Managers /\ runtime' = m /\ using'[t] = m
        /\ epochOf'[m] = epoch[t] /\ counter'[m] = 0
        /\ pc'[t] \in {"compose", "idle"}
    BY <1>6 DEF PublishRuntime
  <2>2. TypeOK'
    BY <1>6, <2>1, SMTT(30) DEF PublishRuntime
  <2>3. built > 0 => epochOf[built] < epoch[t]
    BY <1>6 DEF PublishRuntime, EpochAhead, Numbered
  <2>4. \A n \in issued : n < compose_nonce(epoch[t], 0)
    <3>1. CASE built = 0
      BY <3>1 DEF IssuedBelow
    <3>2. CASE built > 0
      <4>1. compose_nonce(epochOf[built], counter[built])
              <= compose_nonce(epoch[t], 0)
        BY <3>2, <2>3, <1>0, LaterEpochIsLarger DEF IssuedBelow
      <4>2. /\ compose_nonce(epochOf[built], counter[built]) \in Nat
            /\ compose_nonce(epoch[t], 0) \in Nat
        <5>1. epoch[t] \in Nat /\ 0 \in Nat
          OBVIOUS
        <5>2. epochOf[built] \in Nat /\ counter[built] \in Nat
          BY <3>2, <1>0
        <5> QED
          BY <5>1, <5>2, ComposeIsNat
      <4> QED
        BY <3>2, <4>1, <4>2 DEF IssuedBelow
    <3> QED
      BY <3>1, <3>2
  <2>5. IssuedBelow'
    BY <1>6, <2>1, <2>4 DEF PublishRuntime, IssuedBelow, compose_nonce
  <2>6. FileCoversEpoch'
    BY <1>6, <2>1 DEF PublishRuntime, FileCoversEpoch, EpochAhead, SavedFile
  <2>7. NewestInUse'
    BY <1>6, <2>1 DEF PublishRuntime, NewestInUse, SingleThread, Building, Drawing
  <2>8. EpochAhead'
    BY <1>6, <2>1 DEF PublishRuntime, EpochAhead, SingleThread, Numbered
  <2> QED
    BY <2>2, <2>5, <2>6, <2>7, <2>8
<1>7. ASSUME NEW t \in Threads, ComposeNonce(t) PROVE IInv'
  <2>1. built > 0 /\ using[t] = built
    BY <1>7 DEF ComposeNonce, NewestInUse, Drawing
  <2>2. compose_nonce(epochOf[built], counter[built]) \in Nat
    BY <2>1, <1>0, ComposeIsNat
  <2> QED
    BY <1>7, <2>1, <2>2, ZenonT(40) DEF ComposeNonce, IssuedBelow, FileCoversEpoch,
       NewestInUse, EpochAhead, SingleThread, Building, Numbered, Drawing
<1>8. ASSUME NEW t \in Threads, BumpCounter(t) PROVE IInv'
  <2>1. /\ built > 0 /\ using[t] = built
        /\ held[t] = compose_nonce(epochOf[built], counter[built])
        /\ counter[built] < CounterCap
    BY <1>8 DEF BumpCounter, NewestInUse, Drawing
  <2>2. compose_nonce(epochOf[built], counter[built] + 1) = held[t] + 1
    <3>1. epochOf[built] * CounterCap \in Nat
      BY <2>1, Z3
    <3> QED
      BY <2>1, <3>1 DEF compose_nonce
  <2>3. IssuedBelow'
    BY <1>8, <2>1, <2>2 DEF BumpCounter, IssuedBelow
  <2>4. TypeOK'
    <3>1. built \in Managers /\ counter[built] + 1 \in Nat
      BY <2>1, <1>0
    <3>2. counter' \in [Managers -> Nat]
      BY <1>8, <2>1, <3>1 DEF BumpCounter
    <3>3. issued' \subseteq Nat
      BY <1>8 DEF BumpCounter
    <3> QED
      BY <1>8, <3>2, <3>3 DEF BumpCounter
  <2>5. FileCoversEpoch' /\ EpochAhead'
    BY <1>8 DEF BumpCounter, FileCoversEpoch, EpochAhead, SingleThread, Numbered
  <2>6. NewestInUse'
    BY <1>8 DEF BumpCounter, NewestInUse, SingleThread, Building, Drawing
  <2> QED
    BY <2>3, <2>4, <2>5, <2>6
<1>9. CASE ShutdownRuntime
  BY <1>9 DEF ShutdownRuntime, IssuedBelow, FileCoversEpoch, NewestInUse,
              EpochAhead, Building, Numbered, Drawing
<1>10. CASE Crash
  BY <1>10, SMTT(30) DEF Crash, IssuedBelow, FileCoversEpoch, NewestInUse,
               EpochAhead, Building, Numbered, Drawing
<1>11. ASSUME NEW t \in Threads, SaveFails(t) PROVE IInv'
  <2>1. TypeOK'
    BY <1>11 DEF SaveFails
  <2>2. IssuedBelow' /\ FileCoversEpoch'
    BY <1>11, <1>0 DEF SaveFails, IssuedBelow, FileCoversEpoch
  <2>3. NewestInUse'
    BY <1>11 DEF SaveFails, NewestInUse, SingleThread, Building, Drawing
  <2>4. EpochAhead'
    BY <1>11 DEF SaveFails, EpochAhead, SingleThread, Numbered
  <2> QED
    BY <2>1, <2>2, <2>3, <2>4
<1>12. CASE UNCHANGED vars
  BY <1>12 DEF vars, IssuedBelow, FileCoversEpoch, NewestInUse, EpochAhead,
               Building, Numbered, Drawing
<1> QED
  BY <1>1, <1>2, <1>3, <1>4, <1>5, <1>6, <1>7, <1>8, <1>9, <1>10, <1>11, <1>12
  DEF Next, ThreadStep

\* The invariant makes the nonce a thread accounts for the largest so far.
THEOREM StepIncreases ==
  ASSUME SingleThread, IInv, [Next]_vars
  PROVE  [\A t \in Threads : BumpCounter(t) => \A n \in issued : n < held[t]]_vars
BY DEF IInv, IssuedBelow, NewestInUse, Drawing, BumpCounter

\* Type correctness of the allocator: in particular no epoch that the file, a
\* manager or a thread holds ever outgrows its u32 word.
THEOREM TypeCorrect ==
  ASSUME SingleThread PROVE Spec => []TypeOK
<1>1. IInv => TypeOK
  BY DEF IInv
<1> QED
  BY InitInvariant, StepInvariant, <1>1, PTL DEF Spec

\* Nonces grow, whatever crashes, clock jumps and rebuilt runtimes do
\* (NonceManager.__init__ and next_nonce).
THEOREM NonceMonotonicity ==
  ASSUME SingleThread PROVE Spec => NoncesIncrease
BY InitInvariant, StepInvariant, StepIncreases, PTL DEF Spec, NoncesIncrease
=============================================================================
