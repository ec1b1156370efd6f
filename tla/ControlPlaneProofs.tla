------------------------- MODULE ControlPlaneProofs -------------------------
(***************************************************************************)
(* The application and the node together keep the promise of a remote      *)
(* command, for any number of commands, retries, runtimes and restarts,    *)
(* any limits of the node and no more clients than sequence numbers.       *)
(***************************************************************************)
EXTENDS ControlPlane, SequenceTheorems, FiniteSetTheorems, TLAPS

\* What is proved of the two halves alone.
AppP == INSTANCE CommandTransactionProofs WITH Verdicts <- Node!Statuses
NodeP == INSTANCE ControlNodeProofs WITH
  Sources <- {AppAddress},
  Frames <- [src : {AppAddress}, seq : Nat, nonce : Nat,
             cmd : {t.cmd : t \in Targets}, arg : {1}, auth : {TRUE},
             bcast : {FALSE}]

----------------------------------------------------------------------------
(* The assumptions of the halves follow from those of the whole, and the    *)
(* halves take the steps their proofs are about.                            *)

LEMMA AppConstants == AppP!TransactionAssumption
  BY PlaneConstants DEF PlaneAssumption, App!TransactionAssumption, AppP!TransactionAssumption,
     App!LocalOutcomes, AppP!LocalOutcomes

LEMMA NodeConstants ==
  /\ [src : {AppAddress}, seq : Nat, nonce : Nat, cmd : {t.cmd : t \in Targets}, arg : {1},
      auth : {TRUE}, bcast : {FALSE}]
       \subseteq [src : {AppAddress}, seq : Nat, nonce : Nat, cmd : NodeP!Commands,
                  arg : Nat, auth : BOOLEAN, bcast : BOOLEAN]
  /\ NodeP!IsFiniteSet({AppAddress})
  /\ NodeP!Few
<1>1. {t.cmd : t \in Targets} \subseteq NodeP!Commands
  BY PlaneConstants DEF PlaneAssumption, Node!Commands, NodeP!Commands
<1>2. NodeP!IsFiniteSet({AppAddress}) /\ NodeP!Cardinality({AppAddress}) = 1
  <2>1. \A S : NodeP!IsFiniteSet(S) <=> IsFiniteSet(S)
    BY DEF NodeP!IsFiniteSet, IsFiniteSet
  <2>2. \A S : NodeP!Cardinality(S) = Cardinality(S)
    BY DEF NodeP!Cardinality, Cardinality
  <2> QED
    BY <2>1, <2>2, FS_Singleton
<1>3. SourceCap \in Nat \ {0}
  BY PlaneConstants DEF PlaneAssumption
<1>4. NodeP!Few
  BY <1>2, <1>3 DEF NodeP!Few
<1>5. 1 \in Nat /\ {TRUE} \subseteq BOOLEAN /\ {FALSE} \subseteq BOOLEAN
  OBVIOUS
<1> DEFINE cmds == {t.cmd : t \in Targets}
<1>6. \A f \in [src : {AppAddress}, seq : Nat, nonce : Nat, cmd : cmds, arg : {1},
                auth : {TRUE}, bcast : {FALSE}] :
        f \in [src : {AppAddress}, seq : Nat, nonce : Nat, cmd : NodeP!Commands,
               arg : Nat, auth : BOOLEAN, bcast : BOOLEAN]
  <2> HIDE DEF cmds
  <2> QED
    BY <1>1, <1>5 DEF cmds
<1> QED
  BY <1>2, <1>4, <1>6

LEMMA AppSteps == App!Next => AppP!Next
  BY DEF App!Next, AppP!Next, App!Begin, AppP!Begin, App!CheckListener, AppP!CheckListener,
         App!OpenListener, AppP!OpenListener, App!OpenFails, AppP!OpenFails, App!Allocate,
         AppP!Allocate, App!CounterExhausted, AppP!CounterExhausted, App!BumpCounter,
         AppP!BumpCounter, App!Send, AppP!Send, App!SendFails, AppP!SendFails, App!Register,
         AppP!Register, App!ReceiveOwnAck, AppP!ReceiveOwnAck, App!ReceiveOtherAck,
         AppP!ReceiveOtherAck, App!ReceiveInvalid, AppP!ReceiveInvalid, App!ListenerLost,
         AppP!ListenerLost, App!Retry, AppP!Retry, App!GiveUp, AppP!GiveUp, App!ClientStep,
         AppP!ClientStep, App!StartSession, AppP!StartSession, App!StopSession,
         AppP!StopSession, App!NodeAnswers, AppP!NodeAnswers, App!Answer, AppP!Answer,
         App!LoseCommand, AppP!LoseCommand, App!LoseAck, AppP!LoseAck, App!Goto, AppP!Goto,
         App!Key, AppP!Key, App!Discard, AppP!Discard, App!Finish, AppP!Finish,
         App!HeldByOthers, AppP!HeldByOthers, App!NoCommand, AppP!NoCommand, App!NoOutcome,
         AppP!NoOutcome, App!compose_nonce, AppP!compose_nonce, App!Owners, AppP!Owners,
         App!FinalStatus, AppP!FinalStatus, App!shared, AppP!shared, App!network,
         AppP!network

LEMMA NodeReceiveStep ==
  ASSUME NEW f, Node!Receive(f)
  PROVE  NodeP!Receive(f)
  BY DEF Node!Receive, NodeP!Receive, Node!LoopRuns, NodeP!LoopRuns, Node!RejectAuth, NodeP!RejectAuth,
         Node!AnswerDuplicate, NodeP!AnswerDuplicate, Node!RejectConflict,
         NodeP!RejectConflict, Node!RejectReplay, NodeP!RejectReplay, Node!RejectRate,
         NodeP!RejectRate, Node!AnswerCommand, NodeP!AnswerCommand, Node!Account,
         NodeP!Account, Node!NoDispatch, NodeP!NoDispatch, Node!Dispatch, NodeP!Dispatch,
         Node!Verdict, NodeP!Verdict, Node!StoreAnswer, NodeP!StoreAnswer, Node!Soonest,
         NodeP!Soonest, Node!Conflicts, NodeP!Conflicts, Node!ExactEntries,
         NodeP!ExactEntries, Node!LiveCache, NodeP!LiveCache, Node!TakeToken,
         NodeP!TakeToken, Node!Refill, NodeP!Refill, Node!TokensNow, NodeP!TokensNow,
         Node!RecordNonce, NodeP!RecordNonce, Node!ReplayDecision, NodeP!ReplayDecision,
         Node!Shifted, NodeP!Shifted, Node!Created, NodeP!Created, Node!SourceTables,
         NodeP!SourceTables, Node!Oldest, NodeP!Oldest, Node!Used, NodeP!Used,
         Node!FreshSource, NodeP!FreshSource, Node!NoSource, NodeP!NoSource, Node!Ack,
         NodeP!Ack, Node!Entry, NodeP!Entry, Node!Key, NodeP!Key, Node!NoReboot,
         NodeP!NoReboot, Node!BroadcastAllowed, NodeP!BroadcastAllowed, Node!Novel,
         NodeP!Novel, Node!Cardinality, NodeP!Cardinality

LEMMA NodeSteps == Node!Next => NodeP!Next
  BY NodeReceiveStep DEF Node!Next, NodeP!Next, Node!ScheduleOtaReboot,
         NodeP!ScheduleOtaReboot, Node!Restart, NodeP!Restart, Node!PowerLoss,
         NodeP!PowerLoss, Node!OtaCheckBegins, NodeP!OtaCheckBegins, Node!OtaCheckEnds,
         NodeP!OtaCheckEnds, Node!OtaStep, NodeP!OtaStep, Node!LoopRuns, NodeP!LoopRuns,
         Node!LinkChanges, NodeP!LinkChanges, Node!OtaVerified,
         NodeP!OtaVerified, Node!Tick, NodeP!Tick, Node!Boot, NodeP!Boot, Node!NoSource,
         NodeP!NoSource, Node!NoReply, NodeP!NoReply, Node!NoReboot, NodeP!NoReboot

\* The two instances of a module call the same command by the same key.
LEMMA SameKeys ==
  /\ \A f : App!Key(f) = AppP!Key(f)
  /\ \A f : Node!Key(f) = NodeP!Key(f)
  BY DEF App!Key, AppP!Key, Node!Key, NodeP!Key

----------------------------------------------------------------------------
(* What ties the halves together. *)

\* An identity was drawn from a counter that has moved on since, or its client
\* is about to move it.
NumbersAreDrawn ==
  \A k \in numbered :
    \/ \E r \in AppP!Runtimes : \E n \in Nat : AppP!Drawn(k[3], r, n) /\ n < counterOf[r]
    \/ \E c \in Clients : pc[c] = "bump" /\ k = AppP!Key(sent[c])

\* Whoever has a command, and whatever is on its way, has an identity.
CommandsAreNumbered ==
  /\ \A c \in Clients : AppP!HasCommand(c) => AppP!Key(sent[c]) \in numbered
  /\ \A f \in wire : AppP!Key(f) \in numbered

\* What the node has run since its last restart has been run, and so has what
\* it answered with OK at any time.
KeyRun(e) == <<e.seq, e.cmd, e.nonce>>
RunsAreKept ==
  /\ \A i \in DOMAIN ran : KeyRun(ran[i]) \in ranEver
  /\ \A x \in answered : x.status = "OK" => AppP!Key(x.frame) \in ranEver

PlaneInv ==
  /\ AppP!TypeInv /\ AppP!IdentityInv
  /\ NodeP!TruthInv
  /\ NumbersAreDrawn
  /\ CommandsAreNumbered
  /\ RunsAreKept

----------------------------------------------------------------------------
(* The halves take their own steps, and keep their own invariants. *)

\* A command on its way is one the node can parse.
LEMMA ReceivedIsFrame ==
  ASSUME AppP!TypeInv, NEW f \in wire
  PROVE  /\ f.seq \in Nat /\ f.nonce \in Nat /\ f.cmd \in {t.cmd : t \in Targets}
         /\ Received(f) \in [src : {AppAddress}, seq : Nat, nonce : Nat,
                             cmd : {t.cmd : t \in Targets}, arg : {1}, auth : {TRUE},
                             bcast : {FALSE}]
<1>1. f \in AppP!Frames
  BY DEF AppP!TypeInv, AppP!TypeOK
<1>2. f.seq \in Nat /\ f.nonce \in Nat /\ f.cmd \in {t.cmd : t \in Targets}
  BY <1>1 DEF AppP!Frames
<1> QED
  BY <1>2 DEF Received

\* An answer of the node has one of its statuses and is about the frame it got;
\* a command is run if it is answered at first hand with OK, and otherwise none.
LEMMA AnswerIsAboutTheFrame ==
  ASSUME NodeP!TypeInv, NEW f, NodeP!Receive(f)
  PROVE  /\ reply'.status \in NodeP!Statuses
         /\ reply'.key = NodeP!Key(f)
         /\ reply' # NodeP!NoReply
         /\ ran' = ran \/ ran' = Append(ran, NodeP!Key(f))
<1>1. ASSUME NEW status \in NodeP!Statuses, NEW dup, reply' = NodeP!Ack(f, status, dup)
      PROVE  /\ reply'.status \in NodeP!Statuses
             /\ reply'.key = NodeP!Key(f)
             /\ reply' # NodeP!NoReply
  BY <1>1 DEF NodeP!Ack, NodeP!NoReply, NodeP!Key
<1>2. \A status : NodeP!Verdict(f) \in NodeP!Statuses
  BY DEF NodeP!Verdict, NodeP!Statuses, NodeP!Refusals
<1>3. \A s, n : NodeP!ReplayDecision(s, n) # "accept" =>
        NodeP!ReplayDecision(s, n) \in NodeP!Statuses
  BY DEF NodeP!ReplayDecision, NodeP!Statuses
<1>4. \A e \in cache : e.status \in NodeP!Statuses
  BY DEF NodeP!TypeInv, NodeP!TypeOK
<1>5. \E status \in NodeP!Statuses, dup \in BOOLEAN : reply' = NodeP!Ack(f, status, dup)
  <2>1. {"INVALID_AUTH", "NONCE_REUSED", "RATE_LIMITED"} \subseteq NodeP!Statuses
    BY DEF NodeP!Statuses, NodeP!Refusals
  <2> QED
    BY <1>2, <1>3, <1>4, <2>1
       DEF NodeP!Receive, NodeP!RejectAuth, NodeP!AnswerDuplicate, NodeP!RejectConflict,
           NodeP!RejectReplay, NodeP!RejectRate, NodeP!AnswerCommand, NodeP!ExactEntries,
           NodeP!LiveCache
<1>6. ran' = ran \/ ran' = Append(ran, NodeP!Key(f))
  BY DEF NodeP!Receive, NodeP!RejectAuth, NodeP!AnswerDuplicate, NodeP!RejectConflict,
         NodeP!RejectReplay, NodeP!RejectRate, NodeP!AnswerCommand, NodeP!NoDispatch,
         NodeP!Dispatch
<1> QED
  BY <1>1, <1>5, <1>6

\* A step of the whole is one of each half, or leaves it alone.
LEMMA HalvesStep ==
  ASSUME AppP!TypeInv, NodeP!TypeInv, [Next]_vars
  PROVE  [AppP!Next]_(AppP!vars) /\ [NodeP!Next]_(NodeP!nodeVars)
<1>1. /\ AppP!vars = appVars /\ AppP!vars' = appVars'
      /\ NodeP!nodeVars = nodeVars /\ NodeP!nodeVars' = nodeVars'
  BY DEF AppP!vars, appVars, NodeP!nodeVars, nodeVars
<1>2. CASE UNCHANGED vars
  BY <1>1, <1>2 DEF vars
<1>3. ASSUME NEW c \in Clients, ClientSteps(c)
      PROVE  AppP!Next /\ UNCHANGED nodeVars
  BY <1>3, AppSteps DEF ClientSteps, App!Next
<1>4. CASE Disturbance
  BY <1>1, <1>4, AppSteps DEF Disturbance, App!Next
<1>5. CASE NodeReceives
  <2>1. PICK f \in wire : Node!Receive(Received(f)) /\ App!Answer(f, reply'.status)
    BY <1>5 DEF NodeReceives
  <2>2. NodeP!Receive(Received(f))
    BY <2>1, NodeReceiveStep
  <2>3. reply'.status \in Node!Statuses
    BY <2>2, AnswerIsAboutTheFrame
       DEF Node!Statuses, NodeP!Statuses, Node!Refusals, NodeP!Refusals
  <2>4. App!Next
    BY <2>1, <2>3 DEF App!Next, App!NodeAnswers
  <2>5. NodeP!Next
    BY <2>2, ReceivedIsFrame DEF NodeP!Next
  <2> QED
    BY <2>4, <2>5, AppSteps
<1>6. CASE NodeLoop
  BY <1>1, <1>6, NodeSteps DEF NodeLoop, Node!Next
<1>7. CASE NodeRestarts
  BY <1>1, <1>7, NodeSteps DEF NodeRestarts, Node!Next
<1> QED
  BY <1>1, <1>2, <1>3, <1>4, <1>5, <1>6, <1>7 DEF Next

\* So the invariants of the halves hold of the whole.
LEMMA HalvesKeep ==
  ASSUME AppP!FewClients, AppP!TypeInv, AppP!IdentityInv, NodeP!TruthInv, [Next]_vars
  PROVE  AppP!TypeInv' /\ AppP!IdentityInv' /\ NodeP!TruthInv'
<1>1. [AppP!Next]_(AppP!vars) /\ [NodeP!Next]_(NodeP!nodeVars)
  BY HalvesStep DEF NodeP!TruthInv, NodeP!OnceInv
<1>2. AppP!TypeInv'
  BY <1>1, AppP!StepTypeInv, AppConstants
<1>3. AppP!NoncesAreDrawn' /\ AppP!SequencesAreRecent' /\ AppP!KeysAreUnique'
  BY <1>1, AppP!StepKeys, AppConstants DEF AppP!IdentityInv
<1>4. AppP!AcksAreAnswers'
  BY <1>1, AppP!StepAcks, AppConstants DEF AppP!IdentityInv
<1>5. AppP!VerdictIsForThisCommand'
  BY <1>1, AppP!StepVerdict, AppConstants DEF AppP!IdentityInv
<1>6. NodeP!TruthInv'
  BY <1>1, NodeP!StepTruth, NodeConstants, PlaneConstants DEF PlaneAssumption
<1> QED
  BY <1>2, <1>3, <1>4, <1>5, <1>6 DEF AppP!IdentityInv

\* A function on the first numbers is a sequence.
LEMMA FunctionIsSeq ==
  ASSUME NEW T, NEW n \in Nat, NEW f \in [1..n -> T]
  PROVE  f \in Seq(T) /\ Len(f) = n
<1>1. f \in Seq(T)
  BY SeqDef
<1> QED
  BY <1>1, LenProperties

\* The identities of the commands a node ran, when it runs one more, and when it
\* has run none.
LEMMA KeysOfAppend ==
  ASSUME NEW S, NEW run \in Seq(S), NEW e \in S
  PROVE  KeysRun(Append(run, e)) = Append(KeysRun(run), KeyRun(e))
<1> DEFINE T == {KeyRun(x) : x \in S}
           longer == Append(run, e)
<1>1. /\ longer \in Seq(S) /\ Len(longer) = Len(run) + 1
      /\ DOMAIN longer = 1..(Len(run) + 1) /\ DOMAIN run = 1..Len(run)
      /\ Len(run) \in Nat
      /\ \A i \in 1..Len(run) : longer[i] = run[i]
      /\ longer[Len(run) + 1] = e
  OBVIOUS
<1>2. /\ \A i \in 1..Len(run) : run[i] \in S
      /\ \A i \in 1..(Len(run) + 1) : longer[i] \in S
  BY <1>1
<1> HIDE DEF longer
<1>3. /\ KeysRun(run) \in [1..Len(run) -> T]
      /\ KeysRun(longer) \in [1..(Len(run) + 1) -> T]
      /\ \A i \in 1..Len(run) : KeysRun(run)[i] = KeyRun(run[i])
      /\ \A i \in 1..(Len(run) + 1) : KeysRun(longer)[i] = KeyRun(longer[i])
  BY <1>1, <1>2 DEF KeysRun, KeyRun
<1>4. /\ KeysRun(run) \in Seq(T) /\ Len(KeysRun(run)) = Len(run)
      /\ KeysRun(longer) \in Seq(T) /\ Len(KeysRun(longer)) = Len(run) + 1
  BY <1>1, <1>3, FunctionIsSeq
<1> DEFINE k == KeyRun(e)
           other == Append(KeysRun(run), k)
<1>5. k \in T
  OBVIOUS
<1>6. /\ other \in Seq(T) /\ Len(other) = Len(run) + 1
      /\ \A i \in 1..Len(run) : other[i] = KeysRun(run)[i]
      /\ other[Len(run) + 1] = k
  <2> HIDE DEF k, T
  <2> QED
    BY <1>1, <1>4, <1>5
<1> HIDE DEF other, T
<1>7. \A i \in 1..(Len(run) + 1) : KeysRun(longer)[i] = other[i]
  <2> SUFFICES ASSUME NEW i \in 1..(Len(run) + 1) PROVE KeysRun(longer)[i] = other[i]
    OBVIOUS
  <2>1. CASE i \in 1..Len(run)
    BY <1>1, <1>3, <1>6, <2>1
  <2>2. CASE i = Len(run) + 1
    BY <1>1, <1>3, <1>6, <2>2
  <2> QED
    BY <1>1, <2>1, <2>2
<1>8. KeysRun(longer) = other
  BY <1>4, <1>6, <1>7, SeqEqual
<1> QED
  BY <1>8 DEF longer, other

LEMMA KeysOfNothing == KeysRun(<< >>) = << >>
<1>1. << >> \in Seq({}) /\ Len(<< >>) = 0 /\ DOMAIN << >> = {}
  OBVIOUS
<1>2. KeysRun(<< >>) \in [1..0 -> {}]
  BY <1>1 DEF KeysRun
<1>3. KeysRun(<< >>) \in Seq({}) /\ Len(KeysRun(<< >>)) = 0
  BY <1>2, FunctionIsSeq
<1> QED
  BY <1>1, <1>3, EmptySeq
----------------------------------------------------------------------------
(* The steps of a client. *)

\* A client that has no identity yet.
Preparing(c) == pc[c] \in {"listen", "bind", "allocate"}

\* What a step of a client does to itself: it begins, prepares, gets an identity,
\* goes on under it, or ends with a failure or with the OK of a command that ran.
ClientMoves(c) ==
  \/ pc[c] = "idle" /\ pc'[c] = "listen" /\ outcome'[c].status = "none"
  \/ Preparing(c) /\ Preparing(c)' /\ outcome'[c] = outcome[c]
  \/ /\ pc[c] = "allocate" /\ pc'[c] = "bump" /\ outcome'[c] = outcome[c]
     /\ wire' = wire /\ counterOf' = counterOf
  \/ /\ AppP!HasCommand(c) /\ AppP!HasCommand(c)' /\ pc'[c] # "bump"
     /\ sent'[c] = sent[c] /\ outcome'[c] = outcome[c]
  \/ pc[c] # "idle" /\ pc'[c] = "idle" /\ outcome'[c].status \in PromisedFailures
  \/ /\ AppP!HasCommand(c) /\ pc'[c] = "idle"
     /\ outcome'[c].status = "OK" /\ AppP!Key(sent[c]) \in ranEver

LEMMA ClientsMove ==
  ASSUME PlaneInv, NEW c \in Clients, App!Begin(c) \/ App!ClientStep(c)
  PROVE  /\ ClientMoves(c)
         /\ \A d \in Clients \ {c} :
              pc'[d] = pc[d] /\ sent'[d] = sent[d] /\ outcome'[d] = outcome[d]
         /\ wire' = wire \/ (wire' = wire \cup {sent[c]} /\ AppP!HasCommand(c))
         /\ counterOf' = counterOf \/ pc[c] = "bump"
         /\ answered' = answered
<1>0. /\ pc \in [Clients -> {"idle", "listen", "bind", "allocate", "bump", "send",
                             "register", "wait"}]
      /\ sent \in [Clients -> AppP!Frames \cup {AppP!NoCommand}]
      /\ outcome \in [Clients -> [status : Node!Statuses \cup AppP!LocalOutcomes,
                                  frame : AppP!Frames \cup {AppP!NoCommand}]]
  BY DEF PlaneInv, AppP!TypeInv, AppP!TypeOK
<1> DEFINE others == \A d \in Clients \ {c} :
             pc'[d] = pc[d] /\ sent'[d] = sent[d] /\ outcome'[d] = outcome[d]
<1>1. ASSUME NEW status, App!Finish(c, status)
      PROVE  others /\ pc'[c] = "idle" /\ outcome'[c].status = status
  BY <1>0, <1>1 DEF App!Finish, App!Goto
<1>2. CASE \/ App!OpenFails(c) \/ App!CounterExhausted(c) \/ App!SendFails(c)
           \/ App!ListenerLost(c) \/ App!GiveUp(c)
  <2>1. PICK status \in PromisedFailures : App!Finish(c, status)
    BY <1>2 DEF App!OpenFails, App!CounterExhausted, App!SendFails, App!ListenerLost,
         App!GiveUp, App!FinalStatus, PromisedFailures
  <2>2. /\ pc[c] # "idle"
        /\ wire' = wire /\ counterOf' = counterOf /\ answered' = answered
    BY <1>2 DEF App!OpenFails, App!CounterExhausted, App!SendFails, App!ListenerLost,
         App!GiveUp, App!network
  <2> QED
    BY <1>1, <2>1, <2>2 DEF ClientMoves, Preparing, AppP!HasCommand
<1>3. CASE App!ReceiveOwnAck(c)
  <2>1. PICK a \in acks : App!Key(a) = App!Key(sent[c]) /\ App!Finish(c, a.status)
    BY <1>3 DEF App!ReceiveOwnAck
  <2>2. PICK x \in answered : x.status = a.status /\ AppP!Key(x.frame) = AppP!Key(a)
    BY DEF PlaneInv, AppP!IdentityInv, AppP!AcksAreAnswers
  <2>3. a.status \in Node!Statuses
    BY DEF PlaneInv, AppP!TypeInv, AppP!TypeOK
  <2>4. /\ pc[c] = "wait"
        /\ wire' = wire /\ counterOf' = counterOf /\ answered' = answered
    BY <1>3 DEF App!ReceiveOwnAck
  <2>5. a.status = "OK" => AppP!Key(sent[c]) \in ranEver
    BY <2>1, <2>2, SameKeys DEF PlaneInv, RunsAreKept
  <2>6. a.status # "OK" => a.status \in PromisedFailures
    BY <2>3 DEF PromisedFailures
  <2> QED
    BY <1>1, <2>1, <2>4, <2>5, <2>6 DEF ClientMoves, Preparing, AppP!HasCommand
<1>4. CASE App!Begin(c)
  <2>1. /\ pc[c] = "idle" /\ pc' = [pc EXCEPT ![c] = "listen"]
        /\ outcome' = [outcome EXCEPT ![c] = App!NoOutcome]
        /\ wire' = wire /\ counterOf' = counterOf /\ answered' = answered
    BY <1>4 DEF App!Begin, App!Goto, App!network
  <2>2. PICK new : sent' = [sent EXCEPT ![c] = new]
    BY <1>4 DEF App!Begin
  <2>3. outcome'[c].status = "none"
    BY <1>0, <2>1 DEF App!NoOutcome
  <2> QED
    BY <1>0, <2>1, <2>2, <2>3 DEF ClientMoves, Preparing, AppP!HasCommand
<1>5. CASE App!CheckListener(c) \/ App!OpenListener(c)
  <2>1. PICK to \in {"allocate", "bind"} : pc' = [pc EXCEPT ![c] = to]
    BY <1>5 DEF App!CheckListener, App!OpenListener, App!Goto
  <2>2. /\ pc[c] \in {"listen", "bind"}
        /\ UNCHANGED <<sent, outcome, wire, counterOf, answered>>
    BY <1>5 DEF App!CheckListener, App!OpenListener, App!network, App!shared
  <2> QED
    BY <1>0, <2>1, <2>2 DEF ClientMoves, Preparing, AppP!HasCommand
<1>6. CASE App!Allocate(c)
  <2>1. /\ pc[c] = "allocate" /\ pc' = [pc EXCEPT ![c] = "bump"]
        /\ UNCHANGED <<outcome, wire, counterOf, answered>>
    BY <1>6 DEF App!Allocate, App!Goto, App!network
  <2>2. PICK new : sent' = [sent EXCEPT ![c] = new]
    BY <1>6 DEF App!Allocate
  <2> QED
    BY <1>0, <2>1, <2>2 DEF ClientMoves, Preparing, AppP!HasCommand
<1>7. CASE \/ App!BumpCounter(c) \/ App!Send(c) \/ App!Register(c) \/ App!ReceiveOtherAck(c)
           \/ App!ReceiveInvalid(c) \/ App!Retry(c)
  <2>1. PICK to \in {"send", "register", "wait"} : pc' = [pc EXCEPT ![c] = to]
    <3>1. pc' = pc => pc' = [pc EXCEPT ![c] = pc[c]]
      BY <1>0
    <3> QED
      BY <1>7, <3>1 DEF App!BumpCounter, App!Send, App!Register, App!ReceiveOtherAck,
         App!ReceiveInvalid, App!Retry, App!Goto
  <2>2. /\ AppP!HasCommand(c) /\ UNCHANGED <<sent, outcome, answered>>
        /\ counterOf' = counterOf \/ pc[c] = "bump"
        /\ wire' = wire \/ wire' = wire \cup {sent[c]}
    BY <1>7 DEF App!BumpCounter, App!Send, App!Register, App!ReceiveOtherAck,
       App!ReceiveInvalid, App!Retry, App!network, App!shared, AppP!HasCommand
  <2> QED
    BY <1>0, <2>1, <2>2 DEF ClientMoves, Preparing, AppP!HasCommand
<1> QED
  BY <1>2, <1>3, <1>4, <1>5, <1>6, <1>7 DEF App!ClientStep

\* An identity is given once: one whose counter has moved on had another nonce,
\* and one whose client is about to move it another sequence number
\* (CmdSequenceManager.next, NonceManager.next_nonce).
LEMMA IdentityIsFresh ==
  ASSUME AppP!FewClients, PlaneInv, [Next]_vars, NEW c \in Clients, App!Allocate(c)
  PROVE  AppP!Key(sent'[c]) \notin numbered
<1> SUFFICES ASSUME AppP!Key(sent'[c]) \in numbered PROVE FALSE
  OBVIOUS
<1>0. /\ pc \in [Clients -> {"idle", "listen", "bind", "allocate", "bump", "send",
                             "register", "wait"}]
      /\ sent \in [Clients -> AppP!Frames \cup {AppP!NoCommand}]
      /\ counterOf \in [AppP!Runtimes -> Nat] /\ MaxRuntimes \in Nat
      /\ use[c] \in AppP!Runtimes
  <2>1. pc[c] = "allocate"
    BY DEF App!Allocate
  <2> QED
    BY <2>1, PlaneConstants DEF PlaneInv, AppP!TypeInv, AppP!TypeOK, AppP!Holds,
       PlaneAssumption, App!TransactionAssumption
<1>1. /\ pc[c] = "allocate" /\ pc' = [pc EXCEPT ![c] = "bump"]
      /\ counterOf[use[c]] < CounterCap
      /\ \A d \in Clients \ {c} : sent'[d] = sent[d]
      /\ sent'[c].nonce = AppP!compose_nonce(use[c], counterOf[use[c]])
  <2>1. sent[c] \in AppP!Frames
    BY <1>0 DEF App!Allocate, PlaneInv, AppP!TypeInv, AppP!Holds
  <2>2. sent' = [sent EXCEPT ![c].seq = seqOf[use[c]],
                             ![c].nonce = App!compose_nonce(use[c], counterOf[use[c]])]
    BY DEF App!Allocate
  <2>3. sent'[c].nonce = App!compose_nonce(use[c], counterOf[use[c]])
    BY <1>0, <2>1, <2>2 DEF AppP!Frames
  <2> QED
    BY <1>0, <2>2, <2>3
       DEF App!Allocate, App!Goto, App!compose_nonce, AppP!compose_nonce
<1>2. AppP!KeysAreUnique'
  BY HalvesKeep DEF PlaneInv, AppP!IdentityInv
<1>3. CASE \E d \in Clients : pc[d] = "bump" /\ AppP!Key(sent'[c]) = AppP!Key(sent[d])
  <2>1. PICK d \in Clients : pc[d] = "bump" /\ AppP!Key(sent'[c]) = AppP!Key(sent[d])
    BY <1>3
  <2>2. d # c /\ sent'[d] = sent[d] /\ pc'[d] = "bump" /\ pc'[c] = "bump"
    BY <1>0, <1>1, <2>1
  <2>3. AppP!Key(sent'[c]) = AppP!Key(sent'[d])
    BY <2>1, <2>2
  <2> QED
    BY <1>2, <2>2, <2>3 DEF AppP!KeysAreUnique, AppP!HasCommand, AppP!Key
<1>4. CASE \E r \in AppP!Runtimes : \E n \in Nat :
             AppP!Drawn(AppP!Key(sent'[c])[3], r, n) /\ n < counterOf[r]
  <2>1. PICK r \in AppP!Runtimes, n \in Nat :
          /\ n < CounterCap /\ n < counterOf[r]
          /\ sent'[c].nonce = AppP!compose_nonce(r, n)
    BY <1>4 DEF AppP!Drawn, AppP!Key
  <2>2. r \in Nat /\ use[c] \in Nat /\ counterOf[use[c]] \in Nat
    BY <1>0 DEF AppP!Runtimes
  <2>3. r = use[c] /\ n = counterOf[use[c]]
    <3>1. PICK s \in Nat, m \in Nat : s = use[c] /\ m = counterOf[use[c]]
      BY <2>2
    <3>2. m < CounterCap /\ AppP!compose_nonce(r, n) = AppP!compose_nonce(s, m)
      BY <1>1, <2>1, <3>1
    <3>3. r = s /\ n = m
      BY <2>1, <2>2, <3>2, AppP!NoncesDiffer, AppConstants
    <3> QED
      BY <3>1, <3>3
  <2> QED
    BY <2>1, <2>2, <2>3
<1> QED
  BY <1>3, <1>4 DEF PlaneInv, NumbersAreDrawn

\* Whoever has drawn moves the counter next.
LEMMA DrawnMovesOn ==
  ASSUME NEW c \in Clients, App!Begin(c) \/ App!ClientStep(c)
  PROVE  IF pc[c] = "bump" THEN App!BumpCounter(c) ELSE counterOf' = counterOf
  BY DEF App!Begin, App!ClientStep, App!CheckListener, App!OpenListener, App!OpenFails,
     App!Allocate, App!CounterExhausted, App!BumpCounter, App!Send, App!SendFails,
     App!Register, App!ReceiveOwnAck, App!ReceiveOtherAck, App!ReceiveInvalid,
     App!ListenerLost, App!Retry, App!GiveUp, App!shared

\* No step of the clients breaks the ties between the halves.
LEMMA ClientsKeepTies ==
  ASSUME PlaneInv, AppP!TypeInv', AppP!IdentityInv', NEW c \in Clients, ClientSteps(c)
  PROVE  NumbersAreDrawn' /\ CommandsAreNumbered' /\ RunsAreKept'
<1>0. /\ pc \in [Clients -> {"idle", "listen", "bind", "allocate", "bump", "send",
                             "register", "wait"}]
      /\ counterOf \in [AppP!Runtimes -> Nat]
      /\ IF pc[c] = "bump" THEN App!BumpCounter(c) ELSE counterOf' = counterOf
  BY DrawnMovesOn DEF PlaneInv, AppP!TypeInv, AppP!TypeOK, ClientSteps
<1>1. /\ ClientMoves(c)
      /\ \A d \in Clients \ {c} :
           pc'[d] = pc[d] /\ sent'[d] = sent[d] /\ outcome'[d] = outcome[d]
      /\ wire' = wire \/ (wire' = wire \cup {sent[c]} /\ AppP!HasCommand(c))
      /\ counterOf' = counterOf \/ pc[c] = "bump"
      /\ answered' = answered
  BY ClientsMove DEF ClientSteps
<1>2. /\ numbered \subseteq numbered'
      /\ numbered' = numbered \/ (/\ pc[c] = "allocate" /\ pc'[c] = "bump"
                                  /\ numbered' = numbered \cup {AppP!Key(sent'[c])})
      /\ pc[c] = "allocate" /\ pc'[c] = "bump" => AppP!Key(sent'[c]) \in numbered'
      /\ ran' = ran /\ ranEver' = ranEver
  BY SameKeys DEF ClientSteps, nodeVars, AppP!Key, App!Key
<1>3. RunsAreKept'
  BY <1>1, <1>2 DEF PlaneInv, RunsAreKept, KeyRun, AppP!Key
<1>4. CommandsAreNumbered'
  <2>1. ASSUME NEW d \in Clients, AppP!HasCommand(d)' PROVE AppP!Key(sent'[d]) \in numbered'
    <3>1. CASE d # c
      BY <1>1, <1>2, <2>1, <3>1
         DEF PlaneInv, CommandsAreNumbered, AppP!HasCommand, AppP!Key
    <3>2. CASE d = c
      BY <1>1, <1>2, <2>1, <3>2
         DEF ClientMoves, Preparing, PlaneInv, CommandsAreNumbered, AppP!HasCommand, AppP!Key
    <3> QED
      BY <3>1, <3>2
  <2>2. ASSUME NEW f \in wire' PROVE AppP!Key(f) \in numbered'
    BY <1>1, <1>2 DEF PlaneInv, CommandsAreNumbered
  <2> QED
    BY <2>1, <2>2 DEF CommandsAreNumbered, AppP!Key
<1>5. NumbersAreDrawn'
  <2> SUFFICES ASSUME NEW k \in numbered'
               PROVE  \/ \E r \in AppP!Runtimes : \E n \in Nat :
                           AppP!Drawn(k[3], r, n) /\ n < counterOf'[r]
                      \/ \E d \in Clients : pc'[d] = "bump" /\ k = AppP!Key(sent'[d])
    BY DEF NumbersAreDrawn, AppP!Drawn, AppP!Key, AppP!Runtimes, AppP!compose_nonce
  <2>1. CASE k \notin numbered
    BY <1>2, <2>1
  <2>2. CASE k \in numbered /\ \E d \in Clients \ {c} : pc[d] = "bump" /\ k = AppP!Key(sent[d])
    <3>1. PICK d \in Clients \ {c} : pc[d] = "bump" /\ k = AppP!Key(sent[d])
      BY <2>2
    <3>2. pc'[d] = "bump" /\ k = AppP!Key(sent'[d])
      BY <1>1, <3>1
    <3> QED
      BY <3>2
  <2>3. CASE pc[c] = "bump" /\ k = AppP!Key(sent[c])
    <3>1. AppP!HasCommand(c)' /\ pc'[c] # "bump" /\ sent'[c] = sent[c]
      BY <1>0, <2>3 DEF App!BumpCounter, App!Goto, AppP!HasCommand
    <3>2. use'[c] \in AppP!Runtimes
      BY <3>1 DEF AppP!TypeInv, AppP!Holds, AppP!HasCommand
    <3>3. PICK n \in Nat : /\ AppP!Drawn(sent'[c].nonce, use'[c], n)
                           /\ n < counterOf'[use'[c]]
      BY <3>1 DEF AppP!IdentityInv, AppP!NoncesAreDrawn, AppP!Drawn, AppP!compose_nonce
    <3>4. k[3] = sent'[c].nonce
      BY <2>3, <3>1 DEF AppP!Key
    <3> QED
      BY <3>2, <3>3, <3>4
  <2>4. CASE \E r \in AppP!Runtimes : \E n \in Nat :
               AppP!Drawn(k[3], r, n) /\ n < counterOf[r]
    <3>1. PICK r \in AppP!Runtimes, n \in Nat : AppP!Drawn(k[3], r, n) /\ n < counterOf[r]
      BY <2>4
    <3>2. counterOf[r] \in Nat /\ counterOf'[r] \in Nat /\ counterOf[r] <= counterOf'[r]
      BY <1>0 DEF App!BumpCounter
    <3>3. n < counterOf'[r]
      BY <3>1, <3>2
    <3> QED
      BY <3>1, <3>3
  <2> QED
    BY <2>1, <2>2, <2>3, <2>4 DEF PlaneInv, NumbersAreDrawn
<1> QED
  BY <1>3, <1>4, <1>5

\* A command the node gets is run at most once in a boot, and answered with OK
\* only if it ran.
LEMMA NodeRuns ==
  ASSUME PlaneInv, NodeP!TruthInv', NodeReceives
  PROVE  /\ UNCHANGED <<pc, sent, outcome, numbered>>
         /\ ranEver \subseteq ranEver' /\ \A i \in DOMAIN ran' : KeyRun(ran'[i]) \in ranEver'
         /\ \E f \in wire :
              /\ answered' = answered \cup {[frame |-> f, status |-> reply'.status]}
              /\ reply'.status = "OK" => AppP!Key(f) \in ranEver'
              /\ \/ ran' = ran /\ ranEver' = ranEver
                 \/ /\ KeysRun(ran') = Append(KeysRun(ran), AppP!Key(f))
                    /\ ranEver' = ranEver \cup {AppP!Key(f)}
                    /\ \A i \in DOMAIN ran : KeysRun(ran)[i] # AppP!Key(f)
<1>1. PICK f \in wire : Node!Receive(Received(f)) /\ App!Answer(f, reply'.status)
  BY DEF NodeReceives
<1> DEFINE e == NodeP!Key(Received(f))
           k == AppP!Key(f)
<1>2. /\ UNCHANGED <<pc, sent, outcome, numbered>>
      /\ answered' = answered \cup {[frame |-> f, status |-> reply'.status]}
      /\ ranEver' = ranEver \cup {KeysRun(ran')[i] : i \in DOMAIN ran'}
  BY <1>1 DEF NodeReceives, App!Answer
<1>3. /\ reply'.key = e /\ reply' # NodeP!NoReply
      /\ ran' = ran \/ ran' = Append(ran, e)
  BY <1>1, NodeReceiveStep, AnswerIsAboutTheFrame DEF PlaneInv, NodeP!TruthInv, NodeP!OnceInv
<1>4. KeyRun(e) = k /\ e.src = AppAddress /\ e.nonce = f.nonce
  BY DEF KeyRun, Received, NodeP!Key, AppP!Key
<1>5. /\ ran \in Seq(NodeP!Keys) /\ ran' \in Seq(NodeP!Keys)
      /\ \A x \in NodeP!Keys : x.src = AppAddress
  BY DEF PlaneInv, NodeP!TruthInv, NodeP!OnceInv, NodeP!TypeInv, NodeP!TypeOK, NodeP!Keys
<1> HIDE DEF e, k
<1>6. /\ \A i \in DOMAIN ran : KeysRun(ran)[i] = KeyRun(ran[i])
      /\ \A i \in DOMAIN ran' : KeysRun(ran')[i] = KeyRun(ran'[i])
  BY DEF KeysRun, KeyRun
<1>7. ranEver \subseteq ranEver' /\ \A i \in DOMAIN ran' : KeyRun(ran'[i]) \in ranEver'
  BY <1>2, <1>6
<1>8. reply'.status = "OK" => k \in ranEver'
  <2>1. reply'.status = "OK" => \E i \in DOMAIN ran' : ran'[i] = e
    BY <1>3 DEF NodeP!TruthInv, NodeP!AnswersAreTruthful
  <2> QED
    BY <1>4, <1>7, <2>1
<1>9. CASE ran' = ran
  <2>1. ranEver' = ranEver
    BY <1>2, <1>6, <1>9 DEF PlaneInv, RunsAreKept
  <2> QED
    BY <1>2, <1>7, <1>8, <1>9, <2>1 DEF k
<1>10. CASE ran' = Append(ran, e)
  <2>1. e \in NodeP!Keys
    <3>1. ran'[Len(ran) + 1] = e /\ Len(ran) + 1 \in 1..Len(ran') /\ Len(ran) \in Nat
      BY <1>5, <1>10
    <3> QED
      BY <1>5, <3>1
  <2>2. /\ DOMAIN ran' = 1..(Len(ran) + 1) /\ DOMAIN ran = 1..Len(ran)
        /\ Len(ran) \in Nat
        /\ \A i \in 1..Len(ran) : ran'[i] = ran[i]
        /\ ran'[Len(ran) + 1] = e
    BY <1>5, <1>10, <2>1
  <2>3. KeysRun(ran') = Append(KeysRun(ran), k)
    BY <1>4, <1>5, <1>10, <2>1, KeysOfAppend
  <2>4. ranEver' = ranEver \cup {k}
    BY <1>2, <1>4, <1>6, <2>2 DEF PlaneInv, RunsAreKept
  <2>5. ASSUME NEW i \in DOMAIN ran, KeysRun(ran)[i] = k PROVE FALSE
    <3>1. ran[i].nonce = e.nonce
      BY <1>4, <1>6, <2>5 DEF KeyRun
    <3>2. ran[i].src = e.src
      BY <1>4, <1>5
    <3>3. i \in DOMAIN ran' /\ Len(ran) + 1 \in DOMAIN ran' /\ i # Len(ran) + 1
          /\ ran'[i] = ran[i] /\ ran'[Len(ran) + 1] = e
      BY <2>2
    <3> QED
      BY <3>1, <3>2, <3>3
         DEF NodeP!TruthInv, NodeP!OnceInv, NodeP!AtMostOncePerBoot
  <2> QED
    BY <1>2, <1>7, <1>8, <2>3, <2>4, <2>5 DEF k
<1> QED
  BY <1>3, <1>9, <1>10

\* Nor does the network, the session or the node.
LEMMA OthersKeepTies ==
  ASSUME PlaneInv, NodeP!TruthInv', [Next]_vars,
         Disturbance \/ NodeReceives \/ NodeLoop \/ NodeRestarts \/ UNCHANGED vars
  PROVE  NumbersAreDrawn' /\ CommandsAreNumbered' /\ RunsAreKept'
<1>1. /\ UNCHANGED <<pc, sent, counterOf, numbered>> /\ wire' \subseteq wire
  BY DEF Disturbance, App!StartSession, App!StopSession, App!LoseCommand, App!LoseAck,
     App!network, App!shared, NodeReceives, App!Answer, NodeLoop, NodeRestarts, appVars, vars
<1>2. NumbersAreDrawn'
  BY <1>1 DEF PlaneInv, NumbersAreDrawn, AppP!Drawn, AppP!compose_nonce, AppP!Key, AppP!Runtimes
<1>3. CommandsAreNumbered'
  BY <1>1 DEF PlaneInv, CommandsAreNumbered, AppP!HasCommand, AppP!Key
<1>4. CASE NodeReceives
  <2>1. PICK f \in wire :
          /\ answered' = answered \cup {[frame |-> f, status |-> reply'.status]}
          /\ reply'.status = "OK" => AppP!Key(f) \in ranEver'
    BY <1>4, NodeRuns
  <2>2. ranEver \subseteq ranEver' /\ \A i \in DOMAIN ran' : KeyRun(ran'[i]) \in ranEver'
    BY <1>4, NodeRuns
  <2>3. RunsAreKept'
    BY <2>1, <2>2 DEF PlaneInv, RunsAreKept, KeyRun, AppP!Key
  <2> QED
    BY <1>2, <1>3, <2>3
<1>5. CASE NodeRestarts
  <2>1. ran' = <<>> /\ UNCHANGED <<answered, ranEver>>
    BY <1>5 DEF NodeRestarts, Node!Restart, Node!PowerLoss, Node!Boot, appVars
  <2>2. DOMAIN ran' = {}
    BY <2>1
  <2>3. RunsAreKept'
    BY <2>1, <2>2 DEF PlaneInv, RunsAreKept, KeyRun, AppP!Key
  <2> QED
    BY <1>2, <1>3, <2>3
<1>6. CASE Disturbance \/ NodeLoop \/ UNCHANGED vars
  <2>1. UNCHANGED <<ran, answered, ranEver>>
    BY <1>6 DEF Disturbance, App!StartSession, App!StopSession, App!LoseCommand, App!LoseAck,
       App!network, NodeLoop, Node!ScheduleOtaReboot, Node!OtaCheckBegins,
       Node!OtaCheckEnds, Node!OtaStep, Node!OtaVerified,
       Node!Tick, nodeVars, appVars, vars
  <2> QED
    BY <1>2, <1>3, <2>1 DEF PlaneInv, RunsAreKept, KeyRun, AppP!Key
<1> QED
  BY <1>4, <1>5, <1>6

----------------------------------------------------------------------------
(* The invariant of the whole. *)

LEMMA InitPlaneInv == Init => PlaneInv
<1> SUFFICES ASSUME Init PROVE PlaneInv
  OBVIOUS
<1>1. /\ pc = [c \in Clients |-> "idle"] /\ wire = {} /\ acks = {} /\ answered = {}
      /\ ran = <<>> /\ numbered = {}
      /\ \A c \in Clients : outcome[c].status = "none"
  BY DEF Init, App!Init, Node!Init, App!NoOutcome
<1>2. AppP!Init
  BY DEF Init, App!Init, AppP!Init, App!NoCommand, AppP!NoCommand, App!NoOutcome,
     AppP!NoOutcome, App!Runtimes, AppP!Runtimes
<1>3. NodeP!Init
  BY DEF Init, Node!Init, NodeP!Init, Node!NoSource, NodeP!NoSource, Node!NoReply,
     NodeP!NoReply, Node!NoReboot, NodeP!NoReboot
<1>4. AppP!TypeInv
  BY <1>2, AppP!InitTypeInv, AppConstants
<1>5. AppP!IdentityInv
  BY <1>1, <1>2, <1>4, AppP!InitIdentityInv, AppConstants
<1>6. NodeP!TruthInv
  BY <1>3, NodeP!InitTruthInv, NodeConstants, PlaneConstants DEF PlaneAssumption
<1>7. NumbersAreDrawn /\ CommandsAreNumbered /\ RunsAreKept
  BY <1>1 DEF NumbersAreDrawn, CommandsAreNumbered, RunsAreKept, AppP!HasCommand
<1> QED
  BY <1>4, <1>5, <1>6, <1>7 DEF PlaneInv

LEMMA StepPlaneInv ==
  ASSUME AppP!FewClients, PlaneInv, [Next]_vars
  PROVE  PlaneInv'
<1>1. AppP!TypeInv' /\ AppP!IdentityInv' /\ NodeP!TruthInv'
  BY HalvesKeep DEF PlaneInv
<1>2. NumbersAreDrawn' /\ CommandsAreNumbered' /\ RunsAreKept'
  BY <1>1, ClientsKeepTies, OthersKeepTies DEF Next
<1> QED
  BY <1>1, <1>2 DEF PlaneInv

----------------------------------------------------------------------------
(* The control plane implements what it promises. *)

LEMMA InitRemote == Init => Remote!Init
<1> SUFFICES ASSUME Init PROVE Remote!Init
  OBVIOUS
<1>1. /\ pc = [c \in Clients |-> "idle"] /\ ran = <<>> /\ numbered = {} /\ ranEver = {}
      /\ outcome = [c \in Clients |-> App!NoOutcome]
  BY DEF Init, App!Init, Node!Init
<1>2. \A c \in Clients : Asked(c) = Remote!NoCommand /\ outcome[c].status = "none"
  BY <1>1 DEF Asked, Remote!NoCommand, App!NoOutcome
<1>3. KeysRun(ran) = <<>>
  BY <1>1, KeysOfNothing
<1> QED
  BY <1>1, <1>2, <1>3 DEF Remote!Init

\* Who asks for what and was told what changes only for the client that moves.
LEMMA OneClientMoves ==
  ASSUME NEW c \in Clients,
         \A d \in Clients \ {c} :
           pc'[d] = pc[d] /\ sent'[d] = sent[d] /\ outcome'[d] = outcome[d]
  PROVE  /\ [d \in Clients |-> Asked(d)]'
              = [[d \in Clients |-> Asked(d)] EXCEPT ![c] = Asked(c)']
         /\ [d \in Clients |-> outcome[d].status]'
              = [[d \in Clients |-> outcome[d].status] EXCEPT ![c] = outcome'[c].status]
<1>1. \A d \in Clients \ {c} : Asked(d)' = Asked(d)
  BY DEF Asked, App!Key
<1> QED
  BY <1>1

\* The identity a client gets is one of those that may be given.
LEMMA IdentityIsProper ==
  ASSUME AppP!TypeInv, NEW c \in Clients, App!Allocate(c)
  PROVE  AppP!Key(sent'[c]) \in (0..(SeqSpace - 1)) \X {t.cmd : t \in Targets}
                                  \X (0..((MaxRuntimes + 1) * CounterCap))
<1>1. /\ pc[c] = "allocate" /\ counterOf[use[c]] < CounterCap
      /\ sent' = [sent EXCEPT ![c].seq = seqOf[use[c]],
                              ![c].nonce = App!compose_nonce(use[c], counterOf[use[c]])]
  BY DEF App!Allocate
<1>2. /\ sent[c] \in AppP!Frames /\ use[c] \in 1..MaxRuntimes
      /\ seqOf[use[c]] \in 0..(SeqSpace - 1) /\ counterOf[use[c]] \in Nat
      /\ c \in DOMAIN sent
  BY <1>1 DEF AppP!TypeInv, AppP!TypeOK, AppP!Holds, AppP!Runtimes
<1>3. /\ sent'[c].seq \in 0..(SeqSpace - 1) /\ sent'[c].cmd \in {t.cmd : t \in Targets}
      /\ sent'[c].nonce = use[c] * CounterCap + counterOf[use[c]]
  BY <1>1, <1>2 DEF AppP!Frames, App!compose_nonce
<1>4. MaxRuntimes \in Nat /\ CounterCap \in Nat
  BY PlaneConstants DEF PlaneAssumption, App!TransactionAssumption
<1>5. ASSUME NEW m \in Nat, NEW r \in 1..m, NEW cap \in Nat, NEW k \in Nat, k < cap
      PROVE  r * cap + k \in 0..((m + 1) * cap)
  <2>1. PICK d \in Nat : d = m - r
    BY <1>5
  <2>2. r * cap \in Nat /\ d * cap \in Nat /\ (m + 1) * cap = r * cap + d * cap + cap
    BY <1>5, <2>1
  <2> QED
    BY <1>5, <2>2
<1>6. sent'[c].nonce \in 0..((MaxRuntimes + 1) * CounterCap)
  BY <1>1, <1>2, <1>3, <1>4, <1>5
<1> QED
  BY <1>3, <1>6 DEF AppP!Key

\* Only a command's allocation takes its client to the counter.
LEMMA OnlyAllocateDraws ==
  ASSUME PlaneInv, NEW c \in Clients, App!Begin(c) \/ App!ClientStep(c),
         pc[c] = "allocate", pc'[c] = "bump"
  PROVE  App!Allocate(c)
<1>1. pc \in [Clients -> {"idle", "listen", "bind", "allocate", "bump", "send",
                         "register", "wait"}]
  BY DEF PlaneInv, AppP!TypeInv, AppP!TypeOK
<1> QED
  BY <1>1 DEF App!Begin, App!ClientStep, App!CheckListener, App!OpenListener, App!OpenFails,
     App!CounterExhausted, App!BumpCounter, App!Send, App!SendFails, App!Register,
     App!ReceiveOwnAck, App!ReceiveOtherAck, App!ReceiveInvalid, App!ListenerLost,
     App!Retry, App!GiveUp, App!Finish, App!Goto

\* Every step of a client is one of a client of the promise, or none.
LEMMA ClientsKeepPromise ==
  ASSUME AppP!FewClients, PlaneInv, [Next]_vars, NEW c \in Clients, ClientSteps(c)
  PROVE  [Remote!Next]_(Remote!remoteVars)
<1> DEFINE asked == [d \in Clients |-> Asked(d)]
           result == [d \in Clients |-> outcome[d].status]
<1>1. /\ ClientMoves(c)
      /\ \A d \in Clients \ {c} :
           pc'[d] = pc[d] /\ sent'[d] = sent[d] /\ outcome'[d] = outcome[d]
  BY ClientsMove DEF ClientSteps
<1>2. /\ asked' = [asked EXCEPT ![c] = Asked(c)']
      /\ result' = [result EXCEPT ![c] = outcome'[c].status]
      /\ asked[c] = Asked(c) /\ asked'[c] = Asked(c)'
      /\ result[c] = outcome[c].status /\ result'[c] = outcome'[c].status
  BY <1>1, OneClientMoves
<1>3. ran' = ran /\ KeysRun(ran') = KeysRun(ran) /\ ranEver' = ranEver
  BY DEF ClientSteps, nodeVars
<1>4. ~(pc[c] = "allocate" /\ pc'[c] = "bump") => numbered' = numbered
  BY DEF ClientSteps
<1>5. \A f : App!Key(f) # <<"none">> /\ App!Key(f) # <<"new">>
  BY DEF App!Key
<1>6. <<"none">> # <<"new">>
  OBVIOUS
<1>7. CASE pc[c] = "idle" /\ pc'[c] = "listen" /\ outcome'[c].status = "none"
  <2>1. Asked(c) = <<"none">> /\ Asked(c)' = <<"new">>
    BY <1>7 DEF Asked
  <2> QED
    BY <1>2, <1>3, <1>4, <1>6, <1>7, <2>1
       DEF Remote!Next, Remote!Ask, Remote!NoCommand, Remote!NewCommand
<1>8. CASE Preparing(c) /\ Preparing(c)' /\ outcome'[c] = outcome[c]
  <2>1. Asked(c) = <<"new">> /\ Asked(c)' = <<"new">>
    BY <1>8 DEF Asked, Preparing
  <2>2. asked' = asked /\ result' = result /\ numbered' = numbered
    BY <1>2, <1>4, <1>8, <2>1 DEF Preparing
  <2> QED
    BY <1>3, <2>2 DEF Remote!remoteVars
<1>9. CASE pc[c] = "allocate" /\ pc'[c] = "bump" /\ outcome'[c] = outcome[c]
  <2>1. Asked(c) = <<"new">> /\ Asked(c)' = App!Key(sent'[c])
    BY <1>9 DEF Asked, App!Key
  <2>2. App!Allocate(c)
    BY <1>9, OnlyAllocateDraws DEF ClientSteps
  <2>3. App!Key(sent'[c]) \in ((0..(SeqSpace - 1)) \X {t.cmd : t \in Targets}
                                 \X (0..((MaxRuntimes + 1) * CounterCap))) \ numbered
    BY <2>2, IdentityIsFresh, IdentityIsProper, SameKeys DEF PlaneInv
  <2>4. numbered' = numbered \cup {App!Key(sent'[c])}
    BY <1>9 DEF ClientSteps
  <2>5. result' = result
    BY <1>2, <1>9
  <2> QED
    BY <1>2, <1>3, <1>5, <2>1, <2>3, <2>4, <2>5
       DEF Remote!Next, Remote!Identify, Remote!NewCommand
<1>10. CASE /\ AppP!HasCommand(c) /\ AppP!HasCommand(c)' /\ pc'[c] # "bump"
            /\ sent'[c] = sent[c] /\ outcome'[c] = outcome[c]
  <2>1. Asked(c) = App!Key(sent[c]) /\ Asked(c)' = App!Key(sent[c])
    BY <1>10 DEF Asked, AppP!HasCommand, App!Key
  <2>2. asked' = asked /\ result' = result /\ numbered' = numbered
    BY <1>2, <1>4, <1>10, <2>1
  <2> QED
    BY <1>3, <2>2 DEF Remote!remoteVars
<1>11. CASE pc[c] # "idle" /\ pc'[c] = "idle" /\ outcome'[c].status \in PromisedFailures
  <2>1. Asked(c) # <<"none">> /\ Asked(c)' = <<"none">>
    BY <1>5, <1>6, <1>11 DEF Asked
  <2> QED
    BY <1>2, <1>3, <1>4, <1>11, <2>1
       DEF Remote!Next, Remote!ReportFailure, Remote!Close, Remote!NoCommand
<1>12. CASE /\ AppP!HasCommand(c) /\ pc'[c] = "idle"
            /\ outcome'[c].status = "OK" /\ AppP!Key(sent[c]) \in ranEver
  <2>1. Asked(c) = App!Key(sent[c]) /\ Asked(c)' = <<"none">>
    BY <1>12 DEF Asked, AppP!HasCommand
  <2>2. App!Key(sent[c]) \in ranEver
    BY <1>12, SameKeys
  <2> QED
    BY <1>2, <1>3, <1>4, <1>5, <1>12, <2>1, <2>2
       DEF Remote!Next, Remote!ReportOk, Remote!Close, Remote!NoCommand
<1> QED
  BY <1>1, <1>7, <1>8, <1>9, <1>10, <1>11, <1>12 DEF ClientMoves

\* Every other step runs a command, restarts the node, or is none of the promise.
LEMMA OthersKeepPromise ==
  ASSUME PlaneInv, NodeP!TruthInv', [Next]_vars,
         Disturbance \/ NodeReceives \/ NodeLoop \/ NodeRestarts \/ UNCHANGED vars
  PROVE  [Remote!Next]_(Remote!remoteVars)
<1> DEFINE asked == [d \in Clients |-> Asked(d)]
           result == [d \in Clients |-> outcome[d].status]
<1>1. UNCHANGED <<pc, sent, outcome, numbered>>
  BY NodeRuns DEF Disturbance, App!StartSession, App!StopSession, App!LoseCommand, App!LoseAck,
     App!network, App!shared, NodeLoop, NodeRestarts, appVars, vars
<1>2. asked' = asked /\ result' = result
  BY <1>1 DEF Asked, App!Key
<1>3. CASE NodeReceives
  <2>1. PICK f \in wire :
          \/ ran' = ran /\ ranEver' = ranEver
          \/ /\ KeysRun(ran') = Append(KeysRun(ran), AppP!Key(f))
             /\ ranEver' = ranEver \cup {AppP!Key(f)}
             /\ \A i \in DOMAIN ran : KeysRun(ran)[i] # AppP!Key(f)
    BY <1>3, NodeRuns
  <2>2. CASE ran' = ran /\ ranEver' = ranEver
    BY <1>1, <1>2, <2>2 DEF Remote!remoteVars
  <2>3. CASE /\ KeysRun(ran') = Append(KeysRun(ran), AppP!Key(f))
             /\ ranEver' = ranEver \cup {AppP!Key(f)}
             /\ \A i \in DOMAIN ran : KeysRun(ran)[i] # AppP!Key(f)
    <3>1. AppP!Key(f) \in numbered
      BY DEF PlaneInv, CommandsAreNumbered
    <3>2. DOMAIN KeysRun(ran) = DOMAIN ran
      BY DEF KeysRun
    <3>3. AppP!Key(f) \notin {KeysRun(ran)[i] : i \in DOMAIN KeysRun(ran)}
      BY <2>3, <3>2
    <3>4. Remote!Run
      BY <1>1, <1>2, <2>3, <3>1, <3>3 DEF Remote!Run
    <3> QED
      BY <3>4 DEF Remote!Next
  <2> QED
    BY <2>1, <2>2, <2>3
<1>4. CASE NodeRestarts
  <2>1. ran' = <<>> /\ ranEver' = ranEver
    BY <1>4 DEF NodeRestarts, Node!Restart, Node!PowerLoss, Node!Boot, appVars
  <2>2. KeysRun(ran') = <<>>
    BY <2>1, KeysOfNothing
  <2>3. Remote!Restart
    BY <1>1, <1>2, <2>1, <2>2 DEF Remote!Restart
  <2> QED
    BY <2>3 DEF Remote!Next
<1>5. CASE Disturbance \/ NodeLoop \/ UNCHANGED vars
  <2>1. UNCHANGED <<ran, ranEver>>
    BY <1>5 DEF Disturbance, NodeLoop, Node!ScheduleOtaReboot, Node!OtaCheckBegins,
       Node!OtaCheckEnds, Node!OtaStep,
       Node!OtaVerified, Node!Tick, nodeVars, vars
  <2> QED
    BY <1>1, <1>2, <2>1 DEF Remote!remoteVars
<1> QED
  BY <1>3, <1>4, <1>5

\* With no more clients than sequence numbers, what the application and the node
\* do is what was promised: a command is run at most once between two restarts
\* of the node, only under an identity that was given once, and OK is reported
\* only of a command that ran, for any number of commands, runtimes, retries and
\* restarts, any network and any limits of the node (_execute_transaction,
\* buildAckForFrameWithSecurity).
THEOREM PromiseIsKept == AppP!FewClients /\ Spec => KeepsPromise
<1> SUFFICES ASSUME AppP!FewClients PROVE Spec => KeepsPromise
  OBVIOUS
<1>1. PlaneInv /\ [Next]_vars => PlaneInv'
  BY StepPlaneInv
<1>2. PlaneInv /\ PlaneInv' /\ [Next]_vars => [Remote!Next]_(Remote!remoteVars)
  BY ClientsKeepPromise, OthersKeepPromise DEF Next, PlaneInv
<1> QED
  BY InitPlaneInv, InitRemote, <1>1, <1>2, PTL DEF Spec, KeepsPromise, Remote!Spec
=============================================================================
