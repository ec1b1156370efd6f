---------------------- MODULE CommandTransactionProofs ----------------------
(***************************************************************************)
(* What holds of command transactions for any number of clients, targets,  *)
(* retries, runtimes and commands, on a network that does as it likes.     *)
(***************************************************************************)
EXTENDS CommandTransaction, FiniteSetTheorems, TLAPS

\* What a client holds follows from where it is in its transaction.
Holds(c) ==
  /\ pc[c] # "idle" => sent[c] \in Frames /\ use[c] \in Runtimes
  /\ pc[c] \in {"idle", "listen", "bind", "allocate", "bump"} => attempt[c] = 0
  /\ pc[c] = "send" => attempt[c] <= MaxRetries

TypeInv == TypeOK /\ \A c \in Clients : Holds(c)

----------------------------------------------------------------------------
(* Types. *)

\* A nonce is a natural number (compose_nonce).
LEMMA NonceTyped ==
  ASSUME NEW r \in Nat, NEW n \in Nat
  PROVE  compose_nonce(r, n) \in Nat
  BY ConstantsAssumption DEF TransactionAssumption, compose_nonce

\* The sequence number stays in its word (CmdSequenceManager.next).
LEMMA SeqTyped ==
  ASSUME NEW s \in 0..(SeqSpace - 1)
  PROVE  /\ (s + 1) % SeqSpace \in 0..(SeqSpace - 1)
         /\ (s + 1) % SeqSpace = IF s + 1 = SeqSpace THEN 0 ELSE s + 1
<1>1. SeqSpace \in Nat \ {0}
  BY ConstantsAssumption DEF TransactionAssumption
<1> QED
  BY <1>1

\* Initially nothing is going on.
LEMMA InitTypeInv == Init => TypeInv
<1>1. NoCommand \in Frames \cup {NoCommand} /\ "none" \in LocalOutcomes
  BY DEF LocalOutcomes
<1>2. 0 \in 0..(SeqSpace - 1) /\ 0 \in 0..MaxRuntimes /\ 0 \in 0..MaxCommands
      /\ 0 \in 0..(MaxRetries + 1)
  BY ConstantsAssumption DEF TransactionAssumption
<1>3. NoOutcome \in [status : Verdicts \cup LocalOutcomes, frame : Frames \cup {NoCommand}]
  BY <1>1 DEF NoOutcome
<1> SUFFICES ASSUME Init PROVE TypeInv
  OBVIOUS
<1>4. TypeOK
  BY <1>1, <1>2, <1>3 DEF Init, TypeOK
<1>5. \A c \in Clients : Holds(c)
  BY DEF Init, Holds
<1> QED
  BY <1>4, <1>5 DEF TypeInv

\* A client that finishes is told something and holds nothing
\* (_execute_transaction's returns).
LEMMA FinishTyped ==
  ASSUME TypeInv, NEW c \in Clients, pc[c] # "idle",
         NEW status \in Verdicts \cup LocalOutcomes, Finish(c, status),
         built' = built, use' = use
  PROVE  /\ port' \in 0..built'
         /\ pc' \in [Clients -> {"idle", "listen", "bind", "allocate", "bump", "send",
                                 "register", "wait"}]
         /\ sent' \in [Clients -> Frames \cup {NoCommand}]
         /\ attempt' \in [Clients -> 0..(MaxRetries + 1)]
         /\ saw' \in [Clients -> SUBSET {"invalid", "unmatched"}]
         /\ outcome' \in [Clients -> [status : Verdicts \cup LocalOutcomes,
                                      frame : Frames \cup {NoCommand}]]
         /\ \A d \in Clients : Holds(d)'
<1>1. TypeOK /\ \A d \in Clients : Holds(d)
  BY DEF TypeInv
<1>2. MaxRetries \in Nat
  BY ConstantsAssumption DEF TransactionAssumption
<1>3. port' \in 0..built'
  BY <1>1 DEF Finish, TypeOK
<1>4. /\ pc' \in [Clients -> {"idle", "listen", "bind", "allocate", "bump", "send",
                              "register", "wait"}]
      /\ sent' \in [Clients -> Frames \cup {NoCommand}]
      /\ attempt' \in [Clients -> 0..(MaxRetries + 1)]
      /\ saw' \in [Clients -> SUBSET {"invalid", "unmatched"}]
  BY <1>1, <1>2 DEF Finish, Goto, TypeOK
<1>5. outcome' \in [Clients -> [status : Verdicts \cup LocalOutcomes,
                                frame : Frames \cup {NoCommand}]]
  BY <1>1 DEF Finish, TypeOK
<1>6. ASSUME NEW d \in Clients PROVE Holds(d)'
  BY <1>1, <1>4 DEF Finish, Goto, TypeOK, Holds
<1> QED
  BY <1>3, <1>4, <1>5, <1>6

\* A step that ends a transaction keeps the types when what it does to the
\* tables does.
LEMMA EndTyped ==
  ASSUME TypeInv, NEW c \in Clients, pc[c] # "idle",
         NEW status \in Verdicts \cup LocalOutcomes, Finish(c, status),
         UNCHANGED <<runtime, built, begun, counterOf, use, wire, answered>>,
         acks' \subseteq acks,
         seqOf' \in [Runtimes -> 0..(SeqSpace - 1)],
         pending' \in [Runtimes -> SUBSET [key : Nat \X {t.cmd : t \in Targets} \X Nat,
                                           owner : Clients]]
  PROVE  TypeInv'
<1>1. TypeOK
  BY DEF TypeInv
<1>2. /\ port' \in 0..built'
      /\ pc' \in [Clients -> {"idle", "listen", "bind", "allocate", "bump", "send",
                              "register", "wait"}]
      /\ sent' \in [Clients -> Frames \cup {NoCommand}]
      /\ attempt' \in [Clients -> 0..(MaxRetries + 1)]
      /\ saw' \in [Clients -> SUBSET {"invalid", "unmatched"}]
      /\ outcome' \in [Clients -> [status : Verdicts \cup LocalOutcomes,
                                   frame : Frames \cup {NoCommand}]]
      /\ \A d \in Clients : Holds(d)'
  BY FinishTyped
<1>3. /\ runtime' \in 0..built' /\ built' \in 0..MaxRuntimes /\ begun' \in 0..MaxCommands
      /\ counterOf' \in [Runtimes -> Nat] /\ use' \in [Clients -> 0..built']
      /\ wire' \subseteq Frames
  BY <1>1 DEF TypeOK
<1>4. /\ \A a \in acks' : a.status \in Verdicts
      /\ answered' \subseteq [frame : Frames, status : Verdicts]
  BY <1>1 DEF TypeOK
<1>5. TypeOK'
  BY <1>2, <1>3, <1>4 DEF TypeOK
<1> QED
  BY <1>2, <1>5 DEF TypeInv

\* Discarding takes entries away (discard_sent_command).
LEMMA DiscardTyped ==
  ASSUME TypeInv, NEW c \in Clients, Discard(c)
  PROVE  pending' \in [Runtimes -> SUBSET [key : Nat \X {t.cmd : t \in Targets} \X Nat,
                                           owner : Clients]]
  BY DEF TypeInv, TypeOK, Discard

\* The key of a frame (correlation key of the pending store).
LEMMA KeyTyped ==
  ASSUME NEW f \in Frames
  PROVE  Key(f) \in Nat \X {t.cmd : t \in Targets} \X Nat
  BY DEF Key, Frames

\* Every step before the first send keeps the types.
LEMMA PreparationTyped ==
  ASSUME TypeInv, NEW c \in Clients,
         Begin(c) \/ CheckListener(c) \/ OpenListener(c) \/ OpenFails(c)
           \/ Allocate(c) \/ CounterExhausted(c) \/ BumpCounter(c)
  PROVE  TypeInv'
<1>0. /\ TypeOK /\ \A d \in Clients : Holds(d)
      /\ MaxRetries \in Nat /\ MaxRuntimes \in Nat /\ MaxCommands \in Nat
      /\ "none" \in LocalOutcomes
      /\ "LISTENER_NOT_RUNNING" \in LocalOutcomes /\ "SEND_ERROR" \in LocalOutcomes
  BY ConstantsAssumption DEF TypeInv, TransactionAssumption, LocalOutcomes
<1>1. CASE Begin(c)
  <2>1. PICK t \in Targets :
          sent' = [sent EXCEPT ![c] = [node |-> t.node, cmd |-> t.cmd,
                                       seq |-> 0, nonce |-> 0]]
    BY <1>1 DEF Begin
  <2>2. [node |-> t.node, cmd |-> t.cmd, seq |-> 0, nonce |-> 0] \in Frames
    BY DEF Frames
  <2>3. /\ sent' \in [Clients -> Frames \cup {NoCommand}] /\ sent'[c] \in Frames
        /\ \A d \in Clients \ {c} : sent'[d] = sent[d]
    BY <1>0, <2>1, <2>2 DEF TypeOK
  <2>4. /\ runtime' \in 1..built' /\ built' \in 0..MaxRuntimes /\ built <= built'
        /\ built \in 0..MaxRuntimes
    BY <1>0, <1>1 DEF Begin, TypeOK
  <2>5. NoOutcome \in [status : Verdicts \cup LocalOutcomes, frame : Frames \cup {NoCommand}]
    BY <1>0 DEF NoOutcome
  <2>6. use' \in [Clients -> 0..built'] /\ use'[c] \in Runtimes
        /\ \A d \in Clients \ {c} : use'[d] = use[d]
    <3>1. /\ use \in [Clients -> 0..built] /\ use' = [use EXCEPT ![c] = runtime']
          /\ built \in Nat /\ built' \in Nat /\ MaxRuntimes \in Nat
      BY <1>0, <1>1, <2>4, ConstantsAssumption DEF Begin, TypeOK, TransactionAssumption
    <3>2. runtime' \in 0..built' /\ runtime' \in Runtimes
      BY <2>4, <3>1 DEF Runtimes
    <3>3. 0..built \subseteq 0..built'
      BY <2>4, <3>1
    <3> QED
      BY <3>1, <3>2, <3>3
  <2>7. TypeOK'
    BY <1>0, <1>1, <2>3, <2>4, <2>5, <2>6 DEF Begin, Goto, TypeOK, network
  <2>8. ASSUME NEW d \in Clients PROVE Holds(d)'
    BY <1>0, <1>1, <2>3, <2>6 DEF Begin, Goto, TypeOK, Holds
  <2> QED
    BY <2>7, <2>8 DEF TypeInv
<1>2. CASE CheckListener(c)
  BY <1>0, <1>2 DEF CheckListener, TypeInv, TypeOK, Holds, Goto, shared, network
<1>3. CASE OpenListener(c)
  BY <1>0, <1>3 DEF OpenListener, TypeInv, TypeOK, Holds, Goto, network
<1>4. CASE OpenFails(c)
  <2>1. /\ Finish(c, "LISTENER_NOT_RUNNING") /\ pc[c] # "idle" /\ acks' \subseteq acks
        /\ UNCHANGED <<runtime, built, begun, seqOf, counterOf, pending, use, wire, answered>>
    BY <1>4 DEF OpenFails, network
  <2>2. /\ seqOf' \in [Runtimes -> 0..(SeqSpace - 1)]
        /\ pending' \in [Runtimes -> SUBSET [key : Nat \X {t.cmd : t \in Targets} \X Nat,
                                             owner : Clients]]
    BY <1>0, <2>1 DEF TypeOK
  <2> QED
    BY <1>0, <2>1, <2>2, EndTyped
<1>5. CASE Allocate(c)
  <2>1. /\ use[c] \in Runtimes /\ sent[c] \in Frames /\ use[c] \in Nat
        /\ counterOf[use[c]] \in Nat /\ seqOf[use[c]] \in 0..(SeqSpace - 1)
        /\ seqOf[use[c]] \in Nat
    BY <1>0, <1>5 DEF Allocate, Holds, TypeOK, Runtimes
  <2>2. compose_nonce(use[c], counterOf[use[c]]) \in Nat
    BY <2>1, NonceTyped
  <2> DEFINE f == [sent[c] EXCEPT !.seq = seqOf[use[c]],
                                  !.nonce = compose_nonce(use[c], counterOf[use[c]])]
  <2>3. f \in Frames
    BY <2>1, <2>2 DEF Frames
  <2>4. sent' = [sent EXCEPT ![c] = f]
    BY <1>5 DEF Allocate
  <2> HIDE DEF f
  <2>5. seqOf' \in [Runtimes -> 0..(SeqSpace - 1)]
    BY <1>0, <1>5, <2>1, SeqTyped DEF Allocate, TypeOK
  <2>6. sent' \in [Clients -> Frames \cup {NoCommand}]
    BY <1>0, <2>3, <2>4 DEF TypeOK
  <2>7. TypeOK'
    BY <1>0, <1>5, <2>5, <2>6 DEF Allocate, Goto, TypeOK, network
  <2>8. ASSUME NEW d \in Clients PROVE Holds(d)'
    BY <1>0, <1>5, <2>3, <2>4 DEF Allocate, Goto, TypeOK, Holds
  <2> QED
    BY <2>7, <2>8 DEF TypeInv
<1>6. CASE CounterExhausted(c)
  <2>1. /\ Finish(c, "SEND_ERROR") /\ pc[c] # "idle" /\ acks' \subseteq acks
        /\ UNCHANGED <<runtime, built, begun, counterOf, pending, use, wire, answered>>
    BY <1>6 DEF CounterExhausted, network
  <2>2. use[c] \in Runtimes /\ seqOf[use[c]] \in 0..(SeqSpace - 1)
    BY <1>0, <2>1 DEF Holds, TypeOK
  <2>3. seqOf' \in [Runtimes -> 0..(SeqSpace - 1)]
    BY <1>0, <1>6, <2>2, SeqTyped DEF CounterExhausted, TypeOK
  <2>4. pending' \in [Runtimes -> SUBSET [key : Nat \X {t.cmd : t \in Targets} \X Nat,
                                          owner : Clients]]
    BY <1>0, <2>1 DEF TypeOK
  <2> QED
    BY <1>0, <2>1, <2>3, <2>4, EndTyped
<1>7. CASE BumpCounter(c)
  <2>0. use[c] \in Runtimes /\ counterOf \in [Runtimes -> Nat]
    BY <1>0, <1>7 DEF BumpCounter, Holds, TypeOK
  <2>1. counterOf' \in [Runtimes -> Nat]
    BY <1>7, <2>0 DEF BumpCounter
  <2>2. TypeOK'
    BY <1>0, <1>7, <2>1 DEF BumpCounter, TypeOK, Goto, network
  <2>3. ASSUME NEW d \in Clients PROVE Holds(d)'
    BY <1>0, <1>7 DEF BumpCounter, TypeOK, Goto, Holds
  <2> QED
    BY <2>2, <2>3 DEF TypeInv
<1> QED
  BY <1>1, <1>2, <1>3, <1>4, <1>5, <1>6, <1>7

\* Every step from the first send on keeps the types.
LEMMA AttemptTyped ==
  ASSUME TypeInv, NEW c \in Clients,
         Send(c) \/ SendFails(c) \/ Register(c) \/ ReceiveOwnAck(c)
           \/ ReceiveOtherAck(c) \/ ReceiveInvalid(c) \/ ListenerLost(c)
           \/ Retry(c) \/ GiveUp(c)
  PROVE  TypeInv'
<1>0. /\ TypeOK /\ \A d \in Clients : Holds(d)
      /\ MaxRetries \in Nat
      /\ {"LISTENER_NOT_RUNNING", "SEND_ERROR", "TIMEOUT", "INVALID_ACK_SEEN",
          "UNMATCHED_ACK_SEEN"} \subseteq LocalOutcomes
  BY ConstantsAssumption DEF TypeInv, TransactionAssumption, LocalOutcomes
<1>1. CASE Send(c)
  <2>1. sent[c] \in Frames /\ attempt[c] \in 0..MaxRetries
    BY <1>0, <1>1 DEF Send, Holds, TypeOK
  <2>2. wire' \subseteq Frames
    BY <1>0, <1>1, <2>1 DEF Send, TypeOK
  <2>3. attempt' \in [Clients -> 0..(MaxRetries + 1)]
    BY <1>0, <1>1, <2>1 DEF Send, TypeOK
  <2>4. TypeOK'
    BY <1>0, <1>1, <2>2, <2>3 DEF Send, Goto, TypeOK, shared
  <2>5. ASSUME NEW d \in Clients PROVE Holds(d)'
    BY <1>0, <1>1 DEF Send, Goto, TypeOK, Holds
  <2> QED
    BY <2>4, <2>5 DEF TypeInv
<1>2. CASE SendFails(c)
  <2>1. /\ Finish(c, "SEND_ERROR") /\ pc[c] # "idle" /\ acks' \subseteq acks
        /\ UNCHANGED <<runtime, built, begun, seqOf, counterOf, pending, use, wire, answered>>
    BY <1>2 DEF SendFails, network
  <2>2. /\ seqOf' \in [Runtimes -> 0..(SeqSpace - 1)]
        /\ pending' \in [Runtimes -> SUBSET [key : Nat \X {t.cmd : t \in Targets} \X Nat,
                                             owner : Clients]]
    BY <1>0, <2>1 DEF TypeOK
  <2> QED
    BY <1>0, <2>1, <2>2, EndTyped
<1>3. CASE Register(c)
  <2>1. /\ use[c] \in Runtimes
        /\ [key |-> Key(sent[c]), owner |-> c]
             \in [key : Nat \X {t.cmd : t \in Targets} \X Nat, owner : Clients]
    BY <1>0, <1>3, KeyTyped DEF Register, Holds
  <2>2. pending' \in [Runtimes -> SUBSET [key : Nat \X {t.cmd : t \in Targets} \X Nat,
                                          owner : Clients]]
    BY <1>0, <1>3, <2>1 DEF Register, TypeOK
  <2>3. TypeOK'
    BY <1>0, <1>3, <2>2 DEF Register, Goto, TypeOK, network
  <2>4. ASSUME NEW d \in Clients PROVE Holds(d)'
    BY <1>0, <1>3 DEF Register, Goto, TypeOK, Holds
  <2> QED
    BY <2>3, <2>4 DEF TypeInv
<1>4. CASE ReceiveOwnAck(c)
  <2>1. PICK a \in acks : Finish(c, a.status) /\ acks' = acks \ {a}
    BY <1>4 DEF ReceiveOwnAck
  <2>2. /\ a.status \in Verdicts \cup LocalOutcomes /\ pc[c] # "idle" /\ acks' \subseteq acks
        /\ UNCHANGED <<runtime, built, begun, seqOf, counterOf, use, wire, answered>>
        /\ Discard(c)
    BY <1>0, <1>4, <2>1 DEF ReceiveOwnAck, TypeOK
  <2>3. /\ seqOf' \in [Runtimes -> 0..(SeqSpace - 1)]
        /\ pending' \in [Runtimes -> SUBSET [key : Nat \X {t.cmd : t \in Targets} \X Nat,
                                             owner : Clients]]
    BY <1>0, <2>2, DiscardTyped DEF TypeOK
  <2> QED
    BY <1>0, <2>1, <2>2, <2>3, EndTyped
<1>5. CASE ReceiveOtherAck(c)
  <2>1. PICK a \in acks :
          /\ acks' = acks \ {a}
          /\ pending' = [pending EXCEPT ![use[c]] = {e \in @ : e.key # Key(a)}]
    BY <1>5 DEF ReceiveOtherAck
  <2>2. pending' \in [Runtimes -> SUBSET [key : Nat \X {t.cmd : t \in Targets} \X Nat,
                                          owner : Clients]]
    BY <1>0, <2>1 DEF TypeOK
  <2>3. saw' \in [Clients -> SUBSET {"invalid", "unmatched"}]
    BY <1>0, <1>5 DEF ReceiveOtherAck, TypeOK
  <2>4. TypeOK'
    BY <1>0, <1>5, <2>1, <2>2, <2>3 DEF ReceiveOtherAck, TypeOK
  <2>5. ASSUME NEW d \in Clients PROVE Holds(d)'
    BY <1>0, <1>5 DEF ReceiveOtherAck, Holds
  <2> QED
    BY <2>4, <2>5 DEF TypeInv
<1>6. CASE ReceiveInvalid(c)
  <2>1. saw' \in [Clients -> SUBSET {"invalid", "unmatched"}]
    BY <1>0, <1>6 DEF ReceiveInvalid, TypeOK
  <2>2. TypeOK'
    BY <1>0, <1>6, <2>1 DEF ReceiveInvalid, TypeOK, shared, network
  <2>3. ASSUME NEW d \in Clients PROVE Holds(d)'
    BY <1>0, <1>6 DEF ReceiveInvalid, Holds
  <2> QED
    BY <2>2, <2>3 DEF TypeInv
<1>7. CASE ListenerLost(c)
  <2>1. /\ Finish(c, "LISTENER_NOT_RUNNING") /\ pc[c] # "idle" /\ acks' \subseteq acks
        /\ UNCHANGED <<runtime, built, begun, seqOf, counterOf, use, wire, answered>>
        /\ Discard(c)
    BY <1>7 DEF ListenerLost, network
  <2>2. /\ seqOf' \in [Runtimes -> 0..(SeqSpace - 1)]
        /\ pending' \in [Runtimes -> SUBSET [key : Nat \X {t.cmd : t \in Targets} \X Nat,
                                             owner : Clients]]
    BY <1>0, <2>1, DiscardTyped DEF TypeOK
  <2> QED
    BY <1>0, <2>1, <2>2, EndTyped
<1>8. CASE Retry(c)
  <2>1. pending' \in [Runtimes -> SUBSET [key : Nat \X {t.cmd : t \in Targets} \X Nat,
                                          owner : Clients]]
    BY <1>8, DiscardTyped DEF Retry
  <2>2. TypeOK'
    BY <1>0, <1>8, <2>1 DEF Retry, Goto, TypeOK, network
  <2>3. ASSUME NEW d \in Clients PROVE Holds(d)'
    BY <1>0, <1>8 DEF Retry, Goto, TypeOK, Holds
  <2> QED
    BY <2>2, <2>3 DEF TypeInv
<1>9. CASE GiveUp(c)
  <2>1. /\ Finish(c, FinalStatus(c)) /\ pc[c] # "idle" /\ acks' \subseteq acks
        /\ UNCHANGED <<runtime, built, begun, seqOf, counterOf, use, wire, answered>>
        /\ Discard(c) /\ FinalStatus(c) \in Verdicts \cup LocalOutcomes
    BY <1>0, <1>9 DEF GiveUp, network, FinalStatus
  <2>2. /\ seqOf' \in [Runtimes -> 0..(SeqSpace - 1)]
        /\ pending' \in [Runtimes -> SUBSET [key : Nat \X {t.cmd : t \in Targets} \X Nat,
                                             owner : Clients]]
    BY <1>0, <2>1, DiscardTyped DEF TypeOK
  <2> QED
    BY <1>0, <2>1, <2>2, EndTyped
<1> QED
  BY <1>1, <1>2, <1>3, <1>4, <1>5, <1>6, <1>7, <1>8, <1>9

\* Every step of the session, the nodes and the network keeps the types.
LEMMA OutsideTyped ==
  ASSUME TypeInv,
         StartSession \/ StopSession \/ NodeAnswers \/ LoseCommand \/ LoseAck
  PROVE  TypeInv'
<1>0. /\ TypeOK /\ \A d \in Clients : Holds(d)
      /\ MaxRuntimes \in Nat
  BY ConstantsAssumption DEF TypeInv, TransactionAssumption
<1>1. TypeOK'
  <2>1. CASE StartSession
    BY <1>0, <2>1 DEF StartSession, TypeOK, network
  <2>2. CASE StopSession
    BY <1>0, <2>2 DEF StopSession, TypeOK, network
  <2>3. CASE NodeAnswers
    BY <1>0, <2>3 DEF NodeAnswers, Answer, TypeOK, shared
  <2>4. CASE LoseCommand
    BY <1>0, <2>4 DEF LoseCommand, TypeOK, shared
  <2>5. CASE LoseAck
    BY <1>0, <2>5 DEF LoseAck, TypeOK, shared
  <2> QED
    BY <2>1, <2>2, <2>3, <2>4, <2>5
<1>2. UNCHANGED <<pc, use, sent, attempt>>
  BY DEF StartSession, StopSession, NodeAnswers, Answer, LoseCommand, LoseAck
<1>3. ASSUME NEW d \in Clients PROVE Holds(d)'
  BY <1>0, <1>2 DEF Holds
<1> QED
  BY <1>1, <1>3 DEF TypeInv

\* Every step keeps the types.
LEMMA StepTypeInv == TypeInv /\ [Next]_vars => TypeInv'
<1> SUFFICES ASSUME TypeInv, [Next]_vars PROVE TypeInv'
  OBVIOUS
<1>1. CASE Next
  BY <1>1, PreparationTyped, AttemptTyped, OutsideTyped DEF Next, ClientStep
<1>2. CASE UNCHANGED vars
  BY <1>2 DEF vars, TypeInv, TypeOK, Holds
<1> QED
  BY <1>1, <1>2

\* The types hold in every state: the sequence number stays in its word, no
\* transaction makes more attempts than it may, and a client that is in a
\* transaction has a command and a runtime (control_transaction_service.py).
THEOREM TransactionTypeCorrect == Spec => []TypeOK
<1>1. TypeInv => TypeOK
  BY DEF TypeInv
<1> QED
  BY <1>1, InitTypeInv, StepTypeInv, PTL DEF Spec

----------------------------------------------------------------------------
(* The pending table. *)

\* What a step does to the table is no harm when it only takes entries away
\* and the one client it moves waits for nothing before it.
LEMMA BystanderKeepsPending ==
  ASSUME PendingIsAwaited, NEW c \in Clients, pc[c] # "wait",
         \A d \in Clients \ {c} : /\ pc'[d] = pc[d] /\ use'[d] = use[d]
                                  /\ sent'[d] = sent[d],
         \A r \in Runtimes : pending'[r] \subseteq pending[r],
         \A r \in Runtimes : \A e \in pending[r] : e.owner \in Clients
  PROVE  PendingIsAwaited'
  BY DEF PendingIsAwaited

\* A client that discards its command before it leaves leaves nothing behind
\* (discard_sent_command on every way out of the wait).
LEMMA LeaverKeepsPending ==
  ASSUME TypeInv, PendingIsAwaited, NEW c \in Clients, Discard(c),
         \A d \in Clients \ {c} : /\ pc'[d] = pc[d] /\ use'[d] = use[d]
                                  /\ sent'[d] = sent[d]
  PROVE  PendingIsAwaited'
<1> SUFFICES ASSUME NEW r \in Runtimes, NEW e \in pending'[r]
             PROVE  /\ pc'[e.owner] = "wait" /\ use'[e.owner] = r
                    /\ Key(sent'[e.owner]) = e.key
  BY DEF PendingIsAwaited
<1>1. /\ e \in pending[r] /\ e.owner \in Clients
      /\ r = use[c] => e.key # Key(sent[c])
  BY DEF TypeInv, TypeOK, Discard
<1>2. /\ pc[e.owner] = "wait" /\ use[e.owner] = r
      /\ Key(sent[e.owner]) = e.key
  BY <1>1 DEF PendingIsAwaited
<1>3. e.owner # c
  BY <1>1, <1>2
<1> QED
  BY <1>1, <1>2, <1>3

\* Every step keeps the pending table true.
LEMMA StepPending ==
  TypeInv /\ PendingIsAwaited /\ [Next]_vars => PendingIsAwaited'
<1> SUFFICES ASSUME TypeInv, PendingIsAwaited, [Next]_vars
             PROVE  PendingIsAwaited'
  OBVIOUS
<1>0. /\ \A r \in Runtimes : \A e \in pending[r] : e.owner \in Clients
      /\ pending \in [Runtimes -> SUBSET [key : Nat \X {t.cmd : t \in Targets} \X Nat,
                                          owner : Clients]]
      /\ pc \in [Clients -> {"idle", "listen", "bind", "allocate", "bump", "send",
                             "register", "wait"}]
      /\ use \in [Clients -> 0..built]
      /\ sent \in [Clients -> Frames \cup {NoCommand}]
  BY DEF TypeInv, TypeOK
<1>1. ASSUME NEW c \in Clients,
             Begin(c) \/ CheckListener(c) \/ OpenListener(c) \/ OpenFails(c)
               \/ Allocate(c) \/ CounterExhausted(c) \/ BumpCounter(c)
               \/ Send(c) \/ SendFails(c)
      PROVE  PendingIsAwaited'
  <2>1. pc[c] # "wait" /\ pending' = pending
    BY <1>1 DEF Begin, CheckListener, OpenListener, OpenFails, Allocate,
                CounterExhausted, BumpCounter, Send, SendFails, shared
  <2>2. \A d \in Clients \ {c} : /\ pc'[d] = pc[d] /\ use'[d] = use[d]
                                 /\ sent'[d] = sent[d]
    BY <1>0, <1>1 DEF Begin, CheckListener, OpenListener, OpenFails, Allocate,
                CounterExhausted, BumpCounter, Send, SendFails, Finish, Goto
  <2> QED
    BY <1>0, <2>1, <2>2, BystanderKeepsPending
<1>2. ASSUME NEW c \in Clients, Register(c) PROVE PendingIsAwaited'
  <2>1. /\ pc' = [pc EXCEPT ![c] = "wait"] /\ pc[c] = "register"
        /\ UNCHANGED <<use, sent>>
        /\ pending' = [pending EXCEPT ![use[c]] =
                         {e \in @ : e.key # Key(sent[c])}
                           \cup {[key |-> Key(sent[c]), owner |-> c]}]
    BY <1>2 DEF Register, Goto
  <2> SUFFICES ASSUME NEW r \in Runtimes, NEW e \in pending'[r]
               PROVE  /\ pc'[e.owner] = "wait" /\ use'[e.owner] = r
                      /\ Key(sent'[e.owner]) = e.key
    BY DEF PendingIsAwaited
  <2>2. \/ e \in pending[r]
        \/ r = use[c] /\ e = [key |-> Key(sent[c]), owner |-> c]
    BY <1>0, <2>1
  <2>3. CASE e \in pending[r]
    <3>1. /\ pc[e.owner] = "wait" /\ use[e.owner] = r
          /\ Key(sent[e.owner]) = e.key /\ e.owner \in Clients
      BY <1>0, <2>3 DEF PendingIsAwaited
    <3> QED
      BY <1>0, <2>1, <3>1
  <2>4. CASE r = use[c] /\ e = [key |-> Key(sent[c]), owner |-> c]
    <3>1. e.owner = c /\ e.key = Key(sent[c])
      BY <2>4
    <3>2. pc'[c] = "wait" /\ use'[c] = use[c] /\ sent'[c] = sent[c]
      BY <1>0, <2>1
    <3> QED
      BY <2>4, <3>1, <3>2
  <2> QED
    BY <2>2, <2>3, <2>4
<1>3. ASSUME NEW c \in Clients,
             ReceiveOwnAck(c) \/ ListenerLost(c) \/ Retry(c) \/ GiveUp(c)
      PROVE  PendingIsAwaited'
  <2>1. Discard(c)
    BY <1>3 DEF ReceiveOwnAck, ListenerLost, Retry, GiveUp
  <2>2. \A d \in Clients \ {c} : /\ pc'[d] = pc[d] /\ use'[d] = use[d]
                                 /\ sent'[d] = sent[d]
    BY <1>0, <1>3 DEF ReceiveOwnAck, ListenerLost, Retry, GiveUp, Finish, Goto
  <2> QED
    BY <2>1, <2>2, LeaverKeepsPending
<1>4. ASSUME NEW c \in Clients, ReceiveOtherAck(c) \/ ReceiveInvalid(c)
      PROVE  PendingIsAwaited'
  <2>1. UNCHANGED <<pc, use, sent>>
    BY <1>4 DEF ReceiveOtherAck, ReceiveInvalid
  <2>2. \A r \in Runtimes : pending'[r] \subseteq pending[r]
    BY <1>0, <1>4 DEF ReceiveOtherAck, ReceiveInvalid, shared
  <2> QED
    BY <2>1, <2>2 DEF PendingIsAwaited
<1>5. CASE \/ StartSession \/ StopSession \/ NodeAnswers \/ LoseCommand \/ LoseAck
           \/ UNCHANGED vars
  <2>1. UNCHANGED <<pc, use, sent, pending>>
    BY <1>5 DEF StartSession, StopSession, NodeAnswers, Answer, LoseCommand,
                LoseAck, shared, vars
  <2> QED
    BY <2>1 DEF PendingIsAwaited
<1> QED
  BY <1>1, <1>2, <1>3, <1>4, <1>5 DEF Next, ClientStep

\* However transactions overlap, end, fail or outlive their session, the
\* pending table holds exactly commands somebody waits for
\* (register_sent_command, discard_sent_command).
THEOREM PendingTableIsTrue == Spec => []PendingIsAwaited
<1>1. Init => PendingIsAwaited
  BY DEF Init, PendingIsAwaited
<1> QED
  BY <1>1, InitTypeInv, StepTypeInv, StepPending, PTL DEF Spec

----------------------------------------------------------------------------
(* A client that has the port to itself. *)

\* Who has taken part has done so for good: a transaction's result is never
\* "none".
LEMMA TookPartStays ==
  ASSUME TypeInv, [Next]_vars, NEW d \in Clients, TookPart(d)
  PROVE  TookPart(d)'
<1>0. /\ pc \in [Clients -> {"idle", "listen", "bind", "allocate", "bump", "send",
                             "register", "wait"}]
      /\ outcome \in [Clients -> [status : Verdicts \cup LocalOutcomes,
                                  frame : Frames \cup {NoCommand}]]
      /\ \A a \in acks : a.status \in Verdicts
      /\ Verdicts \cap LocalOutcomes = {} /\ "none" \in LocalOutcomes
  BY ConstantsAssumption DEF TypeInv, TypeOK, TransactionAssumption, LocalOutcomes
<1>1. ASSUME NEW c \in Clients, NEW status, status # "none", Finish(c, status)
      PROVE  TookPart(d)'
  <2>1. CASE d = c
    <3>1. outcome'[d] = [status |-> status, frame |-> sent[c]]
      BY <1>0, <1>1, <2>1 DEF Finish
    <3>2. outcome'[d].status = status /\ NoOutcome.status = "none"
      BY <3>1 DEF NoOutcome
    <3> QED
      BY <1>1, <3>2 DEF TookPart
  <2>2. CASE d # c
    BY <1>0, <1>1, <2>2 DEF Finish, Goto, TookPart
  <2> QED
    BY <2>1, <2>2
<1>2. ASSUME NEW c \in Clients, OpenFails(c) \/ CounterExhausted(c) \/ SendFails(c)
               \/ ListenerLost(c) \/ GiveUp(c)
      PROVE  TookPart(d)'
  <2>1. FinalStatus(c) # "none"
    BY DEF FinalStatus
  <2> QED
    BY <1>1, <1>2, <2>1 DEF OpenFails, CounterExhausted, SendFails, ListenerLost, GiveUp
<1>3. ASSUME NEW c \in Clients, ReceiveOwnAck(c) PROVE TookPart(d)'
  <2>1. PICK a \in acks : Finish(c, a.status)
    BY <1>3 DEF ReceiveOwnAck
  <2>2. a.status # "none"
    BY <1>0
  <2> QED
    BY <1>1, <2>1, <2>2
<1>4. ASSUME NEW c \in Clients, Begin(c) PROVE TookPart(d)'
  BY <1>0, <1>4 DEF Begin, Goto, TookPart
<1>5. ASSUME NEW c \in Clients, CheckListener(c) \/ OpenListener(c) \/ Allocate(c)
               \/ BumpCounter(c) \/ Send(c) \/ Register(c) \/ ReceiveOtherAck(c)
               \/ ReceiveInvalid(c) \/ Retry(c)
      PROVE  TookPart(d)'
  BY <1>0, <1>5 DEF CheckListener, OpenListener, Allocate, BumpCounter, Send,
       Register, ReceiveOtherAck, ReceiveInvalid, Retry, Goto, TookPart
<1>6. CASE \/ StartSession \/ StopSession \/ NodeAnswers \/ LoseCommand \/ LoseAck
           \/ UNCHANGED vars
  BY <1>6 DEF StartSession, StopSession, NodeAnswers, Answer, LoseCommand,
              LoseAck, shared, vars, TookPart
<1> QED
  BY <1>2, <1>3, <1>4, <1>5, <1>6 DEF Next, ClientStep

\* What a client that waits is sure of while it is alone.
Undisturbed ==
  /\ stolen = {}
  /\ \A c \in Clients : pc[c] = "wait" =>
       \E e \in pending[use[c]] : e.owner = c /\ e.key = Key(sent[c])
OneTookPart == \A c, d \in Clients : TookPart(c) /\ TookPart(d) => c = d

\* A lone client reads no ACK of its own command without recognising it.
LEMMA LoneClientIsUndisturbed ==
  ASSUME TypeInv, OneTookPart, Undisturbed, [Next]_vars, OneTookPart'
  PROVE  Undisturbed'
<1>0. /\ pending \in [Runtimes -> SUBSET [key : Nat \X {t.cmd : t \in Targets} \X Nat,
                                          owner : Clients]]
      /\ pc \in [Clients -> {"idle", "listen", "bind", "allocate", "bump", "send",
                             "register", "wait"}]
      /\ use \in [Clients -> 0..built]
      /\ sent \in [Clients -> Frames \cup {NoCommand}]
      /\ \A d \in Clients : pc[d] = "wait" => use[d] \in Runtimes
  BY DEF TypeInv, TypeOK, Holds
<1>1. ASSUME NEW c \in Clients, TookPart(c)', stolen' = {},
             pc'[c] = "wait" =>
               \E e \in pending'[use'[c]] : e.owner = c /\ e.key = Key(sent'[c])
      PROVE  Undisturbed'
  <2>1. ASSUME NEW d \in Clients, pc'[d] = "wait" PROVE d = c
    BY <1>1, <2>1 DEF OneTookPart, TookPart
  <2> QED
    BY <1>1, <2>1 DEF Undisturbed
<1>2. ASSUME NEW c \in Clients,
             Begin(c) \/ CheckListener(c) \/ OpenListener(c) \/ OpenFails(c)
               \/ Allocate(c) \/ CounterExhausted(c) \/ BumpCounter(c)
               \/ Send(c) \/ SendFails(c) \/ ReceiveOwnAck(c)
               \/ ListenerLost(c) \/ Retry(c) \/ GiveUp(c)
      PROVE  Undisturbed'
  <2>1. stolen' = {}
    BY <1>2 DEF Undisturbed, Begin, CheckListener, OpenListener, OpenFails,
         Allocate, CounterExhausted, BumpCounter, Send, SendFails, ReceiveOwnAck,
         ListenerLost, Retry, GiveUp
  <2>2. pc'[c] # "wait"
    BY <1>0, <1>2 DEF Begin, CheckListener, OpenListener, OpenFails,
         Allocate, CounterExhausted, BumpCounter, Send, SendFails, ReceiveOwnAck,
         ListenerLost, Retry, GiveUp, Finish, Goto
  <2>3. TookPart(c)'
    <3>1. CASE Begin(c)
      BY <1>0, <3>1 DEF Begin, Goto, TookPart
    <3>2. CASE ~Begin(c)
      <4>1. pc[c] # "idle"
        BY <1>2, <3>2 DEF CheckListener, OpenListener, OpenFails, Allocate,
             CounterExhausted, BumpCounter, Send, SendFails, ReceiveOwnAck,
             ListenerLost, Retry, GiveUp
      <4> QED
        BY <4>1, TookPartStays DEF TookPart
    <3> QED
      BY <3>1, <3>2
  <2> QED
    BY <1>1, <2>1, <2>2, <2>3
<1>3. ASSUME NEW c \in Clients, Register(c) PROVE Undisturbed'
  <2>1. /\ pc[c] = "register" /\ stolen' = stolen /\ UNCHANGED <<use, sent>>
        /\ pending' = [pending EXCEPT ![use[c]] =
                         {e \in @ : e.key # Key(sent[c])}
                           \cup {[key |-> Key(sent[c]), owner |-> c]}]
    BY <1>3 DEF Register
  <2>2. TookPart(c)'
    BY <2>1, TookPartStays DEF TookPart
  <2>3. use[c] \in Runtimes
    BY <2>1 DEF TypeInv, Holds
  <2>4. [key |-> Key(sent[c]), owner |-> c] \in pending'[use'[c]]
    BY <1>0, <2>1, <2>3
  <2> QED
    BY <1>1, <2>1, <2>2, <2>4 DEF Undisturbed
<1>4. ASSUME NEW c \in Clients, ReceiveOtherAck(c) PROVE Undisturbed'
  <2>1. PICK a \in acks :
          /\ ~(/\ Key(a) = Key(sent[c])
               /\ \E e \in pending[use[c]] : e.key = Key(a))
          /\ pending' = [pending EXCEPT ![use[c]] = {e \in @ : e.key # Key(a)}]
          /\ stolen' = IF Owners(a) = {} THEN stolen ELSE stolen \cup {Key(a)}
    BY <1>4 DEF ReceiveOtherAck
  <2>2. pc[c] = "wait" /\ UNCHANGED <<pc, use, sent>>
    BY <1>4 DEF ReceiveOtherAck
  <2>3. PICK e \in pending[use[c]] : e.owner = c /\ e.key = Key(sent[c])
    BY <2>2 DEF Undisturbed
  <2>4. Key(a) # Key(sent[c])
    BY <2>1, <2>3
  <2>5. Owners(a) = {}
    <3> SUFFICES ASSUME NEW d \in Owners(a) PROVE FALSE
      OBVIOUS
    <3>1. d \in Clients /\ pc[d] # "idle" /\ Key(sent[d]) = Key(a)
      BY DEF Owners
    <3>2. d = c
      BY <2>2, <3>1 DEF OneTookPart, TookPart
    <3> QED
      BY <2>4, <3>1, <3>2
  <2>6. stolen' = {}
    BY <2>1, <2>5 DEF Undisturbed
  <2>7. e \in pending'[use'[c]]
    BY <1>0, <2>1, <2>2, <2>3, <2>4
  <2>8. TookPart(c)'
    BY <2>2, TookPartStays DEF TookPart
  <2> QED
    BY <1>1, <2>2, <2>3, <2>6, <2>7, <2>8
<1>5. CASE \/ \E c \in Clients : ReceiveInvalid(c)
           \/ StartSession \/ StopSession \/ NodeAnswers \/ LoseCommand \/ LoseAck
           \/ UNCHANGED vars
  <2>1. UNCHANGED <<pc, use, sent, pending, stolen>>
    BY <1>5 DEF ReceiveInvalid, StartSession, StopSession, NodeAnswers, Answer,
                LoseCommand, LoseAck, shared, vars
  <2> QED
    BY <2>1 DEF Undisturbed
<1> QED
  BY <1>2, <1>3, <1>4, <1>5 DEF Next, ClientStep

\* As long as one client alone has sent commands, every ACK for the command it
\* waits for is recognised when it is read, however late the command is
\* registered (the send-register-poll order of _execute_transaction).
THEOREM LoneClientLosesNoAck == Spec => []NoAckIsStolen
<1>1. Init => NoAckIsStolen
  BY DEF Init, NoAckIsStolen
<1>2. NoAckIsStolen <=> (OneTookPart => Undisturbed)
  BY DEF NoAckIsStolen, OneTookPart, Undisturbed
<1>3. TypeInv /\ NoAckIsStolen /\ [Next]_vars => NoAckIsStolen'
  <2> SUFFICES ASSUME TypeInv, NoAckIsStolen, [Next]_vars, OneTookPart'
               PROVE  Undisturbed'
    BY DEF NoAckIsStolen, OneTookPart, Undisturbed
  <2>1. OneTookPart
    BY TookPartStays DEF OneTookPart
  <2>2. Undisturbed
    BY <1>2, <2>1
  <2> QED
    BY <2>1, <2>2, LoneClientIsUndisturbed
<1> QED
  BY <1>1, <1>3, InitTypeInv, StepTypeInv, PTL DEF Spec

----------------------------------------------------------------------------
(* Whose verdict it is. *)

\* There are no more threads than sequence numbers.
FewClients == IsFiniteSet(Clients) /\ Cardinality(Clients) <= SeqSpace

\* A client that has a command with its sequence number and its nonce.
HasCommand(c) == pc[c] \in {"bump", "send", "register", "wait"}

\* The commands that have ever left.
Sent(f) == f \in wire \/ \E x \in answered : x.frame = f

\* Every ACK under way is one a node sent.
AcksAreAnswers ==
  \A a \in acks : \E x \in answered :
    /\ x.status = a.status
    /\ Key(x.frame) = Key(a)

\* A nonce was drawn from the counter of a runtime before the counter moved on;
\* of a command that has left, the counter has moved.
Drawn(nonce, r, n) ==
  /\ n \in Nat /\ n < CounterCap
  /\ nonce = compose_nonce(r, n)
NoncesAreDrawn ==
  /\ \A f \in Frames : Sent(f) =>
       \E r \in Runtimes : \E n \in Nat : Drawn(f.nonce, r, n) /\ n < counterOf[r]
  /\ \A c \in Clients : HasCommand(c) =>
       \E n \in Nat : /\ Drawn(sent[c].nonce, use[c], n)
                      /\ n <= counterOf[use[c]]
                      /\ pc[c] # "bump" => n < counterOf[use[c]]

\* Clients that drew the same nonce before the counter moved took the sequence
\* numbers just before the next one.
Drawing(r) ==
  {c \in Clients : /\ pc[c] = "bump" /\ use[c] = r
                   /\ sent[c].nonce = compose_nonce(r, counterOf[r])}
Before(s, k) == IF k <= s THEN s - k ELSE s + SeqSpace - k
SequencesAreRecent ==
  \A r \in Runtimes : \A c \in Drawing(r) :
    \E k \in 1..Cardinality(Drawing(r)) : sent[c].seq = Before(seqOf[r], k)

\* A key stands for one command of one client.
KeysAreUnique ==
  /\ \A c, d \in Clients :
       HasCommand(c) /\ HasCommand(d) /\ Key(sent[c]) = Key(sent[d]) => c = d
  /\ \A f \in Frames, c \in Clients :
       Sent(f) /\ HasCommand(c) /\ Key(f) = Key(sent[c]) => f = sent[c]

IdentityInv ==
  /\ AcksAreAnswers
  /\ NoncesAreDrawn
  /\ SequencesAreRecent
  /\ KeysAreUnique
  /\ VerdictIsForThisCommand

\* Nonces of different runtimes, or of different counters, differ
\* (NonceManager: the control epoch is the upper half of the nonce).
LEMMA NoncesDiffer ==
  ASSUME NEW r \in Nat, NEW s \in Nat, NEW n \in Nat, NEW m \in Nat,
         n < CounterCap, m < CounterCap, compose_nonce(r, n) = compose_nonce(s, m)
  PROVE  r = s /\ n = m
<1>1. CounterCap \in Nat \ {0}
  BY ConstantsAssumption DEF TransactionAssumption
<1>2. ASSUME NEW i \in Nat, NEW j \in Nat, i < j
      PROVE  i * CounterCap + CounterCap <= j * CounterCap
  <2>1. PICK k \in Nat : j = i + 1 + k
    <3>1. j - i - 1 \in Nat /\ j = i + 1 + (j - i - 1)
      BY <1>2
    <3> QED
      BY <3>1
  <2>2. j * CounterCap = i * CounterCap + CounterCap + k * CounterCap
    BY <1>1, <2>1
  <2>3. k * CounterCap \in Nat /\ i * CounterCap \in Nat
    BY <1>1
  <2> QED
    BY <1>1, <2>2, <2>3
<1>3. r * CounterCap \in Nat /\ s * CounterCap \in Nat
      /\ r * CounterCap + n = s * CounterCap + m
  BY <1>1 DEF compose_nonce
<1>4. ~(r < s) /\ ~(s < r)
  BY <1>1, <1>2, <1>3
<1>5. r = s
  BY <1>4
<1> QED
  BY <1>3, <1>5

\* Nobody is drawing from a used-up counter.
LEMMA NobodyDrawsWhenUsedUp ==
  ASSUME TypeInv, NoncesAreDrawn, NEW r \in Runtimes, counterOf[r] >= CounterCap
  PROVE  Drawing(r) = {}
<1> SUFFICES ASSUME NEW c \in Drawing(r) PROVE FALSE
  OBVIOUS
<1>1. c \in Clients /\ HasCommand(c) /\ use[c] = r
      /\ sent[c].nonce = compose_nonce(r, counterOf[r])
  BY DEF Drawing, HasCommand
<1>2. PICK n \in Nat : n < CounterCap /\ sent[c].nonce = compose_nonce(r, n)
  BY <1>1 DEF NoncesAreDrawn, Drawn
<1>3. CounterCap \in Nat /\ r \in Nat /\ counterOf[r] \in Nat
  <2>1. counterOf \in [Runtimes -> Nat]
    BY DEF TypeInv, TypeOK
  <2>2. CounterCap \in Nat /\ MaxRuntimes \in Nat
    BY ConstantsAssumption DEF TransactionAssumption
  <2> QED
    BY <2>1, <2>2 DEF Runtimes
<1>4. r * CounterCap \in Nat
  BY <1>3
<1>5. r * CounterCap + n = r * CounterCap + counterOf[r]
  BY <1>1, <1>2 DEF compose_nonce
<1> QED
  BY <1>2, <1>3, <1>4, <1>5

\* What is known of nonces and keys survives every step that draws nothing: it
\* may send the command of a client that is about to send.
LEMMA NothingDrawn ==
  ASSUME TypeInv, NoncesAreDrawn, SequencesAreRecent, KeysAreUnique,
         counterOf' = counterOf,
         \A r \in Runtimes : seqOf'[r] = seqOf[r] \/ Drawing(r) = {},
         \A c \in Clients : HasCommand(c)' =>
           HasCommand(c) /\ sent'[c] = sent[c] /\ use'[c] = use[c],
         \A c \in Clients : pc'[c] = "bump" <=> pc[c] = "bump",
         \A f : Sent(f)' =>
           Sent(f) \/ \E c \in Clients : pc[c] = "send" /\ f = sent[c]
  PROVE  NoncesAreDrawn' /\ SequencesAreRecent' /\ KeysAreUnique'
<1>1. NoncesAreDrawn'
  <2>1. ASSUME NEW f \in Frames, Sent(f)'
        PROVE  \E r \in Runtimes : \E n \in Nat :
                 Drawn(f.nonce, r, n) /\ n < counterOf'[r]
    <3>1. CASE Sent(f)
      BY <3>1 DEF NoncesAreDrawn, Drawn
    <3>2. CASE \E c \in Clients : pc[c] = "send" /\ f = sent[c]
      <4>1. PICK c \in Clients : pc[c] = "send" /\ f = sent[c]
        BY <3>2
      <4>2. HasCommand(c) /\ pc[c] # "bump" /\ use[c] \in Runtimes
        BY <4>1 DEF HasCommand, TypeInv, Holds
      <4>3. PICK n \in Nat : Drawn(f.nonce, use[c], n) /\ n < counterOf[use[c]]
        BY <4>1, <4>2 DEF NoncesAreDrawn
      <4> QED
        BY <4>2, <4>3 DEF Drawn
    <3> QED
      BY <2>1, <3>1, <3>2
  <2>2. ASSUME NEW c \in Clients, HasCommand(c)'
        PROVE  \E n \in Nat : /\ Drawn(sent'[c].nonce, use'[c], n)
                              /\ n <= counterOf'[use'[c]]
                              /\ pc'[c] # "bump" => n < counterOf'[use'[c]]
    <3>1. HasCommand(c) /\ sent'[c] = sent[c] /\ use'[c] = use[c]
      BY <2>2
    <3>2. PICK n \in Nat : /\ Drawn(sent[c].nonce, use[c], n)
                           /\ n <= counterOf[use[c]]
                           /\ pc[c] # "bump" => n < counterOf[use[c]]
      BY <3>1 DEF NoncesAreDrawn
    <3>3. Drawn(sent'[c].nonce, use'[c], n)
      BY <3>1, <3>2 DEF Drawn
    <3> QED
      BY <3>1, <3>2, <3>3
  <2> QED
    BY <2>1, <2>2 DEF NoncesAreDrawn, Drawn
<1>2. SequencesAreRecent'
  <2>1. ASSUME NEW r \in Runtimes PROVE Drawing(r)' = Drawing(r)
    <3>1. ASSUME NEW c \in Clients, pc[c] = "bump"
          PROVE  pc'[c] = "bump" /\ sent'[c] = sent[c] /\ use'[c] = use[c]
      BY <3>1 DEF HasCommand
    <3>2. ASSUME NEW c \in Clients, pc'[c] = "bump"
          PROVE  pc[c] = "bump" /\ sent'[c] = sent[c] /\ use'[c] = use[c]
      BY <3>2 DEF HasCommand
    <3> QED
      BY <3>1, <3>2 DEF Drawing
  <2>2. ASSUME NEW r \in Runtimes, NEW c \in Drawing(r)
        PROVE  \E k \in 1..Cardinality(Drawing(r)) : sent'[c].seq = Before(seqOf'[r], k)
    <3>1. PICK k \in 1..Cardinality(Drawing(r)) : sent[c].seq = Before(seqOf[r], k)
      BY DEF SequencesAreRecent
    <3>2. seqOf'[r] = seqOf[r]
      OBVIOUS
    <3>3. sent'[c] = sent[c]
      BY DEF Drawing, HasCommand
    <3> QED
      BY <3>1, <3>2, <3>3
  <2> QED
    BY <2>1, <2>2 DEF SequencesAreRecent, Before
<1>3. KeysAreUnique'
  <2>1. ASSUME NEW c \in Clients, NEW d \in Clients, HasCommand(c)', HasCommand(d)',
               Key(sent'[c]) = Key(sent'[d])
        PROVE  c = d
    BY <2>1 DEF KeysAreUnique
  <2>2. ASSUME NEW f \in Frames, NEW d \in Clients, Sent(f)', HasCommand(d)',
               Key(f) = Key(sent'[d])
        PROVE  f = sent'[d]
    <3>1. HasCommand(d) /\ sent'[d] = sent[d]
      BY <2>2
    <3>2. CASE Sent(f)
      BY <2>2, <3>1, <3>2 DEF KeysAreUnique
    <3>3. CASE \E c \in Clients : pc[c] = "send" /\ f = sent[c]
      <4>1. PICK c \in Clients : pc[c] = "send" /\ f = sent[c]
        BY <3>3
      <4>2. HasCommand(c)
        BY <4>1 DEF HasCommand
      <4>3. c = d
        BY <2>2, <3>1, <4>1, <4>2 DEF KeysAreUnique
      <4> QED
        BY <3>1, <4>1, <4>3
    <3> QED
      BY <2>2, <3>2, <3>3
  <2> QED
    BY <2>1, <2>2 DEF KeysAreUnique
<1> QED
  BY <1>1, <1>2, <1>3

\* The sequence number before the next is the one just given, and those before
\* move one further back.
LEMMA OneFurtherBack ==
  ASSUME NEW s \in 0..(SeqSpace - 1), NEW k \in 1..(SeqSpace - 1)
  PROVE  /\ Before((s + 1) % SeqSpace, 1) = s
         /\ Before((s + 1) % SeqSpace, k + 1) = Before(s, k)
         /\ Before(s, k) # s
<1>1. SeqSpace \in Nat \ {0}
  BY ConstantsAssumption DEF TransactionAssumption
<1>2. (s + 1) % SeqSpace = IF s + 1 = SeqSpace THEN 0 ELSE s + 1
  BY SeqTyped
<1> QED
  BY <1>1, <1>2 DEF Before

LEMMA JustGiven ==
  ASSUME NEW s \in 0..(SeqSpace - 1)
  PROVE  Before((s + 1) % SeqSpace, 1) = s
<1>1. SeqSpace \in Nat \ {0}
  BY ConstantsAssumption DEF TransactionAssumption
<1>2. (s + 1) % SeqSpace = IF s + 1 = SeqSpace THEN 0 ELSE s + 1
  BY SeqTyped
<1> QED
  BY <1>1, <1>2 DEF Before

\* A new command has a key no other command has or had
\* (CmdSequenceManager.next, NonceManager.next_nonce).
LEMMA AllocateKeepsKeys ==
  ASSUME FewClients, TypeInv, NoncesAreDrawn, SequencesAreRecent, KeysAreUnique,
         NEW c \in Clients, Allocate(c)
  PROVE  NoncesAreDrawn' /\ SequencesAreRecent' /\ KeysAreUnique'
<1>0. /\ pc[c] = "allocate" /\ use[c] \in Runtimes
      /\ counterOf[use[c]] \in Nat /\ counterOf[use[c]] < CounterCap
  BY DEF Allocate, TypeInv, TypeOK, Holds, Runtimes
<1> PICK r \in Runtimes : r = use[c]
  BY <1>0
<1> PICK n \in Nat : n = counterOf[r]
  BY <1>0
<1>1. /\ pc[c] = "allocate" /\ r \in Nat
      /\ n < CounterCap /\ seqOf[r] \in 0..(SeqSpace - 1)
      /\ sent[c] \in Frames
  BY <1>0 DEF TypeInv, TypeOK, Holds, Runtimes
<1>2. /\ sent'[c].seq = seqOf[r] /\ sent'[c].nonce = compose_nonce(r, n)
      /\ \A d \in Clients \ {c} : sent'[d] = sent[d]
  BY <1>1 DEF Allocate, TypeInv, TypeOK, Frames
<1>3. /\ seqOf'[r] = (seqOf[r] + 1) % SeqSpace
      /\ \A s \in Runtimes \ {r} : seqOf'[s] = seqOf[s]
      /\ UNCHANGED <<counterOf, use, wire, answered>>
  BY <1>1 DEF Allocate, TypeInv, TypeOK, network
<1>4. /\ pc'[c] = "bump"
      /\ \A d \in Clients \ {c} : pc'[d] = pc[d]
  BY DEF Allocate, Goto, TypeInv, TypeOK
<1>5. \A f : Sent(f)' <=> Sent(f)
  BY <1>3 DEF Sent
<1>6. Drawing(r)' = Drawing(r) \cup {c} /\ c \notin Drawing(r)
  BY <1>1, <1>2, <1>3, <1>4 DEF Drawing
<1>7. \A s \in Runtimes \ {r} : Drawing(s)' = Drawing(s)
  BY <1>1, <1>2, <1>3, <1>4 DEF Drawing
<1>8. /\ Cardinality(Drawing(r)') = Cardinality(Drawing(r)) + 1
      /\ Cardinality(Drawing(r)) \in Nat
      /\ Cardinality(Drawing(r)) + 1 <= SeqSpace
  <2>1. Drawing(r)' \subseteq Clients /\ Drawing(r) \subseteq Clients
    BY <1>6 DEF Drawing
  <2>2. IsFiniteSet(Clients) /\ Cardinality(Clients) \in Nat
        /\ Cardinality(Clients) <= SeqSpace
    BY FS_CardinalityType DEF FewClients
  <2>3. /\ IsFiniteSet(Drawing(r)) /\ Cardinality(Drawing(r)') <= Cardinality(Clients)
    BY <2>1, <2>2, FS_Subset
  <2>4. Cardinality(Drawing(r)) \in Nat
    BY <2>3, FS_CardinalityType
  <2>5. Cardinality(Drawing(r)') = Cardinality(Drawing(r)) + 1
    BY <1>6, <2>3, FS_AddElement
  <2> QED
    BY <2>2, <2>3, <2>4, <2>5, ConstantsAssumption DEF TransactionAssumption
<1>9. SequencesAreRecent'
  <2>1. ASSUME NEW s \in Runtimes, NEW d \in Drawing(s)'
        PROVE  \E k \in 1..Cardinality(Drawing(s)') : sent'[d].seq = Before(seqOf'[s], k)
    <3>1. CASE s # r
      <4>1. Drawing(s)' = Drawing(s) /\ seqOf'[s] = seqOf[s]
        BY <1>3, <1>7, <3>1
      <4>2. d # c
        BY <1>1, <4>1 DEF Drawing
      <4>3. PICK k \in 1..Cardinality(Drawing(s)) : sent[d].seq = Before(seqOf[s], k)
        BY <4>1 DEF SequencesAreRecent
      <4>4. sent'[d] = sent[d]
        BY <1>2, <4>2, <4>1 DEF Drawing
      <4> QED
        BY <4>1, <4>3, <4>4
    <3>2. CASE s = r /\ d = c
      <4>1. sent'[d].seq = Before(seqOf'[s], 1)
        BY <1>1, <1>2, <1>3, <3>2, JustGiven
      <4>2. 1 \in 1..Cardinality(Drawing(s)')
        BY <1>8, <3>2
      <4> QED
        BY <4>1, <4>2
    <3>3. CASE s = r /\ d # c
      <4>1. d \in Drawing(r) /\ d \in Clients
        BY <1>6, <3>3 DEF Drawing
      <4>2. PICK k \in 1..Cardinality(Drawing(r)) : sent[d].seq = Before(seqOf[r], k)
        BY <1>1, <4>1 DEF SequencesAreRecent
      <4>3. k \in 1..(SeqSpace - 1) /\ k + 1 \in 1..Cardinality(Drawing(r)')
        BY <1>8, ConstantsAssumption DEF TransactionAssumption
      <4>4. sent'[d].seq = Before(seqOf'[r], k + 1)
        BY <1>1, <1>2, <1>3, <3>3, <4>1, <4>2, <4>3, OneFurtherBack
      <4> QED
        BY <3>3, <4>3, <4>4
    <3> QED
      BY <3>1, <3>2, <3>3
  <2> QED
    BY <2>1 DEF SequencesAreRecent, Before
<1>10. NoncesAreDrawn'
  <2>1. ASSUME NEW d \in Clients, HasCommand(d)'
        PROVE  \E m \in Nat : /\ Drawn(sent'[d].nonce, use'[d], m)
                              /\ m <= counterOf'[use'[d]]
                              /\ pc'[d] # "bump" => m < counterOf'[use'[d]]
    <3>1. CASE d = c
      <4>1. Drawn(sent'[d].nonce, use'[d], n)
        BY <1>1, <1>2, <1>3, <3>1 DEF Drawn
      <4>2. n <= counterOf'[use'[d]] /\ pc'[d] = "bump"
        BY <1>1, <1>3, <1>4, <3>1
      <4> QED
        BY <1>1, <4>1, <4>2
    <3>2. CASE d # c
      <4>1. HasCommand(d) /\ sent'[d] = sent[d] /\ use'[d] = use[d] /\ pc'[d] = pc[d]
        BY <1>2, <1>3, <1>4, <2>1, <3>2 DEF HasCommand
      <4>2. PICK m \in Nat : /\ Drawn(sent[d].nonce, use[d], m)
                             /\ m <= counterOf[use[d]]
                             /\ pc[d] # "bump" => m < counterOf[use[d]]
        BY <4>1 DEF NoncesAreDrawn
      <4> QED
        BY <1>3, <4>1, <4>2
    <3> QED
      BY <3>1, <3>2
  <2>2. ASSUME NEW f \in Frames, Sent(f)'
        PROVE  \E s \in Runtimes : \E m \in Nat :
                 Drawn(f.nonce, s, m) /\ m < counterOf'[s]
    BY <1>3, <1>5, <2>2 DEF NoncesAreDrawn
  <2> QED
    BY <2>1, <2>2 DEF NoncesAreDrawn, Drawn
<1>11. KeysAreUnique'
  <2>1. ASSUME NEW d \in Clients, d # c, HasCommand(d)
        PROVE  Key(sent[d]) # Key(sent'[c])
    <3> SUFFICES ASSUME sent[d].seq = seqOf[r], sent[d].nonce = compose_nonce(r, n)
                 PROVE  FALSE
      BY <1>2 DEF Key
    <3>1. PICK m \in Nat : /\ m < CounterCap /\ sent[d].nonce = compose_nonce(use[d], m)
                           /\ pc[d] # "bump" => m < counterOf[use[d]]
      BY <2>1 DEF NoncesAreDrawn, Drawn
    <3>2. use[d] \in Nat /\ compose_nonce(use[d], m) = compose_nonce(r, n)
      BY <2>1, <3>1 DEF HasCommand, TypeInv, Holds, Runtimes
    <3>3. use[d] = r /\ m = n
      <4>1. m < CounterCap /\ n < CounterCap /\ r \in Nat
        BY <1>1, <3>1
      <4> QED
        BY <3>2, <4>1, NoncesDiffer
    <3>4. d \in Drawing(r)
      BY <1>1, <3>1, <3>3 DEF Drawing
    <3>5. PICK k \in 1..Cardinality(Drawing(r)) : sent[d].seq = Before(seqOf[r], k)
      BY <1>1, <3>4 DEF SequencesAreRecent
    <3>6. k \in 1..(SeqSpace - 1)
      BY <1>8, ConstantsAssumption DEF TransactionAssumption
    <3> QED
      BY <1>1, <3>5, <3>6, OneFurtherBack
  <2>2. ASSUME NEW f \in Frames, Sent(f) PROVE Key(f) # Key(sent'[c])
    <3> SUFFICES ASSUME f.nonce = compose_nonce(r, n) PROVE FALSE
      BY <1>2 DEF Key
    <3>1. PICK s \in Runtimes, m \in Nat :
            m < CounterCap /\ f.nonce = compose_nonce(s, m) /\ m < counterOf[s]
      BY <2>2 DEF NoncesAreDrawn, Drawn
    <3>2. s \in Nat /\ compose_nonce(s, m) = compose_nonce(r, n)
      BY <3>1 DEF Runtimes
    <3>3. s = r /\ m = n
      <4>1. m < CounterCap /\ n < CounterCap /\ r \in Nat
        BY <1>1, <3>1
      <4> QED
        BY <3>2, <4>1, NoncesDiffer
    <3> QED
      BY <3>1, <3>3
  <2>3. ASSUME NEW d \in Clients, NEW e \in Clients, HasCommand(d)', HasCommand(e)',
               Key(sent'[d]) = Key(sent'[e])
        PROVE  d = e
    <3>1. \A a \in Clients \ {c} : HasCommand(a)' <=> HasCommand(a)
      BY <1>4 DEF HasCommand
    <3> QED
      BY <1>2, <2>1, <2>3, <3>1 DEF KeysAreUnique
  <2>4. ASSUME NEW f \in Frames, NEW d \in Clients, Sent(f)', HasCommand(d)',
               Key(f) = Key(sent'[d])
        PROVE  f = sent'[d]
    <3>1. Sent(f)
      BY <1>5, <2>4
    <3>2. d # c
      BY <2>2, <2>4, <3>1
    <3>3. HasCommand(d) /\ sent'[d] = sent[d]
      BY <1>2, <1>4, <2>4, <3>2 DEF HasCommand
    <3> QED
      BY <2>4, <3>1, <3>3 DEF KeysAreUnique
  <2> QED
    BY <2>3, <2>4 DEF KeysAreUnique
<1> QED
  BY <1>9, <1>10, <1>11

\* When the counter moves on, nobody has the next nonce yet.
LEMMA BumpKeepsKeys ==
  ASSUME TypeInv, NoncesAreDrawn, SequencesAreRecent, KeysAreUnique,
         NEW c \in Clients, BumpCounter(c)
  PROVE  NoncesAreDrawn' /\ SequencesAreRecent' /\ KeysAreUnique'
<1>0. pc[c] = "bump" /\ use[c] \in Runtimes
  BY DEF BumpCounter, TypeInv, Holds
<1> PICK r \in Runtimes : r = use[c]
  BY <1>0
<1>1. /\ pc[c] = "bump" /\ r \in Nat /\ counterOf[r] \in Nat
      /\ \A s \in Runtimes : counterOf[s] \in Nat
      /\ CounterCap \in Nat
      /\ \A d \in Clients : HasCommand(d) => use[d] \in Runtimes
  <2>1. /\ r \in Nat /\ CounterCap \in Nat
        /\ \A s \in Runtimes : counterOf[s] \in Nat
    BY ConstantsAssumption DEF TypeInv, TypeOK, Runtimes, TransactionAssumption
  <2>2. \A d \in Clients : HasCommand(d) => use[d] \in Runtimes
    BY DEF TypeInv, Holds, HasCommand
  <2> QED
    BY <1>0, <2>1, <2>2
<1>2. /\ counterOf'[r] = counterOf[r] + 1
      /\ \A s \in Runtimes \ {r} : counterOf'[s] = counterOf[s]
      /\ UNCHANGED <<seqOf, sent, use, wire, answered>>
  BY <1>1 DEF BumpCounter, TypeInv, TypeOK, network
<1>3. pc'[c] = "send" /\ \A d \in Clients \ {c} : pc'[d] = pc[d]
  BY DEF BumpCounter, Goto, TypeInv, TypeOK
<1>4. \A d \in Clients : HasCommand(d)' <=> HasCommand(d)
  BY <1>1, <1>3 DEF HasCommand
<1>5. \A f : Sent(f)' <=> Sent(f)
  BY <1>2 DEF Sent
<1>6. NoncesAreDrawn'
  <2>1. ASSUME NEW d \in Clients, HasCommand(d)'
        PROVE  \E m \in Nat : /\ Drawn(sent'[d].nonce, use'[d], m)
                              /\ m <= counterOf'[use'[d]]
                              /\ pc'[d] # "bump" => m < counterOf'[use'[d]]
    <3>1. use[d] \in Runtimes /\ counterOf[use[d]] \in Nat
      BY <1>1, <1>4, <2>1
    <3>2. PICK m \in Nat : /\ Drawn(sent[d].nonce, use[d], m)
                           /\ m <= counterOf[use[d]]
                           /\ pc[d] # "bump" => m < counterOf[use[d]]
      BY <1>4, <2>1 DEF NoncesAreDrawn
    <3>3. counterOf[use[d]] <= counterOf'[use[d]] /\ counterOf'[use[d]] \in Nat
      <4>1. CASE use[d] = r
        BY <1>1, <1>2, <4>1
      <4>2. CASE use[d] # r
        <5>1. counterOf'[use[d]] = counterOf[use[d]]
          BY <1>2, <3>1, <4>2
        <5> QED
          BY <3>1, <5>1
      <4> QED
        BY <4>1, <4>2
    <3>4. m <= counterOf'[use[d]] /\ (pc'[d] # "bump" => m < counterOf'[use[d]])
      <4>1. CASE d = c
        BY <1>1, <1>2, <3>1, <3>2, <4>1
      <4>2. CASE d # c
        <5>1. pc'[d] = pc[d]
          BY <1>3, <4>2
        <5> QED
          BY <3>1, <3>2, <3>3, <5>1
      <4> QED
        BY <4>1, <4>2
    <3> QED
      BY <1>2, <3>2, <3>4
  <2>2. ASSUME NEW f \in Frames, Sent(f)'
        PROVE  \E s \in Runtimes : \E m \in Nat :
                 Drawn(f.nonce, s, m) /\ m < counterOf'[s]
    <3>1. PICK s \in Runtimes, m \in Nat : Drawn(f.nonce, s, m) /\ m < counterOf[s]
      BY <1>5, <2>2 DEF NoncesAreDrawn
    <3>2. m < counterOf'[s]
      BY <1>1, <1>2, <3>1
    <3> QED
      BY <3>1, <3>2
  <2> QED
    BY <2>1, <2>2 DEF NoncesAreDrawn, Drawn
<1>7. SequencesAreRecent'
  <2>1. Drawing(r)' = {}
    <3> SUFFICES ASSUME NEW d \in Drawing(r)' PROVE FALSE
      OBVIOUS
    <3>1. /\ d \in Clients /\ pc'[d] = "bump" /\ use[d] = r
          /\ sent[d].nonce = compose_nonce(r, counterOf[r] + 1)
      BY <1>2 DEF Drawing
    <3>2. HasCommand(d)
      BY <1>3, <3>1 DEF HasCommand
    <3>3. PICK m \in Nat : sent[d].nonce = compose_nonce(r, m) /\ m <= counterOf[r]
      BY <3>1, <3>2 DEF NoncesAreDrawn, Drawn
    <3>4. r * CounterCap \in Nat
      BY <1>1
    <3>5. r * CounterCap + m = r * CounterCap + (counterOf[r] + 1)
      BY <3>1, <3>3 DEF compose_nonce
    <3> QED
      BY <1>1, <3>3, <3>4, <3>5
  <2>2. ASSUME NEW s \in Runtimes, s # r PROVE Drawing(s)' = Drawing(s)
    BY <1>2, <1>3, <2>2 DEF Drawing
  <2>3. ASSUME NEW s \in Runtimes, NEW d \in Drawing(s)'
        PROVE  \E k \in 1..Cardinality(Drawing(s)') : sent'[d].seq = Before(seqOf'[s], k)
    <3>1. Drawing(s)' = Drawing(s)
      BY <2>1, <2>2
    <3> QED
      BY <1>2, <3>1 DEF SequencesAreRecent
  <2> QED
    BY <2>3 DEF SequencesAreRecent, Before
<1>8. KeysAreUnique'
  BY <1>2, <1>4, <1>5 DEF KeysAreUnique, Key
<1> QED
  BY <1>6, <1>7, <1>8

\* Every step keeps the keys unique.
LEMMA StepKeys ==
  ASSUME FewClients, TypeInv, NoncesAreDrawn, SequencesAreRecent, KeysAreUnique,
         [Next]_vars
  PROVE  NoncesAreDrawn' /\ SequencesAreRecent' /\ KeysAreUnique'
<1>0. /\ pc \in [Clients -> {"idle", "listen", "bind", "allocate", "bump", "send",
                             "register", "wait"}]
      /\ use \in [Clients -> 0..built]
      /\ sent \in [Clients -> Frames \cup {NoCommand}]
      /\ seqOf \in [Runtimes -> 0..(SeqSpace - 1)]
  BY DEF TypeInv, TypeOK
<1>1. ASSUME NEW c \in Clients, Allocate(c) \/ BumpCounter(c)
      PROVE  NoncesAreDrawn' /\ SequencesAreRecent' /\ KeysAreUnique'
  BY <1>1, AllocateKeepsKeys, BumpKeepsKeys
<1>2. ASSUME NEW c \in Clients,
             Begin(c) \/ CheckListener(c) \/ OpenListener(c) \/ OpenFails(c)
               \/ SendFails(c) \/ Register(c) \/ ReceiveOwnAck(c)
               \/ ReceiveOtherAck(c) \/ ReceiveInvalid(c) \/ ListenerLost(c)
               \/ Retry(c) \/ GiveUp(c)
      PROVE  NoncesAreDrawn' /\ SequencesAreRecent' /\ KeysAreUnique'
  <2>1. UNCHANGED <<counterOf, seqOf, wire, answered>>
    BY <1>2 DEF Begin, CheckListener, OpenListener, OpenFails, SendFails, Register,
         ReceiveOwnAck, ReceiveOtherAck, ReceiveInvalid, ListenerLost, Retry, GiveUp,
         shared, network
  <2>2. \A d \in Clients : HasCommand(d)' =>
          HasCommand(d) /\ sent'[d] = sent[d] /\ use'[d] = use[d]
    BY <1>0, <1>2 DEF Begin, CheckListener, OpenListener, OpenFails, SendFails, Register,
         ReceiveOwnAck, ReceiveOtherAck, ReceiveInvalid, ListenerLost, Retry, GiveUp,
         Finish, Goto, HasCommand
  <2>3. \A d \in Clients : pc'[d] = "bump" <=> pc[d] = "bump"
    BY <1>0, <1>2 DEF Begin, CheckListener, OpenListener, OpenFails, SendFails, Register,
         ReceiveOwnAck, ReceiveOtherAck, ReceiveInvalid, ListenerLost, Retry, GiveUp,
         Finish, Goto
  <2>4. \A f : Sent(f)' => Sent(f)
    BY <2>1 DEF Sent
  <2> QED
    BY <2>1, <2>2, <2>3, <2>4, NothingDrawn
<1>3. ASSUME NEW c \in Clients, Send(c)
      PROVE  NoncesAreDrawn' /\ SequencesAreRecent' /\ KeysAreUnique'
  <2>1. /\ pc[c] = "send" /\ pc' = [pc EXCEPT ![c] = "register"]
        /\ wire' = wire \cup {sent[c]}
        /\ UNCHANGED <<counterOf, seqOf, sent, use, answered>>
    BY <1>3 DEF Send, Goto, shared
  <2>2. \A d \in Clients : HasCommand(d)' => HasCommand(d)
    BY <1>0, <2>1 DEF HasCommand
  <2>3. \A d \in Clients : pc'[d] = "bump" <=> pc[d] = "bump"
    BY <1>0, <2>1
  <2>4. \A f : Sent(f)' => Sent(f) \/ \E d \in Clients : pc[d] = "send" /\ f = sent[d]
    BY <2>1 DEF Sent
  <2> QED
    BY <2>1, <2>2, <2>3, <2>4, NothingDrawn
<1>4. ASSUME NEW c \in Clients, CounterExhausted(c)
      PROVE  NoncesAreDrawn' /\ SequencesAreRecent' /\ KeysAreUnique'
  <2>1. /\ pc[c] = "allocate" /\ counterOf[use[c]] >= CounterCap
        /\ seqOf' = [seqOf EXCEPT ![use[c]] = (@ + 1) % SeqSpace]
        /\ UNCHANGED <<counterOf, use, wire, answered>>
    BY <1>4 DEF CounterExhausted, network
  <2>2. use[c] \in Runtimes
    BY <2>1 DEF TypeInv, Holds
  <2>3. \A r \in Runtimes : seqOf'[r] = seqOf[r] \/ Drawing(r) = {}
    BY <1>0, <2>1, <2>2, NobodyDrawsWhenUsedUp
  <2>4. \A d \in Clients : HasCommand(d)' => HasCommand(d) /\ sent'[d] = sent[d]
    BY <1>0, <1>4 DEF CounterExhausted, Finish, Goto, HasCommand
  <2>5. \A d \in Clients : pc'[d] = "bump" <=> pc[d] = "bump"
    BY <1>0, <1>4 DEF CounterExhausted, Finish, Goto
  <2>6. \A f : Sent(f)' => Sent(f)
    BY <2>1 DEF Sent
  <2> QED
    BY <2>1, <2>3, <2>4, <2>5, <2>6, NothingDrawn
<1>5. CASE \/ StartSession \/ StopSession \/ NodeAnswers \/ LoseCommand \/ LoseAck
           \/ UNCHANGED vars
  <2>1. UNCHANGED <<pc, use, sent, seqOf, counterOf>>
    BY <1>5 DEF StartSession, StopSession, NodeAnswers, Answer, LoseCommand,
                LoseAck, shared, vars
  <2>2. \A f : Sent(f)' => Sent(f)
    <3>1. CASE NodeAnswers
      <4>1. PICK g \in wire, v \in Verdicts : Answer(g, v)
        BY <3>1 DEF NodeAnswers
      <4>2. answered' = answered \cup {[frame |-> g, status |-> v]} /\ wire' \subseteq wire
        BY <4>1 DEF Answer
      <4> QED
        BY <4>2 DEF Sent
    <3>2. CASE \/ StartSession \/ StopSession \/ LoseCommand \/ LoseAck \/ UNCHANGED vars
      <4>1. wire' \subseteq wire /\ answered' = answered
        BY <3>2 DEF StartSession, StopSession, LoseCommand, LoseAck, network, vars
      <4> QED
        BY <4>1 DEF Sent
    <3> QED
      BY <1>5, <3>1, <3>2
  <2>3. \A d \in Clients : HasCommand(d)' => HasCommand(d)
    BY <2>1 DEF HasCommand
  <2> QED
    BY <2>1, <2>2, <2>3, NothingDrawn
<1> QED
  BY <1>1, <1>2, <1>3, <1>4, <1>5 DEF Next, ClientStep

\* An ACK is made only of an answer, and answers are not forgotten.
LEMMA StepAcks ==
  ASSUME AcksAreAnswers, [Next]_vars
  PROVE  AcksAreAnswers' /\ answered \subseteq answered'
<1>1. CASE NodeAnswers
  <2>1. PICK f \in wire, v \in Verdicts : Answer(f, v)
    BY <1>1 DEF NodeAnswers
  <2> DEFINE x == [frame |-> f, status |-> v]
             a == [node |-> f.node, cmd |-> f.cmd, seq |-> f.seq,
                   nonce |-> f.nonce, status |-> v]
  <2>2. answered' = answered \cup {x} /\ acks' = acks \cup {a}
    BY <2>1 DEF Answer
  <2>3. x.status = a.status /\ Key(x.frame) = Key(a)
    BY DEF Key
  <2> HIDE DEF x, a
  <2> QED
    BY <2>2, <2>3 DEF AcksAreAnswers
<1>2. CASE ~NodeAnswers
  <2>1. acks' \subseteq acks /\ answered' = answered
    <3>1. ASSUME NEW c \in Clients, Begin(c) \/ ClientStep(c)
          PROVE  acks' \subseteq acks /\ answered' = answered
      BY <3>1 DEF ClientStep, Begin, CheckListener, OpenListener, OpenFails,
         Allocate, CounterExhausted, BumpCounter, Send, SendFails, Register,
         ReceiveOwnAck, ReceiveOtherAck, ReceiveInvalid, ListenerLost, Retry, GiveUp, network
    <3>2. CASE StartSession \/ StopSession \/ LoseCommand \/ LoseAck \/ UNCHANGED vars
      BY <3>2 DEF StartSession, StopSession, LoseCommand, LoseAck, network, vars
    <3> QED
      BY <1>2, <3>1, <3>2 DEF Next
  <2> QED
    BY <2>1 DEF AcksAreAnswers
<1> QED
  BY <1>1, <1>2

\* A transaction that ends with a verdict ends with one a node gave to its own
\* command: the key of the ACK it took is the key of no other.
LEMMA StepVerdict ==
  ASSUME TypeInv, AcksAreAnswers, KeysAreUnique, VerdictIsForThisCommand, [Next]_vars
  PROVE  VerdictIsForThisCommand'
<1>0. /\ outcome \in [Clients -> [status : Verdicts \cup LocalOutcomes,
                                  frame : Frames \cup {NoCommand}]]
      /\ answered \subseteq [frame : Frames, status : Verdicts]
      /\ Verdicts \cap LocalOutcomes = {}
      /\ {"none", "LISTENER_NOT_RUNNING", "SEND_ERROR", "TIMEOUT", "INVALID_ACK_SEEN",
          "UNMATCHED_ACK_SEEN"} \subseteq LocalOutcomes
  BY ConstantsAssumption DEF TypeInv, TypeOK, TransactionAssumption, LocalOutcomes
<1>1. answered \subseteq answered'
  BY StepAcks
<1>2. ASSUME NEW c \in Clients, outcome'[c].status \in Verdicts => outcome'[c] \in answered',
             \A d \in Clients \ {c} : outcome'[d] = outcome[d]
      PROVE  VerdictIsForThisCommand'
  BY <1>1, <1>2 DEF VerdictIsForThisCommand
<1>3. ASSUME NEW c \in Clients, NEW status \in LocalOutcomes, Finish(c, status)
      PROVE  VerdictIsForThisCommand'
  <2>1. /\ outcome'[c].status = status
        /\ \A d \in Clients \ {c} : outcome'[d] = outcome[d]
    BY <1>0, <1>3 DEF Finish
  <2>2. outcome'[c].status \notin Verdicts
    BY <1>0, <2>1
  <2> QED
    BY <1>2, <2>1, <2>2
<1>4. ASSUME NEW c \in Clients,
             OpenFails(c) \/ CounterExhausted(c) \/ SendFails(c) \/ ListenerLost(c) \/ GiveUp(c)
      PROVE  VerdictIsForThisCommand'
  <2>1. FinalStatus(c) \in LocalOutcomes
    BY <1>0 DEF FinalStatus
  <2> QED
    BY <1>0, <1>3, <1>4, <2>1
       DEF OpenFails, CounterExhausted, SendFails, ListenerLost, GiveUp
<1>5. ASSUME NEW c \in Clients, ReceiveOwnAck(c) PROVE VerdictIsForThisCommand'
  <2>1. PICK a \in acks : Key(a) = Key(sent[c]) /\ Finish(c, a.status)
    BY <1>5 DEF ReceiveOwnAck
  <2>2. PICK x \in answered : x.status = a.status /\ Key(x.frame) = Key(a)
    BY DEF AcksAreAnswers
  <2>3. HasCommand(c) /\ Sent(x.frame) /\ x.frame \in Frames
    BY <1>0, <1>5 DEF ReceiveOwnAck, HasCommand, Sent
  <2>4. x.frame = sent[c]
    BY <2>1, <2>2, <2>3 DEF KeysAreUnique
  <2>5. /\ outcome'[c] = [status |-> a.status, frame |-> sent[c]]
        /\ \A d \in Clients \ {c} : outcome'[d] = outcome[d]
    BY <1>0, <2>1 DEF Finish
  <2>6. x = [status |-> a.status, frame |-> sent[c]]
    BY <1>0, <2>2, <2>4
  <2> QED
    BY <1>1, <1>2, <2>5, <2>6
<1>6. ASSUME NEW c \in Clients, Begin(c) PROVE VerdictIsForThisCommand'
  <2>1. /\ outcome'[c].status = "none"
        /\ \A d \in Clients \ {c} : outcome'[d] = outcome[d]
    BY <1>0, <1>6 DEF Begin, NoOutcome
  <2> QED
    BY <1>0, <1>2, <2>1
<1>7. CASE outcome' = outcome
  BY <1>1, <1>7 DEF VerdictIsForThisCommand
<1> QED
  BY <1>4, <1>5, <1>6, <1>7 DEF Next, ClientStep, CheckListener, OpenListener,
     Allocate, BumpCounter, Send, Register, ReceiveOtherAck, ReceiveInvalid,
     Retry, StartSession, StopSession, NodeAnswers, Answer, LoseCommand, LoseAck, vars

\* Initially nobody has a command.
LEMMA InitIdentityInv == Init => IdentityInv
<1> SUFFICES ASSUME Init PROVE IdentityInv
  OBVIOUS
<1>1. \A c \in Clients : ~HasCommand(c)
  BY DEF Init, HasCommand
<1>2. \A f : ~Sent(f)
  BY DEF Init, Sent
<1>3. \A r \in Runtimes : Drawing(r) = {}
  BY DEF Init, Drawing
<1>4. VerdictIsForThisCommand
  BY ConstantsAssumption
     DEF Init, VerdictIsForThisCommand, NoOutcome, TransactionAssumption, LocalOutcomes
<1>5. AcksAreAnswers
  BY DEF Init, AcksAreAnswers
<1> QED
  BY <1>1, <1>2, <1>3, <1>4, <1>5
     DEF IdentityInv, NoncesAreDrawn, SequencesAreRecent, KeysAreUnique

\* A transaction that reports a node's verdict reports the one that node gave
\* to this very command, however many clients share the port, whatever the
\* network repeats, loses or delays, and however often the runtime is replaced
\* (correlate_parsed_ack, _same_command_identity), as long as there are no more
\* threads than sequence numbers.
THEOREM VerdictsAreForTheirCommands ==
  FewClients /\ Spec => []VerdictIsForThisCommand
<1> DEFINE I == TypeInv /\ IdentityInv
<1>1. Init => I
  BY InitTypeInv, InitIdentityInv
<1>2. FewClients /\ I /\ [Next]_vars => I'
  <2> SUFFICES ASSUME FewClients, TypeInv, IdentityInv, [Next]_vars
               PROVE  TypeInv' /\ IdentityInv'
    OBVIOUS
  <2>1. TypeInv'
    BY StepTypeInv
  <2>2. NoncesAreDrawn' /\ SequencesAreRecent' /\ KeysAreUnique'
    BY StepKeys DEF IdentityInv
  <2>3. AcksAreAnswers'
    BY StepAcks DEF IdentityInv
  <2>4. VerdictIsForThisCommand'
    BY StepVerdict DEF IdentityInv
  <2> QED
    BY <2>1, <2>2, <2>3, <2>4 DEF IdentityInv
<1>3. I => VerdictIsForThisCommand
  BY DEF IdentityInv
<1> HIDE DEF I
<1> SUFFICES ASSUME FewClients PROVE Spec => []VerdictIsForThisCommand
  OBVIOUS
<1>4. I /\ [Next]_vars => I'
  BY <1>2
<1> QED
  BY <1>1, <1>3, <1>4, PTL DEF Spec

=============================================================================
