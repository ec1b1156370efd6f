--------------------------- MODULE RemoteCommand ---------------------------
(***************************************************************************)
(* What the control plane promises to whoever sends a command: a command   *)
(* is run only if somebody asked for it, at most once between two restarts *)
(* of its node, and is reported as OK only if it was run.  It may be run   *)
(* although its failure was reported, and even after that.                 *)
(***************************************************************************)
EXTENDS Sequences

CONSTANTS
  Clients,   \* who asks
  Commands,  \* identities a command may get
  Failures   \* what is reported of a command that is not known to have run

VARIABLES
  asked,     \* each client's open command: none, a new one, or its identity
  result,    \* what each client was told last
  numbered,  \* the identities given so far
  ranNow,    \* commands run since the node's last restart, in order
  ranEver    \* commands run

NoCommand == <<"none">>
NewCommand == <<"new">>

remoteVars == <<asked, result, numbered, ranNow, ranEver>>

Init ==
  /\ asked = [c \in Clients |-> NoCommand]
  /\ result = [c \in Clients |-> "none"]
  /\ numbered = {} /\ ranNow = <<>> /\ ranEver = {}

Ask(c) ==
  /\ asked[c] = NoCommand
  /\ asked' = [asked EXCEPT ![c] = NewCommand]
  /\ result' = [result EXCEPT ![c] = "none"]
  /\ UNCHANGED <<numbered, ranNow, ranEver>>

\* An identity is never given twice.
Identify(c) ==
  /\ asked[c] = NewCommand
  /\ asked'[c] \in Commands \ numbered
  /\ asked' = [asked EXCEPT ![c] = asked'[c]]
  /\ numbered' = numbered \cup {asked'[c]}
  /\ UNCHANGED <<result, ranNow, ranEver>>

Run ==
  /\ \E k \in numbered \ {ranNow[i] : i \in DOMAIN ranNow} :
       ranNow' = Append(ranNow, k) /\ ranEver' = ranEver \cup {k}
  /\ UNCHANGED <<asked, result, numbered>>

Restart ==
  /\ ranNow' = <<>>
  /\ UNCHANGED <<asked, result, numbered, ranEver>>

Close(c, word) ==
  /\ asked[c] # NoCommand
  /\ asked' = [asked EXCEPT ![c] = NoCommand]
  /\ result' = [result EXCEPT ![c] = word]
  /\ UNCHANGED <<numbered, ranNow, ranEver>>

ReportOk(c) == asked[c] \in ranEver /\ Close(c, "OK")
ReportFailure(c) == result'[c] \in Failures /\ Close(c, result'[c])

\* Every step of a client changes what it asks for.
Next ==
  \/ \E c \in Clients :
       /\ asked'[c] # asked[c]
       /\ Ask(c) \/ Identify(c) \/ ReportOk(c) \/ ReportFailure(c)
  \/ Run \/ Restart

Spec == Init /\ [][Next]_remoteVars
=============================================================================
