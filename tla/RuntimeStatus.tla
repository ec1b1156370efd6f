---------------------------- MODULE RuntimeStatus ----------------------------
(***************************************************************************)
(* What the control plane remembers of the last command of each node: the  *)
(* runtime's row, and the controller's own copy of it, written by the      *)
(* command threads and by the panel's poll.                                *)
(*                                                                         *)
(* All nodes share the runtime's 16-bit command numbers.  A command that   *)
(* fails before it is sent has none.  Reading the previous row, choosing   *)
(* and writing it back are not one step: the threads share no lock.        *)
(***************************************************************************)
EXTENDS Naturals, FiniteSets

CONSTANTS
  Threads, Nodes,
  OnePerNode,  \* no two commands to one node are in flight together
  SeqMod,      \* size of the number space: 2^16
  Start,       \* numbers used up before the behaviour begins
  MaxCommands  \* bound: commands of a behaviour, at most half the number space

StatusAssumption ==
  /\ OnePerNode \in BOOLEAN /\ Start \in Nat
  /\ SeqMod \in Nat /\ MaxCommands \in 1..(SeqMod \div 2)

(* A row stands for the n-th command, which had a number or was not sent.  *)
Row == [kind : {"absent", "unsent", "sent"}, n : 0..MaxCommands]
Absent == [kind |-> "absent", n |-> 0]
Seq(r) == (Start + r.n) % SeqMod

(* 16-bit serial arithmetic. *)
IsNewer(a, b) == (a + SeqMod - b) % SeqMod \in 1..(SeqMod \div 2 - 1)

\* Slip: the numbers are compared as integers.
SelectByValue(old, new) ==
  IF old.kind = "absent" \/ (old.kind = new.kind /\ (new.kind = "unsent" \/ Seq(new) >= Seq(old)))
     \/ (old.kind = "unsent" /\ new.kind = "sent")
  THEN new ELSE old
(* A numbered result beats one without a number; of two numbers the newer  *)
(* wins; rows of one command are equally complete and the later one stays. *)
Select(old, new) ==
  CASE old.kind = "absent" -> new
    [] old.kind = "sent" /\ new.kind = "sent" /\ Seq(new) # Seq(old) ->
         IF IsNewer(Seq(new), Seq(old)) THEN new ELSE old
    [] old.kind = "sent" /\ new.kind = "unsent" -> old
    [] OTHER -> new

VARIABLES
  issued,  \* commands begun so far
  thread,  \* each thread: step, node, its command's row, the row it has read
  rows,    \* the runtime's row of each node
  cache,   \* the controller's row of each node
  done,    \* history: rows whose result was handed over to the runtime
  poll     \* the panel's poll: node it updates and the row it has read

vars == <<issued, thread, rows, cache, done, poll>>
AtRest == [pc |-> "rest", node |-> "none", row |-> Absent, prev |-> Absent]

TypeOK ==
  /\ issued \in 0..MaxCommands
  /\ thread \in [Threads -> [pc : {"rest", "tx", "write", "back", "wb1", "last", "wb2"},
                             node : Nodes \cup {"none"}, row : Row, prev : Row]]
  /\ rows \in [Nodes -> Row] /\ cache \in [Nodes -> Row]
  /\ done \in [Nodes -> SUBSET Row]
  /\ poll \in [node : Nodes \cup {"none"}, row : Row, prev : Row]
  /\ \A n \in Nodes : Absent \notin done[n] /\ cache[n] \in done[n] \cup {Absent}

Init ==
  /\ issued = 0 /\ thread = [t \in Threads |-> AtRest]
  /\ rows = [n \in Nodes |-> Absent] /\ cache = rows /\ done = [n \in Nodes |-> {}]
  /\ poll = [node |-> "none", row |-> Absent, prev |-> Absent]

-----------------------------------------------------------------------------
(* send_...: the command gets its number, or fails before it has one. *)
Send(t, n) ==
  /\ thread[t].pc = "rest" /\ issued < MaxCommands
  /\ OnePerNode => \A u \in Threads : thread[u].node # n
  /\ issued' = issued + 1
  /\ \E k \in {"unsent", "sent"} :
       thread' = [thread EXCEPT ![t] = [AtRest EXCEPT !.pc = "tx", !.node = n,
                                        !.row = [kind |-> k, n |-> issued + 1]]]
  /\ UNCHANGED <<rows, cache, done, poll>>

(* _consume_transaction_result. *)
ReadPrevious(t) ==
  LET n == thread[t].node IN
  /\ thread[t].pc = "tx"
  /\ thread' = [thread EXCEPT ![t].pc = "write", ![t].prev = rows[n]]
  /\ done' = [done EXCEPT ![n] = @ \cup {thread[t].row}]
  /\ UNCHANGED <<issued, rows, cache, poll>>
WriteRow(t) ==
  /\ thread[t].pc = "write"
  /\ rows' = [rows EXCEPT ![thread[t].node] = Select(thread[t].prev, thread[t].row)]
  /\ thread' = [thread EXCEPT ![t].pc = "back"]
  /\ UNCHANGED <<issued, cache, done, poll>>

(* _record_control_plane_transaction_result: the runtime's row first, then *)
(* the result itself.  Each upsert reads the cache and writes it later.    *)
ReadForRow(t) ==
  /\ thread[t].pc = "back"
  /\ thread' = [thread EXCEPT ![t].pc = "wb1",
                  ![t].prev = Select(cache[thread[t].node], rows[thread[t].node])]
  /\ UNCHANGED <<issued, rows, cache, done, poll>>
WriteBackRow(t) ==
  /\ thread[t].pc = "wb1"
  /\ cache' = [cache EXCEPT ![thread[t].node] = thread[t].prev]
  /\ thread' = [thread EXCEPT ![t].pc = "last"]
  /\ UNCHANGED <<issued, rows, done, poll>>
ReadForResult(t) ==
  /\ thread[t].pc = "last"
  /\ thread' = [thread EXCEPT ![t].pc = "wb2", ![t].prev = cache[thread[t].node]]
  /\ UNCHANGED <<issued, rows, cache, done, poll>>
WriteBackResult(t) ==
  /\ thread[t].pc = "wb2"
  /\ cache' = [cache EXCEPT ![thread[t].node] = Select(thread[t].prev, thread[t].row)]
  /\ thread' = [thread EXCEPT ![t] = AtRest]
  /\ UNCHANGED <<issued, rows, done, poll>>

(* _absorb_runtime_control_plane_status, of the panel's poll. *)
ReadForPoll(n) ==
  /\ poll.node = "none" /\ rows[n] # Absent
  /\ poll' = [node |-> n, row |-> rows[n], prev |-> cache[n]]
  /\ UNCHANGED <<issued, thread, rows, cache, done>>
\* Slip: a poll only adds rows of nodes the controller has none of.
WritePollOnce ==
  /\ poll.node # "none"
  /\ cache' = IF poll.prev = Absent THEN [cache EXCEPT ![poll.node] = poll.row] ELSE cache
  /\ poll' = [poll EXCEPT !.node = "none"]
  /\ UNCHANGED <<issued, thread, rows, done>>
WritePoll ==
  /\ poll.node # "none"
  /\ cache' = [cache EXCEPT ![poll.node] = Select(poll.prev, poll.row)]
  /\ poll' = [poll EXCEPT !.node = "none"]
  /\ UNCHANGED <<issued, thread, rows, done>>

Step(t) == \/ ReadPrevious(t) \/ WriteRow(t) \/ ReadForRow(t) \/ WriteBackRow(t)
           \/ ReadForResult(t) \/ WriteBackResult(t)
Next == \/ \E t \in Threads : Step(t) \/ \E n \in Nodes : Send(t, n)
        \/ \E n \in Nodes : ReadForPoll(n)
        \/ WritePoll
(* Commands end, and the panel polls on its timer as long as it is open.   *)
Spec == /\ Init /\ [][Next]_vars /\ WF_vars(WritePoll)
        /\ \A t \in Threads : WF_vars(Step(t))
        /\ \A n \in Nodes : SF_vars(ReadForPoll(n))

-----------------------------------------------------------------------------
(* The result of the latest numbered command that was answered for the     *)
(* node, and only without one that of a command that was never sent.       *)
Newest(n, r) ==
  /\ r \in done[n]
  /\ \A d \in done[n] : d.kind = "sent" => r.kind = "sent" /\ r.n >= d.n
Settled(n) == \A t \in Threads : thread[t].node = n => thread[t].pc = "tx"

(* The runtime keeps the newest result of each node, in whatever order     *)
(* the results of several nodes' commands arrive.                          *)
RuntimeKeepsNewest ==
  \A n \in Nodes : Settled(n) /\ done[n] # {} => Newest(n, rows[n])

(* The same, whatever threads command the node.                            *)
NewerIsKept == RuntimeKeepsNewest

(* The panel ends up with what the runtime has: neither a write-back nor a *)
(* poll that has read an older row may undo a newer one for good.          *)
PanelCatchesUp ==
  \A n \in Nodes : (done[n] # {} /\ Settled(n)) ~> Newest(n, cache[n])
=============================================================================
