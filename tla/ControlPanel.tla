---------------------------- MODULE ControlPanel ----------------------------
(***************************************************************************)
(* The node-control panel of the main window: the selector and its filter, *)
(* the one command it has under way, the worker thread that sends it, and  *)
(* the view of a node's last transaction.                                  *)
(*                                                                         *)
(* A command runs in a thread of its own, made for it.  The thread's       *)
(* signals are posted to the thread of the user interface and handled      *)
(* there in their order, between clicks, timers and edits of the filter.   *)
(* Around a REBOOT_SOFT the thread notes the node's last STAT and, once the *)
(* command is accepted, pings the node for up to twelve seconds, asks it   *)
(* for a STAT at every third ping, and decides from the answers and from   *)
(* the STATs whether it restarted.                                         *)
(***************************************************************************)
EXTENDS Integers, Sequences, FiniteSetsExt

CONSTANTS
    Nodes,      \* the nodes of the site: numbers from 1
    Base,       \* those the selector always lists
    Commands,   \* what the operator may click: "REBOOT_SOFT", and "PING" for
                \* every command that ends with its answer
    Probes,     \* pings of a verification
    Runs,       \* clicks that start a command
    Elsewhere,  \* commands sent by another source, the remote API
    Losses,     \* datagrams lost
    Reboots,    \* restarts of a node that nobody asked for
    Sessions,   \* times the session is stopped and started again
    MaxUp,      \* uptime of a node, in units of the comparison's margin
    Filters,    \* the operator types in the search field
    SeqMod      \* command sequence numbers (2^16)

ControlPanelAssumption ==
    /\ Nodes \subseteq Nat \ {0} /\ 1 \in Base /\ Base \subseteq Nodes
    /\ Commands \subseteq {"PING", "REBOOT_SOFT"}
    /\ {Probes, Runs, Elsewhere, Losses, Reboots, Sessions, MaxUp} \subseteq Nat
    /\ Filters \in BOOLEAN
    /\ SeqMod \in Nat /\ SeqMod > 2

VARIABLES
    avail,    \* the nodes detected at the last refresh of the selector
    query,    \* the nodes that pass the filter
    sel,      \* the node in the selector, 0 when it is empty
    held,     \* a thread object is kept: _active_thread
    cur,      \* what the panel's fields say of the command under way
    busy,     \* the buttons are disabled
    worker,   \* the thread
    posted,   \* its signals that the interface has not handled yet
    up, boots, why, alive, asked,   \* the nodes: uptime, restarts, the reason of
              \* the last one, reachable, about to restart
    seen,     \* the last STAT of each node
    session,  \* the session is running
    seq,      \* the last cmd_seq of the runtime
    snap,     \* the runtime's last transaction with each node
    local,    \* the panel's last result for each node
    verdict,  \* what was reported of each node's restart
    left      \* how much of each bound is left

nodeVars == <<up, boots, why, alive, asked>>

selection == <<avail, query, sel>>

vars == <<selection, held, cur, busy, worker, posted, nodeVars, seen, session,
          seq, snap, local, verdict, left>>

Default == 1

Nobody == [id |-> 0, cmd |-> "none", node |-> Default]

NoStat == [up |-> -1, boot |-> 0, why |-> "power"]

NoTx == [seq |-> 0, order |-> 0]

(* The thread: its command, its place, its transaction, the STAT noted      *)
(* before the command, the last uptime looked at, whether a ping went       *)
(* unanswered and a later one was answered, and the pings sent.  The rest   *)
(* is history: the node's restarts when the STAT noted was sent, and when   *)
(* the command was accepted; and a ping unanswered by a node that was up.   *)
Idle == [run |-> Nobody, at |-> "none", tx |-> NoTx, base |-> NoStat, last |-> -1,
         cut |-> FALSE, back |-> FALSE, tries |-> 0,
         since |-> 0, accepted |-> 0, missed |-> FALSE]

Init ==
    /\ avail = {} /\ query = Nodes /\ sel = Default
    /\ held = FALSE /\ cur = Nobody /\ busy = FALSE
    /\ worker = Idle /\ posted = <<>>
    /\ up = [n \in Nodes |-> 0] /\ boots = [n \in Nodes |-> 0]
    /\ why = [n \in Nodes |-> "power"]
    /\ alive = [n \in Nodes |-> TRUE] /\ asked = {}
    /\ seen = [n \in Nodes |-> NoStat]
    /\ session = TRUE /\ seq \in {SeqMod - 1, SeqMod - 2}
    /\ snap = [n \in Nodes |-> NoTx] /\ local = [n \in Nodes |-> NoTx]
    /\ verdict = [n \in Nodes |-> "none"]
    /\ left = [runs |-> Runs, other |-> Elsewhere, losses |-> Losses, reboots |-> Reboots,
               sessions |-> Sessions, order |-> 1]

Spend(what) == left[what] > 0 /\ left' = [left EXCEPT ![what] = @ - 1]

-----------------------------------------------------------------------------
(* The selector.                                                           *)

Options(a, q) == (Base \cup a) \cap q

(* SLIP: the default node is looked for before the one that is selected *)
SlipKeep(node, a, q) ==
    IF Default \in Options(a, q) THEN Default
    ELSE IF node \in Options(a, q) THEN node
    ELSE IF Options(a, q) # {} THEN Min(Options(a, q)) ELSE 0

(* The node that stays selected when the selector is filled again.         *)
Keep(node, a, q) ==
    LET o == Options(a, q) IN
    IF node \in o THEN node
    ELSE IF Default \in o THEN Default
    ELSE IF o \cap a # {} THEN Min(o \cap a)
    ELSE IF o # {} THEN Min(o) ELSE 0

(* An empty selector stands for the default node.                          *)
Target == IF sel = 0 THEN Default ELSE sel

Select ==
    /\ ~busy
    /\ sel' \in Options(avail, query) \ {sel}
    /\ UNCHANGED <<avail, query, held, cur, busy, worker, posted, nodeVars, seen, session, seq, snap, local, verdict, left>>

(* The timer of two seconds, or the button.                                *)
Refresh ==
    /\ avail' \in SUBSET Nodes /\ avail' # avail
    /\ sel' = Keep(Target, avail', query)
    /\ UNCHANGED <<query, held, cur, busy, worker, posted, nodeVars, seen, session, seq, snap, local, verdict, left>>

Search ==
    /\ Filters
    /\ query' \in SUBSET Nodes /\ query' # query
    /\ sel' = Keep(Target, avail, query')
    /\ UNCHANGED <<avail, held, cur, busy, worker, posted, nodeVars, seen, session, seq, snap, local, verdict, left>>

-----------------------------------------------------------------------------
(* A command: the click, the thread and its signals.                       *)

(* _set_busy: the selector and the buttons, all together.                  *)
SetBusy(b) == busy' = b

Click(c) ==
    /\ ~busy /\ ~held
    /\ Spend("runs")
    /\ cur' = [id |-> Runs - left.runs + 1, cmd |-> c, node |-> Target]
    /\ held' = TRUE /\ SetBusy(TRUE)
    /\ worker' = [Idle EXCEPT !.run = cur', !.at = "start"]
    /\ UNCHANGED <<selection, posted, nodeVars, seen, session, seq, snap, local, verdict>>

(* The runtime records a transaction of its own, whatever its outcome.     *)
Transact(n) ==
    /\ seq' = (seq + 1) % SeqMod
    /\ snap' = [snap EXCEPT ![n] = [seq |-> seq', order |-> left.order]]

(* A STAT is taken in.                                                     *)
Hears(n) == seen' = [seen EXCEPT ![n] = [up |-> up[n], boot |-> boots[n], why |-> why[n]]]

(* The node answers, or the datagram or its answer is lost.                *)
Answered(n, ok) == IF ok THEN alive[n] ELSE ~alive[n] \/ left.losses > 0

Lost(n, ok) ==
    left' = [left EXCEPT !.losses = IF ~ok /\ alive[n] THEN @ - 1 ELSE @, !.order = @ + 1]

Post(w, what) ==
    /\ worker' = [w EXCEPT !.at = "quits"]
    /\ posted' = Append(posted, [what |-> what, id |-> w.run.id])

(* SLIP: what raises in the thread is not reported to the panel *)
SlipFails ==
    /\ worker.at \in {"start", "send"} /\ ~session
    /\ worker' = [worker EXCEPT !.at = "quits"]
    /\ UNCHANGED <<selection, held, cur, busy, posted, nodeVars, seen, session, seq, snap, local, verdict, left>>

(* Without a session the controller raises, and so does the thread's call. *)
Fails ==
    /\ worker.at \in {"start", "send"} /\ ~session
    /\ Post(worker, "error")
    /\ UNCHANGED <<selection, held, cur, busy, nodeVars, seen, session, seq, snap, local, verdict, left>>

SendPing ==
    /\ worker.at = "start" /\ session /\ worker.run.cmd = "PING"
    /\ \E ok \in BOOLEAN : Answered(worker.run.node, ok) /\ Lost(worker.run.node, ok)
    /\ Transact(worker.run.node)
    /\ Post([worker EXCEPT !.tx = snap'[worker.run.node]], "result")
    /\ UNCHANGED <<selection, held, cur, busy, nodeVars, seen, session, local, verdict>>

(* What the last STAT said: uptime, reason of the last restart and boot     *)
(* marker, or nothing.                                                      *)
NodeStat(n) == seen[n]

(* Before it sends the command the thread notes them.                       *)
Note ==
    LET s == NodeStat(worker.run.node) IN
    /\ worker.at = "start" /\ session /\ worker.run.cmd = "REBOOT_SOFT"
    /\ worker' = [worker EXCEPT !.at = "send", !.base = s, !.last = s.up,
                     !.since = IF s = NoStat THEN boots[worker.run.node] ELSE s.boot]
    /\ UNCHANGED <<selection, held, cur, busy, posted, nodeVars, seen, session, seq, snap, local, verdict, left>>

SendReboot ==
    LET n == worker.run.node IN
    /\ worker.at = "send" /\ session
    /\ Transact(n)
    /\ \E ok \in BOOLEAN :
          /\ Answered(n, ok) /\ Lost(n, ok)
          /\ asked' \in IF ok THEN {asked \cup {n}} ELSE IF alive[n] THEN {asked, asked \cup {n}} ELSE {asked}
          /\ IF ok
             THEN /\ worker' = [worker EXCEPT !.at = "ping", !.tx = snap'[n], !.accepted = boots[n]]
                  /\ UNCHANGED <<posted, verdict>>
             ELSE /\ verdict' = [verdict EXCEPT ![n] = "not_verified_no_ack"]
                  /\ Post([worker EXCEPT !.tx = snap'[n]], "result")
    /\ UNCHANGED <<selection, held, cur, busy, up, boots, why, alive, seen, session, local>>

(* One turn of the verification is a ping - one that raises counts as not   *)
(* answered -, at every third turn a request for a STAT, and a look at what *)
(* is known by now.                                                         *)
Ping ==
    LET n == worker.run.node IN
    /\ worker.at = "ping"
    /\ \E ok \in BOOLEAN :
          /\ IF session
             THEN Answered(n, ok) /\ Lost(n, ok) /\ Transact(n)
             ELSE ~ok /\ UNCHANGED <<left, seq, snap>>
          /\ worker' = [worker EXCEPT !.at = IF (worker.tries + 1) % 3 = 0 THEN "stat" ELSE "look",
                           !.tries = @ + 1, !.cut = @ \/ ~ok, !.back = worker.cut /\ ok,
                           !.missed = @ \/ (~ok /\ alive[n])]
    /\ UNCHANGED <<selection, held, cur, busy, posted, nodeVars, seen, session, local, verdict>>

(* The node sends one at once; like the answer, it may be lost.             *)
AskForStat ==
    LET n == worker.run.node IN
    /\ worker.at = "stat"
    /\ IF session
       THEN /\ \E ok \in BOOLEAN : Answered(n, ok) /\ Lost(n, ok)
            /\ Transact(n)
            /\ IF alive[n] THEN Hears(n) \/ UNCHANGED seen ELSE UNCHANGED seen
       ELSE UNCHANGED <<left, seq, snap, seen>>
    /\ worker' = [worker EXCEPT !.at = "look"]
    /\ UNCHANGED <<selection, held, cur, busy, posted, nodeVars, session, local, verdict>>

(* SLIP: that there is no STAT at the moment is not looked at *)
SlipDropped(w, s) == w.last # -1 /\ s.up < w.last

(* Evidence in a STAT: the uptime fell since the last one looked at; the    *)
(* reason or the boot marker, of four bits, is not the one noted before the *)
(* command.                                                                 *)
Dropped(w, s) == s # NoStat /\ w.last # -1 /\ s.up < w.last

Changed(w, s) ==
    /\ s # NoStat /\ w.base # NoStat
    /\ s.why # w.base.why \/ s.boot % 16 # w.base.boot % 16

Told(w, s) == Dropped(w, s) \/ Changed(w, s)

(* Without any, a ping unanswered and a later one answered will do.         *)
Look ==
    LET n == worker.run.node
        s == NodeStat(n)
        w == [worker EXCEPT !.last = IF s = NoStat THEN @ ELSE s.up] IN
    /\ worker.at = "look"
    /\ IF Told(worker, s) \/ worker.back \/ worker.tries = Probes
       THEN /\ Post(w, "result")
            /\ verdict' = [verdict EXCEPT ![n] =
                  IF Told(worker, s) \/ worker.back THEN "confirmed"
                  ELSE IF worker.cut THEN "probable" ELSE "not_confirmed"]
       ELSE worker' = [w EXCEPT !.at = "ping"] /\ UNCHANGED <<posted, verdict>>
    /\ UNCHANGED <<selection, held, cur, busy, nodeVars, seen, session, seq, snap, local, left>>

Thread == Fails \/ SendPing \/ Note \/ SendReboot \/ Ping \/ AskForStat \/ Look

(* _register_local_result: shown until the runtime knows a newer one.      *)
Registers(n, tx) == local' = [local EXCEPT ![n] = tx]

(* Handling "finished": the buttons come back, a result is registered for  *)
(* the node, and the thread is told to quit.                               *)
Finish ==
    /\ posted # <<>> /\ Head(posted).what \in {"result", "error"}
    /\ SetBusy(FALSE)
    /\ IF Head(posted).what = "result" THEN Registers(worker.run.node, worker.tx) ELSE UNCHANGED local
    /\ worker' = [worker EXCEPT !.at = "quit"]
    /\ posted' = Tail(posted)
    /\ UNCHANGED <<selection, held, cur, nodeVars, seen, session, seq, snap, verdict, left>>

ThreadEnds ==
    /\ worker.at = "quit"
    /\ worker' = [worker EXCEPT !.at = "none"]
    /\ posted' = Append(posted, [what |-> "over", id |-> worker.run.id])
    /\ UNCHANGED <<selection, held, cur, busy, nodeVars, seen, session, seq, snap, local, verdict, left>>

ThreadFinished ==
    /\ posted # <<>> /\ Head(posted).what = "over"
    /\ held' = FALSE /\ cur' = Nobody
    /\ posted' = Tail(posted)
    /\ UNCHANGED <<selection, busy, worker, nodeVars, seen, session, seq, snap, local, verdict, left>>

(* The bridge of three seconds between a result and the runtime's own.     *)
Forget(n) ==
    /\ local[n] # NoTx
    /\ local' = [local EXCEPT ![n] = NoTx]
    /\ UNCHANGED <<selection, held, cur, busy, worker, posted, nodeVars, seen, session, seq, snap, verdict, left>>

-----------------------------------------------------------------------------
(* The nodes, the session and the other senders.                           *)

Tick(n) ==
    /\ alive[n] /\ up[n] < MaxUp
    /\ up' = [up EXCEPT ![n] = @ + 1]
    /\ UNCHANGED <<selection, held, cur, busy, worker, posted, boots, why, alive, asked, seen, session, seq, snap, local, verdict, left>>

Stat(n) ==
    /\ alive[n] /\ session
    /\ Hears(n)
    /\ UNCHANGED <<selection, held, cur, busy, worker, posted, nodeVars, session, seq, snap, local, verdict, left>>

(* It restarts as it was asked to, or loses its power, and the command it  *)
(* had accepted with it.                                                   *)
Down(n) ==
    /\ alive[n]
    /\ alive' = [alive EXCEPT ![n] = FALSE]
    /\ \/ n \in asked /\ why' = [why EXCEPT ![n] = "soft"] /\ UNCHANGED left
       \/ why' = [why EXCEPT ![n] = "power"] /\ Spend("reboots")
    /\ asked' = asked \ {n}
    /\ UNCHANGED <<selection, held, cur, busy, worker, posted, up, boots, seen, session, seq, snap, local, verdict>>

Up(n) ==
    /\ ~alive[n]
    /\ alive' = [alive EXCEPT ![n] = TRUE]
    /\ boots' = [boots EXCEPT ![n] = @ + 1]
    /\ up' = [up EXCEPT ![n] = 0]
    /\ UNCHANGED <<selection, held, cur, busy, worker, posted, why, asked, seen, session, seq, snap, local, verdict, left>>

Other(n) ==
    /\ session /\ left.other > 0
    /\ Transact(n)
    /\ left' = [left EXCEPT !.other = @ - 1, !.order = @ + 1]
    /\ UNCHANGED <<selection, held, cur, busy, worker, posted, nodeVars, seen, session, local, verdict>>

(* Both ends of a session clear the controller's caches and its runtime;   *)
(* the panel is not told.                                                  *)
Session ==
    /\ IF session THEN Spend("sessions") ELSE UNCHANGED left
    /\ session' = ~session
    /\ seq' = SeqMod - 1
    /\ snap' = [n \in Nodes |-> NoTx]
    /\ seen' = [n \in Nodes |-> NoStat]
    /\ verdict' = [n \in Nodes |-> "none"]
    /\ UNCHANGED <<selection, held, cur, busy, worker, posted, nodeVars, local>>

Next ==
    \/ Select \/ Refresh \/ Search
    \/ \E c \in Commands : Click(c)
    \/ Thread \/ Finish \/ ThreadEnds \/ ThreadFinished
    \/ \E n \in Nodes : Forget(n) \/ Tick(n) \/ Stat(n) \/ Down(n) \/ Up(n) \/ Other(n)
    \/ Session

(* A thread goes on until it ends, and the interface handles its signals.  *)
Spec == Init /\ [][Next]_vars /\ WF_vars(Thread) /\ WF_vars(Finish) /\ WF_vars(ThreadEnds) /\ WF_vars(ThreadFinished)

-----------------------------------------------------------------------------

(* SLIP: sequence numbers are compared as they are *)
SlipNewer(a, b) == a > b

Newer(a, b) == (a - b) % SeqMod \in 1 .. (SeqMod \div 2 - 1)

(* The transaction the panel shows for a node.                             *)
Effective(n) ==
    IF local[n] = NoTx THEN snap[n]
    ELSE IF snap[n] = NoTx \/ Newer(local[n].seq, snap[n].seq) THEN local[n]
    ELSE snap[n]

(* Well-formedness: the buttons are off only while a command is held, and  *)
(* a command is held as long as its thread or one of its signals is.       *)
TypeOK ==
    /\ sel \in Options(avail, query) \cup {0}
    /\ busy => held
    /\ worker.at # "none" \/ posted # <<>> => held
    /\ Len(posted) <= 1
    /\ \A n \in Nodes : seen[n].boot <= boots[n]

(* What the panel logs under the command it has in hand comes from that    *)
(* command's own thread: no signal of an earlier one is left to be handled *)
(* once another has been clicked.                                          *)
SignalsAreOfThisRun == \A i \in DOMAIN posted : posted[i].id = cur.id

(* A restart is reported as confirmed on evidence of two kinds.  A STAT     *)
(* that tells of one is right whatever was lost and whenever the session    *)
(* was stopped: the node restarted after the last STAT the panel had of it  *)
(* when it was about to send the command.  (That may have been before the   *)
(* command: the code cannot tell.)  Silence and an answer are right when    *)
(* every ping of this verification that went unanswered found the node      *)
(* down: it restarted after the command was accepted.                       *)
Confirms == worker.at = "look" /\ worker'.at = "quits" /\ verdict'[worker.run.node] = "confirmed"
RestartIsReal ==
    Confirms => LET n == worker.run.node IN
                IF Told(worker, NodeStat(n)) THEN boots[n] > worker.since
                ELSE worker.missed \/ boots[n] > worker.accepted
ConfirmedMeansRestarted == [][RestartIsReal]_vars

(* A command goes to the node the label names, and to none when the label  *)
(* says that no node matches.                                              *)
TargetIsShown == [][ (held' /\ ~held) => cur'.node = sel ]_vars

(* Filling the selector again, by the timer or by a search that the        *)
(* selected node passes, does not move the selection under the cursor.     *)
SelectedIsKept ==
    (avail' # avail \/ query' # query) /\ sel \in (Base \cup avail') \cap query' => sel' = sel
SelectionStays == [][SelectedIsKept]_vars

(* The panel's own copy of a result bridges the moment until the runtime   *)
(* has it: it never hides a later transaction with the node.               *)
ShownIsLatest ==
    \A n \in Nodes : snap[n] # NoTx => Effective(n).order >= snap[n].order

(* The buttons always come back: after an answer, a loss, an exception and *)
(* a session that stopped in the middle.                                   *)
ButtonsComeBack == busy ~> ~busy
=============================================================================
