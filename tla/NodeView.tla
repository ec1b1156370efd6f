------------------------------ MODULE NodeView ------------------------------
(***************************************************************************)
(* Where a node is and what is said of it.  The UDP backend keeps one      *)
(* summary of the last EVT and one of the last STAT, of whichever node.    *)
(* The session controller copies them into a cache of addresses by node    *)
(* whenever somebody looks (the interface's timer, a request of the remote *)
(* API, a command), and the cache is where a command's address and the     *)
(* state shown for a node come from.  Looking is two steps: the summaries  *)
(* are read under the backend's lock, the cache is written without one.    *)
(***************************************************************************)
EXTENDS Integers, FiniteSets

CONSTANTS
    Nodes,      \* the nodes
    Addresses,  \* the addresses they may have; more than 0
    StaleAfter, \* after how many ticks an address is stale
    Polls,      \* looks a command takes at the summaries before it gives up
    MaxTime, Packets, Moves, Commands, Views, Sessions  \* bounds

NodeViewAssumption ==
    /\ Nodes \subseteq Nat \ {0} /\ Addresses \subseteq Nat \ {0}
    /\ Nodes # {} /\ Addresses # {}
    /\ {StaleAfter, Polls, MaxTime, Packets, Moves, Commands, Views, Sessions} \subseteq Nat

VARIABLES
    up,       \* a session with the UDP backend runs
    address,  \* where each node is
    summary,  \* the backend's last EVT and last STAT
    cache,    \* the address of each node, as last copied
    looks,    \* of each thread that looks: the summaries it has read
    cmd,      \* the command of the worker
    reboots,  \* nodes with a reboot verification in this session
    results,  \* how each node's last command ended
    view,     \* what was shown last
    heard,    \* when each node was last heard from each address; -1: never
    source,   \* the address each node was last heard from in this session
    now, left

vars == <<up, address, summary, cache, looks, cmd, reboots, results, view, heard, source, now, left>>

Nowhere == [ip |-> 0, at |-> -1]

NoPacket == [node |-> 0, ip |-> 0, at |-> -1]

NoSummary == [evt |-> NoPacket, stat |-> NoPacket]

Lookers == {"gui", "http", "cmd"}

NoLook == [busy |-> FALSE, seen |-> NoSummary, now |-> 0]

(* ip 0: no address yet, or none found; before: heard at the click, and where last *)
NoCommand == [at |-> "idle", node |-> 0, ip |-> 0, polls |-> 0, before |-> 0, of |-> 0]

NoView == [node |-> 0, ip |-> 0, status |-> "unresolved", message |-> "none", at |-> 0, active |-> FALSE]

Init ==
    /\ up = FALSE
    /\ address \in [Nodes -> Addresses]
    /\ summary = NoSummary
    /\ cache = [n \in Nodes |-> Nowhere]
    /\ looks = [t \in Lookers |-> NoLook]
    /\ cmd = NoCommand
    /\ reboots = {}
    /\ results = [n \in Nodes |-> "none"]
    /\ view = NoView
    /\ heard = [n \in Nodes |-> [a \in Addresses |-> -1]]
    /\ source = [n \in Nodes |-> 0]
    /\ now = 0
    /\ left = [packets |-> Packets, moves |-> Moves, commands |-> Commands,
               views |-> Views, sessions |-> Sessions]

Spend(what) == left[what] > 0 /\ left' = [left EXCEPT ![what] = @ - 1]

-----------------------------------------------------------------------------
(* The garden.                                                             *)

Packet(kind, n) ==
    LET p == [node |-> n, ip |-> address[n], at |-> now] IN
    /\ up /\ Spend("packets")
    /\ summary' = [summary EXCEPT ![kind] = p]
    /\ heard' = [heard EXCEPT ![n][address[n]] = now]
    /\ source' = [source EXCEPT ![n] = address[n]]
    /\ UNCHANGED <<up, address, cache, looks, cmd, reboots, results, view, now>>

(* the network gives a node another address *)
Move(n, a) ==
    /\ Spend("moves") /\ address[n] # a
    /\ address' = [address EXCEPT ![n] = a]
    /\ UNCHANGED <<up, summary, cache, looks, cmd, reboots, results, view, heard, source, now>>

Tick ==
    /\ now < MaxTime
    /\ now' = now + 1
    /\ UNCHANGED <<up, address, summary, cache, looks, cmd, reboots, results, view, heard, source, left>>

-----------------------------------------------------------------------------
(* Sessions.                                                               *)

Forgotten ==
    /\ cache' = [n \in Nodes |-> Nowhere]
    /\ reboots' = {}
    /\ results' = [n \in Nodes |-> "none"]
    /\ source' = [n \in Nodes |-> 0]

Start ==
    /\ ~ up /\ Spend("sessions") /\ ~ looks["gui"].busy
    /\ up' = TRUE
    /\ summary' = NoSummary
    /\ Forgotten
    /\ UNCHANGED <<address, looks, cmd, view, heard, now>>

Stop ==
    /\ up /\ ~ looks["gui"].busy
    /\ up' = FALSE
    /\ summary' = NoSummary
    /\ Forgotten
    /\ UNCHANGED <<address, looks, cmd, view, heard, now, left>>

-----------------------------------------------------------------------------
(* Looking.                                                                *)

Copied(c, p) == IF p.node = 0 THEN c ELSE [c EXCEPT ![p.node] = [ip |-> p.ip, at |-> p.at]]

SlipRefreshed(c, seen) ==                   \* SLIP: the STAT's node at the EVT's address
    Copied(Copied(c, seen.evt), [seen.stat EXCEPT !.ip = IF seen.evt.node = 0 THEN @ ELSE seen.evt.ip])

(* the EVT's node first, the STAT's node after it *)
Refreshed(c, seen) == Copied(Copied(c, seen.evt), seen.stat)

BeginLook(t) ==
    /\ up /\ ~ looks[t].busy
    /\ looks' = [looks EXCEPT ![t] = [busy |-> TRUE, seen |-> summary, now |-> now]]

EndLook(t) ==
    /\ looks[t].busy
    /\ cache' = Refreshed(cache, looks[t].seen)
    /\ looks' = [looks EXCEPT ![t] = NoLook]

(* the interface's timer, every time it refreshes *)
GuiLooks ==
    /\ BeginLook("gui")
    /\ UNCHANGED <<up, address, summary, cache, cmd, reboots, results, view, heard, source, now, left>>

GuiCopies ==
    /\ EndLook("gui")
    /\ UNCHANGED <<up, address, summary, cmd, reboots, results, view, heard, source, now, left>>

HttpLooks ==
    /\ BeginLook("http") /\ Spend("views")
    /\ UNCHANGED <<up, address, summary, cache, cmd, reboots, results, view, heard, source, now>>

(* _resolve_resolution_status, with the time taken before looking *)
StatusOf(entry, time) ==
    IF entry.ip = 0 THEN "unresolved"
    ELSE IF time - entry.at > StaleAfter THEN "stale" ELSE "resolved"

Active(n) == cmd.at = "wait" /\ cmd.node = n

(* _resolve_message: the summary of a reboot verification before all else *)
MessageOf(n, status) ==
    CASE n \in reboots -> "reboot"
      [] n \notin reboots /\ Active(n) -> "active"
      [] n \notin reboots /\ ~ Active(n) /\ results[n] = "error" -> "error"
      [] n \notin reboots /\ ~ Active(n) /\ results[n] # "error" ->
            IF status # "resolved" THEN status
            ELSE IF results[n] = "ok" THEN "final" ELSE "ready"

(* the end of the request: the cache is written and the node's state is built *)
HttpShows(n) ==
    /\ EndLook("http")
    /\ LET status == StatusOf(cache'[n], looks["http"].now) IN
       view' = [node |-> n, ip |-> cache'[n].ip, status |-> status,
                message |-> MessageOf(n, status), at |-> looks["http"].now, active |-> Active(n)]
    /\ UNCHANGED <<up, address, summary, cmd, reboots, results, heard, source, now, left>>

-----------------------------------------------------------------------------
(* A command, in the worker's thread.                                      *)

Click(n) ==
    /\ up /\ cmd.at = "idle" /\ Spend("commands")
    /\ cmd' = [NoCommand EXCEPT !.at = "cache", !.node = n, !.polls = Polls,
                                !.before = source[n], !.of = left.sessions]
    /\ UNCHANGED <<up, address, summary, cache, looks, reboots, results, view, heard, source, now>>

(* the cached address whatever its age; else another look while there is time *)
FromCache ==
    /\ cmd.at = "cache" /\ ~ looks["cmd"].busy
    /\ \/ /\ cache[cmd.node].ip # 0
          /\ cmd' = [cmd EXCEPT !.at = "wait", !.ip = cache[cmd.node].ip]
       \/ /\ cache[cmd.node].ip = 0 /\ cmd.polls > 0
          /\ cmd' = [cmd EXCEPT !.at = "look"]
       \/ /\ cache[cmd.node].ip = 0 /\ cmd.polls = 0
          /\ cmd' = [cmd EXCEPT !.at = "refused"]
    /\ UNCHANGED <<up, address, summary, cache, looks, reboots, results, view, heard, source, now, left>>

(* without a backend there is nothing to look at, and the time passes *)
CommandLooks ==
    /\ cmd.at = "look"
    /\ \/ BeginLook("cmd")
       \/ ~ up /\ UNCHANGED looks
    /\ cmd' = [cmd EXCEPT !.at = "cache", !.polls = @ - 1]
    /\ UNCHANGED <<up, address, summary, cache, reboots, results, view, heard, source, now, left>>

CommandCopies ==
    /\ EndLook("cmd")
    /\ UNCHANGED <<up, address, summary, cmd, reboots, results, view, heard, source, now, left>>

Ended ==
    results' \in IF cmd.at = "refused" THEN {results}
                 ELSE {[results EXCEPT ![cmd.node] = r] :
                       r \in {"error"} \cup (IF cmd.ip = address[cmd.node] THEN {"ok"} ELSE {})}

(* a command may be answered when its node is where it was sent, and only then; *)
(* a refused one raises and leaves no result                                    *)
End ==
    /\ cmd.at \in {"wait", "refused"}
    /\ Ended
    /\ cmd' = NoCommand
    /\ UNCHANGED <<up, address, summary, cache, looks, reboots, view, heard, source, now, left>>

(* the verification of a restart the panel has finished *)
RebootVerified(n) ==
    /\ up /\ cmd.at = "idle" /\ results[n] = "ok" /\ n \notin reboots
    /\ reboots' = reboots \cup {n}
    /\ UNCHANGED <<up, address, summary, cache, looks, cmd, results, view, heard, source, now, left>>

-----------------------------------------------------------------------------

Worker == FromCache \/ CommandLooks \/ CommandCopies \/ End

Next ==
    \/ \E kind \in {"evt", "stat"}, n \in Nodes : Packet(kind, n)
    \/ \E n \in Nodes, a \in Addresses : Move(n, a)
    \/ Tick \/ Start \/ Stop \/ GuiLooks \/ GuiCopies \/ HttpLooks
    \/ \E n \in Nodes : HttpShows(n) \/ Click(n) \/ RebootVerified(n)
    \/ Worker

(* The worker's thread runs until its command is done.                     *)
Spec == Init /\ [][Next]_vars /\ WF_vars(Worker)

-----------------------------------------------------------------------------

Packets_ == [node : Nodes \cup {0}, ip : Addresses \cup {0}, at : -1..MaxTime]

(* Types; an address comes with the time it was heard, nobody is heard in    *)
(* the future, and what is waited for is a command of a node at an address.  *)
TypeOK ==
    /\ up \in BOOLEAN /\ now \in 0..MaxTime
    /\ address \in [Nodes -> Addresses]
    /\ summary.evt \in Packets_ /\ summary.stat \in Packets_
    /\ \A n \in Nodes :
        /\ (cache[n].ip = 0) = (cache[n].at = -1)
        /\ cache[n].at <= now
        /\ results[n] \in {"none", "ok", "error"}
    /\ reboots \subseteq Nodes
    /\ cmd.at \in {"idle", "cache", "look", "wait", "refused"}
    /\ (cmd.at = "idle") = (cmd.node = 0)
    /\ (cmd.at = "wait") = (cmd.ip # 0)
    /\ looks["cmd"].busy => cmd.at = "cache"

(* A node shown as resolved, or as ready, was heard from the address shown   *)
(* no longer ago than the limit, in whatever session (the times are those    *)
(* of the packets, however often the summaries are copied).                  *)
ResolvedMeansHeard ==
    view.status = "resolved" => heard[view.node][view.ip] >= view.at - StaleAfter

(* A command is sent to an address its own node has been heard from, never   *)
(* to another node's (the summaries are of whichever node came last).        *)
TargetIsTheNodes ==
    cmd.at = "wait" => heard[cmd.node][cmd.ip] >= 0

(* A command is refused for want of an address only when its node had not    *)
(* been heard when it was sent.                                              *)
RefusedMeansUnheard ==
    cmd.at = "refused" /\ cmd.of = left.sessions /\ up => cmd.before = 0

(* Every command ends, with the session running or not.                      *)
CommandEnds == cmd.at # "idle" ~> cmd.at = "idle"

(* A command goes to the address its node was last heard from when it was    *)
(* sent: the address is resolved from the state of the active UDP runtime.   *)
TargetIsLastSource ==
    cmd.at = "wait" /\ cmd.before # 0 => cmd.ip = cmd.before

(* While a node's transaction is under way, what is shown of it says so.     *)
ActiveIsShown == view.active => view.message = "active"
=============================================================================
