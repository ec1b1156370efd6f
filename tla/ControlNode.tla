---------------------------- MODULE ControlNode ----------------------------
(***************************************************************************)
(* The command gate of a sensor node (okua_node_udp_v1.ino): every command *)
(* frame for the node passes, in this order, the authentication tag, the   *)
(* cache of answers already given, the anti-replay window of its source    *)
(* and the source's token bucket; then the command is judged, answered and *)
(* dispatched.  All of this lives in RAM and is gone after a restart.      *)
(* The loop that does it stands still while the Wi-Fi network is away and  *)
(* while a queued update is fetched; millis() runs on.                     *)
(*                                                                         *)
(* Time is counted in ticks of the token refill period (one second).  A    *)
(* frame is a record [src, seq, nonce, cmd, arg, auth, bcast]; frames for  *)
(* other nodes and malformed ones are dropped by the parser and not        *)
(* modelled.  The answer is one word for stage, status and error detail.   *)
(***************************************************************************)
EXTENDS Integers, FiniteSets, Sequences

CONSTANTS
  Sources,      \* source addresses that send frames
  Frames,       \* frames that may arrive
  AllowedArgs,  \* values SET_STAT_RATE and SET_THROTTLE accept
  SourceCap,    \* CONTROL_SOURCE_STATE_CAP
  CacheCap,     \* CONTROL_ACK_CACHE_CAP
  CacheTtl,     \* CONTROL_ACK_CACHE_TTL_MS
  Window,       \* CONTROL_REPLAY_WINDOW_NONCES
  RateCap,      \* CONTROL_RATE_LIMIT_CAPACITY
  RebootDelay,  \* CONTROL_REBOOT_DELAY_MS
  LastArrival,  \* bound: no frame is read and no OTA step taken later in a boot
  Horizon       \* bound: time does not pass further in a boot

Commands == {"PING", "REQUEST_STAT_NOW", "REBOOT_SOFT", "SET", "OTA_CHECK_NOW",
             "SET_PROFILE", "UNKNOWN"}

ASSUME FramesAssumption ==
  Frames \subseteq [src : Sources, seq : Nat, nonce : Nat, cmd : Commands,
                    arg : Nat, auth : BOOLEAN, bcast : BOOLEAN]
ASSUME SourcesAssumption == IsFiniteSet(Sources)
ASSUME LimitsAssumption ==
  /\ SourceCap \in Nat \ {0} /\ CacheCap \in Nat \ {0}
  /\ CacheTtl \in Nat /\ Window \in Nat \ {0} /\ RateCap \in Nat \ {0}
  /\ RebootDelay \in Nat /\ LastArrival \in Nat /\ Horizon \in Nat

VARIABLES
  now,       \* millis() since the boot
  source,    \* g_control_sources, by address
  cache,     \* g_cmd_ack_cache
  rebootAt,  \* g_rebootAtMs, NoReboot when no restart is pending
  setting,   \* g_statIntervalMs and g_plantThrottlePercent
  ota,       \* the OTA state as commands see it: idle, pending (queued),
             \* checking (the loop fetches an image) or verifying
  otaReboot, \* g_pendingRebootRequest: an installed image asks for a restart
  link,      \* environment: the Wi-Fi network is there
  reply,     \* the last ACK sent
  ran,       \* history: the commands dispatched since the boot, in order
  judged,    \* history: nonces the replay window let through since the boot
  spent,     \* history: tokens each source used since its state was created
  born       \* history: when each source's state was created

nodeVars == <<now, source, cache, rebootAt, setting, ota, otaReboot, link,
              reply, ran, judged, spent, born>>

NoReboot == -1
Implemented == Commands \ {"SET_PROFILE", "UNKNOWN"}
BroadcastAllowed == {"PING", "REQUEST_STAT_NOW"}
Refusals == {"RATE_LIMITED", "UNSUPPORTED_CMD", "INVALID_ARG", "BUSY",
             "BROADCAST_NOT_ALLOWED"}
Statuses == Refusals \cup {"OK", "INVALID_AUTH", "NONCE_REUSED",
                           "NONCE_OUT_OF_WINDOW"}

Key(f) == [src |-> f.src, seq |-> f.seq, nonce |-> f.nonce,
           cmd |-> f.cmd, arg |-> f.arg]
Keys == [src : Sources, seq : Nat, nonce : Nat, cmd : Commands, arg : Nat]
Entry(f, status) == [key |-> Key(f), status |-> status, expires |-> now + CacheTtl]
Ack(f, status, dup) == [key |-> Key(f), status |-> status, dup |-> dup]
NoReply == [key |-> "none"]

NoSource == [used |-> FALSE, seenAt |-> 0, init |-> FALSE, max |-> 0,
             seen |-> {}, tokens |-> 0, refilledAt |-> 0]
FreshSource == [used |-> TRUE, seenAt |-> now, init |-> FALSE, max |-> 0,
                seen |-> {}, tokens |-> RateCap, refilledAt |-> now]

Init ==
  /\ now = 0
  /\ source = [s \in Sources |-> NoSource]
  /\ cache = {}
  /\ rebootAt = NoReboot
  /\ setting = 0
  /\ ota \in {"idle", "verifying"}
  /\ otaReboot = FALSE
  /\ link = TRUE
  /\ reply = NoReply
  /\ ran = <<>>
  /\ judged = {}
  /\ spent = [s \in Sources |-> 0]
  /\ born = [s \in Sources |-> 0]

----------------------------------------------------------------------------
(* Source states: the address's own, a free slot, or the slot of an address *)
(* not heard from for the longest time.                                     *)

Used == {s \in Sources : source[s].used}
Oldest == {s \in Used : \A u \in Used : source[s].seenAt <= source[u].seenAt}

SourceTables(s) ==
  IF source[s].used
    THEN {[source EXCEPT ![s].seenAt = now]}
  ELSE IF Cardinality(Used) < SourceCap
    THEN {[source EXCEPT ![s] = FreshSource]}
    ELSE {[source EXCEPT ![v] = NoSource, ![s] = FreshSource] : v \in Oldest}

Created(s) == ~source[s].used

----------------------------------------------------------------------------
(* The anti-replay window: the largest nonce and the distances below it at  *)
(* which a nonce was seen.                                                  *)

Shifted(seen, k) == {d + k : d \in {e \in seen : e + k < Window}}

ReplayDecision(s, n) ==
  IF ~s.init \/ n > s.max THEN "accept"
  ELSE IF s.max - n >= Window THEN "NONCE_OUT_OF_WINDOW"
  ELSE IF s.max - n \in s.seen THEN "NONCE_REUSED"
  ELSE "accept"

\* Slip: a nonce below the largest is not marked.
RecordNonceOfMax(s, n) ==
  IF ~s.init THEN [s EXCEPT !.init = TRUE, !.max = n, !.seen = {0}]
  ELSE IF n > s.max
    THEN [s EXCEPT !.max = n, !.seen = Shifted(s.seen, n - s.max) \cup {0}]
    ELSE s
RecordNonce(s, n) ==
  IF ~s.init THEN [s EXCEPT !.init = TRUE, !.max = n, !.seen = {0}]
  ELSE IF n > s.max
    THEN [s EXCEPT !.max = n, !.seen = Shifted(s.seen, n - s.max) \cup {0}]
    ELSE [s EXCEPT !.seen = @ \cup {s.max - n}]

----------------------------------------------------------------------------
(* The token bucket: one token per tick since the last refill, up to the    *)
(* capacity.                                                                *)

\* Slip: the bucket fills beyond its capacity.
TokensNowUncapped(s) == s.tokens + (now - s.refilledAt)
TokensNow(s) ==
  IF s.tokens + (now - s.refilledAt) > RateCap
    THEN RateCap ELSE s.tokens + (now - s.refilledAt)
Refill(s) == [s EXCEPT !.tokens = TokensNow(s), !.refilledAt = now]
\* Slip: the time of the refill is not kept.
TakeTokenUnstamped(s) == [s EXCEPT !.tokens = TokensNow(s) - 1]
TakeToken(s) == [s EXCEPT !.tokens = TokensNow(s) - 1, !.refilledAt = now]

----------------------------------------------------------------------------
(* The answer cache. *)

LiveCache == {e \in cache : now < e.expires}
\* Slip: the command and its argument are not compared.
ExactEntriesByNonce(f) == {e \in LiveCache : /\ e.key.src = f.src
                                             /\ e.key.seq = f.seq
                                             /\ e.key.nonce = f.nonce}
ExactEntries(f) == {e \in LiveCache : e.key = Key(f)}
Conflicts(f) ==
  \E e \in LiveCache : /\ e.key.src = f.src /\ e.key.seq = f.seq
                       /\ e.key.nonce = f.nonce /\ e.key # Key(f)

Soonest == {e \in LiveCache : \A d \in LiveCache : e.expires <= d.expires}

\* Slip: every entry takes the same slot.
StoreAnswerInOneSlot(f, status) == cache' = {Entry(f, status)}
\* A new entry takes a free slot or the slot of the entry that expires first.
StoreAnswer(f, status) ==
  IF Cardinality(LiveCache) < CacheCap
    THEN cache' = LiveCache \cup {Entry(f, status)}
    ELSE \E e \in Soonest :
           cache' = (LiveCache \ {e}) \cup {Entry(f, status)}

----------------------------------------------------------------------------
(* Judging and dispatching a command that passed the gate. *)

Verdict(f) ==
  CASE f.cmd = "UNKNOWN" -> "UNSUPPORTED_CMD"
    [] f.bcast /\ f.cmd \notin BroadcastAllowed /\ f.cmd # "UNKNOWN"
         -> "BROADCAST_NOT_ALLOWED"
    [] ~f.bcast /\ f.cmd = "SET_PROFILE" -> "UNSUPPORTED_CMD"
    [] ~f.bcast /\ f.cmd = "SET" /\ f.arg \notin AllowedArgs -> "INVALID_ARG"
    [] ~f.bcast /\ f.cmd = "OTA_CHECK_NOW" /\ f.arg = 0 -> "INVALID_ARG"
    [] ~f.bcast /\ f.cmd = "OTA_CHECK_NOW" /\ f.arg # 0 /\ ota # "idle" -> "BUSY"
    [] OTHER -> "OK"

\* A pending restart is not postponed by a second REBOOT_SOFT.
Dispatch(f) ==
  /\ rebootAt' = IF f.cmd = "REBOOT_SOFT" /\ rebootAt = NoReboot
                   THEN now + RebootDelay ELSE rebootAt
  /\ setting' = IF f.cmd = "SET" THEN f.arg ELSE setting
  /\ ota' = IF f.cmd = "OTA_CHECK_NOW" THEN "pending" ELSE ota
  /\ ran' = Append(ran, Key(f))

NoDispatch == UNCHANGED <<rebootAt, setting, ota, ran>>

\* Histories of the source state the frame is accounted to.
Account(f, tokens) ==
  /\ spent' = [spent EXCEPT ![f.src] = (IF Created(f.src) THEN 0 ELSE @) + tokens]
  /\ born' = [born EXCEPT ![f.src] = IF Created(f.src) THEN now ELSE @]

----------------------------------------------------------------------------
(* Receiving one frame. *)

RejectAuth(f) ==
  /\ ~f.auth
  /\ reply' = Ack(f, "INVALID_AUTH", FALSE)
  /\ NoDispatch
  /\ UNCHANGED <<now, otaReboot, source, cache, judged, spent, born>>

\* Slip: a repeated OK is dispatched again.
AnswerDuplicateDispatching(f) ==
  /\ f.auth
  /\ \E e \in ExactEntries(f) :
       /\ reply' = Ack(f, e.status, TRUE)
       /\ IF e.status = "OK" THEN Dispatch(f) ELSE NoDispatch
  /\ source' \in SourceTables(f.src)
  /\ cache' = LiveCache
  /\ Account(f, 0)
  /\ UNCHANGED <<now, otaReboot, judged>>

AnswerDuplicate(f) ==
  /\ f.auth
  /\ \E e \in ExactEntries(f) : reply' = Ack(f, e.status, TRUE)
  /\ source' \in SourceTables(f.src)
  /\ cache' = LiveCache
  /\ Account(f, 0)
  /\ NoDispatch
  /\ UNCHANGED <<now, otaReboot, judged>>

Novel(f) == f.auth /\ ExactEntries(f) = {}

RejectConflict(f) ==
  /\ Novel(f) /\ Conflicts(f)
  /\ reply' = Ack(f, "NONCE_REUSED", FALSE)
  /\ source' \in SourceTables(f.src)
  /\ StoreAnswer(f, "NONCE_REUSED")
  /\ Account(f, 0)
  /\ NoDispatch
  /\ UNCHANGED <<now, otaReboot, judged>>

RejectReplay(f) ==
  /\ Novel(f) /\ ~Conflicts(f)
  /\ \E table \in SourceTables(f.src) :
       LET decision == ReplayDecision(table[f.src], f.nonce) IN
       /\ decision # "accept"
       /\ reply' = Ack(f, decision, FALSE)
       /\ source' = table
       /\ StoreAnswer(f, decision)
  /\ Account(f, 0)
  /\ NoDispatch
  /\ UNCHANGED <<now, otaReboot, judged>>

\* The nonce is consumed although the command is refused.
RejectRate(f) ==
  /\ Novel(f) /\ ~Conflicts(f)
  /\ \E table \in SourceTables(f.src) :
       LET s == table[f.src] IN
       /\ ReplayDecision(s, f.nonce) = "accept"
       /\ TokensNow(s) < 1
       /\ source' = [table EXCEPT ![f.src] = Refill(RecordNonce(s, f.nonce))]
  /\ judged' = judged \cup {<<f.src, f.nonce>>}
  /\ reply' = Ack(f, "RATE_LIMITED", FALSE)
  /\ StoreAnswer(f, "RATE_LIMITED")
  /\ Account(f, 0)
  /\ NoDispatch
  /\ UNCHANGED <<now, otaReboot>>

AnswerCommand(f) ==
  /\ Novel(f) /\ ~Conflicts(f)
  /\ \E table \in SourceTables(f.src) :
       LET s == table[f.src] IN
       /\ ReplayDecision(s, f.nonce) = "accept"
       /\ TokensNow(s) >= 1
       /\ source' = [table EXCEPT ![f.src] = TakeToken(RecordNonce(s, f.nonce))]
  /\ judged' = judged \cup {<<f.src, f.nonce>>}
  /\ reply' = Ack(f, Verdict(f), FALSE)
  /\ StoreAnswer(f, Verdict(f))
  /\ Account(f, 1)
  /\ IF Verdict(f) = "OK" THEN Dispatch(f) ELSE NoDispatch
  /\ UNCHANGED <<now, otaReboot>>

\* loop() comes round: ensureLink does not return while the network is away,
\* nor does okuaOtaService while it fetches an image.
LoopRuns == link /\ ota # "checking"

Receive(f) ==
  /\ LoopRuns
  /\ now <= LastArrival
  /\ UNCHANGED link
  /\ \/ RejectAuth(f)
     \/ AnswerDuplicate(f)
     \/ RejectConflict(f)
     \/ RejectReplay(f)
     \/ RejectRate(f)
     \/ AnswerCommand(f)

----------------------------------------------------------------------------
(* The rest of the loop. *)

\* Whether the image that starts still has to be verified is the flash's choice.
Boot ==
  /\ now' = 0
  /\ source' = [s \in Sources |-> NoSource]
  /\ cache' = {}
  /\ rebootAt' = NoReboot
  /\ setting' = 0
  /\ ota' \in {"idle", "verifying"}
  /\ otaReboot' = FALSE
  /\ UNCHANGED link
  /\ reply' = NoReply
  /\ ran' = <<>>
  /\ judged' = {}
  /\ spent' = [s \in Sources |-> 0]
  /\ born' = [s \in Sources |-> 0]

\* servicePendingControlActions: an installed image or REBOOT_SOFT schedules
\* the restart, and the restart happens when its time has come.
ScheduleOtaReboot ==
  /\ LoopRuns
  /\ otaReboot /\ now <= LastArrival
  /\ otaReboot' = FALSE
  /\ rebootAt' = IF rebootAt = NoReboot THEN now + RebootDelay ELSE rebootAt
  /\ UNCHANGED <<now, source, cache, setting, ota, link, reply, ran, judged, spent,
                 born>>

\* Slip: the restart is due only at its very tick.
RestartOnTheDot ==
  /\ LoopRuns
  /\ rebootAt # NoReboot
  /\ now = rebootAt
  /\ Boot

Restart ==
  /\ LoopRuns
  /\ rebootAt # NoReboot
  /\ now >= rebootAt
  /\ Boot

\* Power loss, or the rollback of an image that failed its verification: an
\* image on trial that waits too long for the network is rolled back, too.
PowerLoss == Boot

OtaStep == UNCHANGED <<now, source, cache, rebootAt, setting, link, reply, ran,
                       judged, spent, born>>

\* okuaOtaService: the loop turns to the queued check.
OtaCheckBegins ==
  /\ LoopRuns
  /\ ota = "pending"
  /\ ota' = "checking"
  /\ otaReboot' = otaReboot
  /\ OtaStep

\* The check installs an image or fails.  It need not end: a server that keeps
\* the connection and sends nothing holds the loop.
OtaCheckEnds ==
  /\ ota = "checking"
  /\ now <= LastArrival
  /\ ota' = "idle"
  /\ otaReboot' \in {otaReboot, TRUE}
  /\ OtaStep

OtaVerified ==
  /\ LoopRuns
  /\ ota = "verifying"
  /\ ota' = "idle"
  /\ otaReboot' = otaReboot
  /\ OtaStep

\* The network goes away or comes back.
LinkChanges ==
  /\ link' = ~link
  /\ UNCHANGED <<now, source, cache, rebootAt, setting, ota, otaReboot, reply, ran,
                 judged, spent, born>>

Tick ==
  /\ now < Horizon
  /\ now' = now + 1
  /\ UNCHANGED <<source, cache, rebootAt, setting, ota, otaReboot, link, reply, ran,
                 judged, spent, born>>

Next ==
  \/ \E f \in Frames : Receive(f)
  \/ ScheduleOtaReboot
  \/ Restart
  \/ PowerLoss
  \/ OtaCheckBegins
  \/ OtaCheckEnds
  \/ OtaVerified
  \/ LinkChanges
  \/ Tick

\* A loop that is not held up comes round, and millis() advances; frames arrive
\* or do not, the network comes and goes, and a check may take forever.
Fairness == WF_nodeVars(Restart) /\ WF_nodeVars(Tick)

Spec == Init /\ [][Next]_nodeVars /\ Fairness

----------------------------------------------------------------------------
(* Properties. *)

SourceStates == [used : BOOLEAN, seenAt : Nat, init : BOOLEAN, max : Nat,
                 seen : SUBSET (0..(Window - 1)), tokens : 0..RateCap,
                 refilledAt : Nat]

OtaStates == {"idle", "pending", "checking", "verifying"}

TypeOK ==
  /\ now \in Nat
  /\ source \in [Sources -> SourceStates]
  /\ \A e \in cache : e.key \in Keys /\ e.status \in Statuses /\ e.expires \in Nat
  /\ rebootAt \in Nat \cup {NoReboot}
  /\ setting \in Nat
  /\ ota \in OtaStates
  /\ otaReboot \in BOOLEAN
  /\ link \in BOOLEAN
  /\ reply = NoReply \/ (/\ reply.key \in Keys
                         /\ reply.status \in Statuses /\ reply.dup \in BOOLEAN)
  /\ ran \in Seq(Keys)
  /\ judged \subseteq Sources \X Nat
  /\ spent \in [Sources -> Nat]
  /\ born \in [Sources -> Nat]

\* spec_control_f3.md, 11: between two boots a node runs a command at most
\* once, and never two commands under one nonce, however often and in
\* whatever order the frames arrive and whatever the cache has forgotten
\* (evaluateAndRecordNonce, shouldDispatchAcceptedCommand).  It takes that no
\* source is evicted: Cardinality(Sources) <= SourceCap.
AtMostOncePerBoot ==
  \A i, j \in DOMAIN ran :
    ran[i].src = ran[j].src /\ ran[i].nonce = ran[j].nonce => i = j

\* What an ACK says is what happened: OK, also when repeated from the cache,
\* only for a command that ran in this boot, and a refusal only for one that
\* did not (storeAckCacheEntry, the exact_dup path).
AnswersAreTruthful ==
  reply # NoReply =>
    LET hasRun == \E i \in DOMAIN ran : ran[i] = reply.key IN
    /\ reply.status = "OK" => hasRun
    /\ reply.status \in Refusals => ~hasRun

\* A fresh command is never taken for a replay: its nonce went through before
\* or lies a window below one that did, also when the verdict comes from the
\* cache (evaluateAndRecordNonce, hasNonceSeqConflictInCache).
FreshIsNoReplay ==
  reply # NoReply =>
    LET outOfWindow == \E p \in judged : /\ p[1] = reply.key.src
                                        /\ p[2] >= reply.key.nonce + Window IN
    /\ reply.status = "NONCE_REUSED" =>
         outOfWindow \/ <<reply.key.src, reply.key.nonce>> \in judged
    /\ reply.status = "NONCE_OUT_OF_WINDOW" => outOfWindow

\* spec_control_f3.md, 12.4: since its state was created a source got no more
\* commands past the bucket than its capacity plus one per second
\* (consumeRateLimitToken, refillRateLimitTokens).
RateBound ==
  \A s \in Used : spent[s] <= RateCap + (now - born[s])

\* The cache keeps within its slots and holds one answer per command.
CacheBounded ==
  /\ Cardinality(cache) <= CacheCap
  /\ \A d, e \in cache : d.key = e.key => d = e

\* A restart that was acknowledged happens once nothing holds up the loop any
\* more: it is not lost by the loop having stood still when it was due
\* (scheduleSoftReboot, servicePendingControlActions, connectWiFiBlocking).
\* While the network is away or a download is silent it does not happen.
RebootHappens == <>[]LoopRuns => (rebootAt # NoReboot ~> rebootAt = NoReboot)

\* spec_control_f3.md, 11: a rate-limited command may be retried after the
\* announced wait, and a retry reuses its bytes; so RATE_LIMITED is only
\* answered while the bucket is empty.
RateLimitEnds ==
  [][\A f \in Frames : Receive(f) /\ reply'.status = "RATE_LIMITED"
       => (source[f.src].used => TokensNow(source[f.src]) < 1)]_nodeVars
=============================================================================
