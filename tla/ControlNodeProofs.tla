------------------------ MODULE ControlNodeProofs ------------------------
(***************************************************************************)
(* What holds of a node's command gate for every number of sources, every  *)
(* set of frames and every value of the limits: its type, the token        *)
(* bucket's bound and, as long as every source fits into the source table, *)
(* that no nonce is run twice between two boots.                           *)
(***************************************************************************)
EXTENDS ControlNode, FiniteSetTheorems, TLAPS

\* A bucket never promises more than what is left of its source's share.
Buckets ==
  \A s \in Sources :
    /\ source[s].refilledAt <= now
    /\ source[s].used =>
         /\ born[s] <= source[s].refilledAt
         /\ spent[s] + source[s].tokens
              <= RateCap + (source[s].refilledAt - born[s])

TypeInv == TypeOK /\ Buckets

\* The window of a state would refuse the nonce.
Consumed(s, n) == /\ s.used /\ s.init
                  /\ n <= s.max
                  /\ s.max - n >= Window \/ s.max - n \in s.seen

\* The window of its source remembers every nonce that was run.
RanIsConsumed ==
  \A i \in DOMAIN ran : Consumed(source[ran[i].src], ran[i].nonce)

OnceInv == TypeInv /\ RanIsConsumed /\ AtMostOncePerBoot

Few == Cardinality(Sources) <= SourceCap

HasRun(k) == \E i \in DOMAIN ran : ran[i] = k

\* What the cache would repeat is still what happened.
CacheIsTruthful ==
  \A e \in cache : /\ e.status = "OK" => HasRun(e.key)
                   /\ e.status \in Refusals => ~HasRun(e.key)

TruthInv == OnceInv /\ CacheIsTruthful /\ AnswersAreTruthful

----------------------------------------------------------------------------
(* The pieces of a handler. *)

\* A frame that may arrive has a well-formed key (parseIncomingCmdFrame).
LEMMA FrameTyped ==
  ASSUME NEW f \in Frames
  PROVE  /\ f.src \in Sources /\ f.nonce \in Nat /\ f.arg \in Nat
         /\ f.cmd \in Commands
         /\ Key(f) \in Keys
         /\ Key(f).src = f.src /\ Key(f).nonce = f.nonce
  BY FramesAssumption DEF Key, Keys

\* Every command gets one of the known answers (fillAckForParseResult,
\* applyCommandSpecificAckPolicy).
LEMMA VerdictIsStatus ==
  ASSUME NEW f PROVE Verdict(f) \in Statuses
  BY DEF Verdict, Statuses, Refusals

\* Storing an answer keeps the cache well formed (storeAckCacheEntry).
LEMMA StoreTyped ==
  ASSUME TypeOK, NEW f \in Frames, NEW status \in Statuses,
         StoreAnswer(f, status)
  PROVE  \A e \in cache' :
           e.key \in Keys /\ e.status \in Statuses /\ e.expires \in Nat
<1> DEFINE Good(e) == e.key \in Keys /\ e.status \in Statuses /\ e.expires \in Nat
<1>1. \A e \in cache : Good(e)
  BY DEF TypeOK
<1>2. Good(Entry(f, status))
  BY FrameTyped, LimitsAssumption DEF Entry, TypeOK
<1>3. cache' \subseteq cache \cup {Entry(f, status)}
  BY DEF StoreAnswer, LiveCache
<1> QED
  BY <1>1, <1>2, <1>3

\* Looking a source up gives a table that differs from the old one in that
\* source, which is then known, and perhaps in one evicted source
\* (getOrCreateControlSourceState).
LEMMA TableTyped ==
  ASSUME TypeInv, NEW s \in Sources, NEW table \in SourceTables(s)
  PROVE  /\ table \in [Sources -> SourceStates]
         /\ table[s].used
         /\ \A u \in Sources \ {s} : table[u] = source[u] \/ table[u] = NoSource
         /\ source[s].used => table[s] = [source[s] EXCEPT !.seenAt = now]
         /\ ~source[s].used => table[s] = FreshSource
<1>1. source \in [Sources -> SourceStates] /\ now \in Nat
  BY DEF TypeInv, TypeOK
<1>2. NoSource \in SourceStates /\ FreshSource \in SourceStates
  BY <1>1, LimitsAssumption DEF NoSource, FreshSource, SourceStates
<1>3. CASE source[s].used
  <2>1. table = [source EXCEPT ![s].seenAt = now]
    BY <1>3 DEF SourceTables
  <2>2. [source[s] EXCEPT !.seenAt = now] \in SourceStates
    BY <1>1 DEF SourceStates
  <2>3. [source[s] EXCEPT !.seenAt = now].used = source[s].used
    BY <1>1 DEF SourceStates
  <2> QED
    BY <1>1, <1>3, <2>1, <2>2, <2>3
<1>4. CASE ~source[s].used
  <2>1. \/ table = [source EXCEPT ![s] = FreshSource]
        \/ \E v \in Oldest : table = [source EXCEPT ![v] = NoSource, ![s] = FreshSource]
    BY <1>4 DEF SourceTables
  <2>2. FreshSource.used
    BY DEF FreshSource
  <2>3. Oldest \subseteq Sources \ {s}
    BY <1>4 DEF Oldest, Used
  <2> QED
    BY <1>1, <1>2, <1>4, <2>1, <2>2, <2>3
<1> QED
  BY <1>3, <1>4

\* Recording a nonce keeps a source state well formed (evaluateAndRecordNonce,
\* replayShiftWindow).
LEMMA RecordTyped ==
  ASSUME NEW s \in SourceStates, NEW n \in Nat, s.used,
         ReplayDecision(s, n) = "accept"
  PROVE  LET t == RecordNonce(s, n) IN
         /\ t \in SourceStates
         /\ t.used /\ t.seenAt = s.seenAt
         /\ t.tokens = s.tokens /\ t.refilledAt = s.refilledAt
<1>0. Window \in Nat /\ Window > 0
  BY LimitsAssumption
<1>1. CASE ~s.init
  <2>1. RecordNonce(s, n) = [s EXCEPT !.init = TRUE, !.max = n, !.seen = {0}]
    BY <1>1 DEF RecordNonce
  <2>2. {0} \in SUBSET (0..(Window - 1))
    BY <1>0
  <2> QED
    BY <2>1, <2>2 DEF SourceStates
<1>2. CASE s.init /\ n > s.max
  <2>1. RecordNonce(s, n)
          = [s EXCEPT !.max = n, !.seen = Shifted(s.seen, n - s.max) \cup {0}]
    BY <1>2 DEF RecordNonce
  <2>2. s.seen \subseteq 0..(Window - 1) /\ n - s.max \in Nat
    BY <1>2 DEF SourceStates
  <2>3. Shifted(s.seen, n - s.max) \cup {0} \in SUBSET (0..(Window - 1))
    BY <1>0, <2>2 DEF Shifted
  <2> QED
    BY <2>1, <2>3 DEF SourceStates
<1>3. CASE s.init /\ ~(n > s.max)
  <2>1. RecordNonce(s, n) = [s EXCEPT !.seen = @ \cup {s.max - n}]
    BY <1>3 DEF RecordNonce
  <2>2. s.max - n \in 0..(Window - 1)
    BY <1>0, <1>3 DEF SourceStates, ReplayDecision
  <2>3. s.seen \cup {s.max - n} \in SUBSET (0..(Window - 1))
    BY <2>2 DEF SourceStates
  <2> QED
    BY <2>1, <2>3 DEF SourceStates
<1> QED
  BY <1>1, <1>2, <1>3

\* A nonce the window accepts was not consumed, is consumed once recorded, and
\* recording it frees no nonce consumed before (evaluateAndRecordNonce).
LEMMA WindowNeverForgets ==
  ASSUME NEW s \in SourceStates, NEW n \in Nat, NEW m \in Nat, s.used,
         ReplayDecision(s, n) = "accept"
  PROVE  /\ ~Consumed(s, n)
         /\ Consumed(RecordNonce(s, n), n)
         /\ Consumed(s, m) => Consumed(RecordNonce(s, n), m)
<1>0. /\ Window \in Nat /\ Window > 0
      /\ s.max \in Nat /\ s.seen \subseteq 0..(Window - 1)
      /\ s.init \in BOOLEAN
  BY LimitsAssumption DEF SourceStates
<1>1. ~Consumed(s, n)
  BY <1>0 DEF Consumed, ReplayDecision
<1>2. CASE ~s.init
  <2>1. RecordNonce(s, n) = [s EXCEPT !.init = TRUE, !.max = n, !.seen = {0}]
    BY <1>2 DEF RecordNonce
  <2> QED
    BY <1>0, <1>1, <1>2, <2>1 DEF Consumed, SourceStates
<1>3. CASE s.init /\ n > s.max
  <2>1. RecordNonce(s, n)
          = [s EXCEPT !.max = n, !.seen = Shifted(s.seen, n - s.max) \cup {0}]
    BY <1>3 DEF RecordNonce
  <2> DEFINE t == RecordNonce(s, n)
  <2>2. /\ t.used /\ t.init /\ t.max = n
        /\ t.seen = Shifted(s.seen, n - s.max) \cup {0}
    BY <1>3, <2>1 DEF SourceStates
  <2>3. Consumed(t, n)
    BY <2>2 DEF Consumed
  <2>4. ASSUME Consumed(s, m) PROVE Consumed(t, m)
    <3>1. m <= s.max /\ (s.max - m >= Window \/ s.max - m \in s.seen)
      BY <2>4 DEF Consumed
    <3>2. m <= n /\ n - m = (s.max - m) + (n - s.max)
      BY <1>0, <1>3, <3>1
    <3>3. CASE n - m >= Window
      BY <2>2, <3>2, <3>3 DEF Consumed
    <3>4. CASE n - m < Window
      <4>1. s.max - m \in s.seen
        BY <1>0, <1>3, <3>1, <3>2, <3>4
      <4>2. n - m \in Shifted(s.seen, n - s.max)
        BY <3>2, <3>4, <4>1 DEF Shifted
      <4> QED
        BY <2>2, <3>2, <4>2 DEF Consumed
    <3> QED
      BY <1>0, <3>3, <3>4
  <2> QED
    BY <1>1, <2>3, <2>4
<1>4. CASE s.init /\ ~(n > s.max)
  <2>1. RecordNonce(s, n) = [s EXCEPT !.seen = @ \cup {s.max - n}]
    BY <1>4 DEF RecordNonce
  <2> QED
    BY <1>0, <1>1, <1>4, <2>1 DEF Consumed, SourceStates
<1> QED
  BY <1>0, <1>1, <1>2, <1>3, <1>4

\* A refill never exceeds the capacity nor what time has given
\* (refillRateLimitTokens).
LEMMA RefillBounded ==
  ASSUME TypeInv, NEW s \in SourceStates, s.refilledAt <= now
  PROVE  /\ TokensNow(s) \in 0..RateCap
         /\ TokensNow(s) <= s.tokens + (now - s.refilledAt)
<1>1. now \in Nat /\ RateCap \in Nat
  BY LimitsAssumption DEF TypeInv, TypeOK
<1> QED
  BY <1>1 DEF TokensNow, SourceStates

\* Charging a source no more than its bucket holds keeps every bucket within
\* its share (consumeRateLimitToken).
LEMMA ChargeKeepsBuckets ==
  ASSUME TypeInv, NEW f \in Frames, NEW cost \in {0, 1},
         NEW table \in SourceTables(f.src), NEW st \in SourceStates,
         source' = [table EXCEPT ![f.src] = st], now' = now,
         Account(f, cost),
         st.used, st.refilledAt <= now,
         table[f.src].refilledAt <= st.refilledAt,
         st.tokens + cost
           <= table[f.src].tokens + (st.refilledAt - table[f.src].refilledAt)
  PROVE  /\ source' \in [Sources -> SourceStates]
         /\ spent' \in [Sources -> Nat] /\ born' \in [Sources -> Nat]
         /\ Buckets'
<1> DEFINE s == f.src
<1>0. /\ s \in Sources /\ cost \in Nat /\ now \in Nat
      /\ source \in [Sources -> SourceStates]
      /\ spent \in [Sources -> Nat] /\ born \in [Sources -> Nat]
      /\ RateCap \in Nat
  BY FrameTyped, LimitsAssumption DEF TypeInv, TypeOK
<1>1. /\ table \in [Sources -> SourceStates]
      /\ \A u \in Sources \ {s} : table[u] = source[u] \/ table[u] = NoSource
      /\ source[s].used => table[s] = [source[s] EXCEPT !.seenAt = now]
      /\ ~source[s].used => table[s] = FreshSource
  BY <1>0, TableTyped
<1>2. source' \in [Sources -> SourceStates] /\ source'[s] = st
      /\ \A u \in Sources \ {s} : source'[u] = table[u]
  BY <1>0, <1>1
<1>3. /\ spent' \in [Sources -> Nat] /\ born' \in [Sources -> Nat]
      /\ spent'[s] = (IF ~source[s].used THEN 0 ELSE spent[s]) + cost
      /\ born'[s] = IF ~source[s].used THEN now ELSE born[s]
      /\ \A u \in Sources \ {s} : spent'[u] = spent[u] /\ born'[u] = born[u]
  BY <1>0 DEF Account, Created
<1>4. ASSUME NEW u \in Sources \ {s}
      PROVE  /\ source'[u].refilledAt <= now'
             /\ source'[u].used =>
                  /\ born'[u] <= source'[u].refilledAt
                  /\ spent'[u] + source'[u].tokens
                       <= RateCap + (source'[u].refilledAt - born'[u])
  <2>1. CASE source'[u] = source[u]
    BY <1>3, <2>1 DEF TypeInv, Buckets
  <2>2. CASE source'[u] = NoSource
    BY <1>0, <2>2 DEF NoSource
  <2> QED
    BY <1>1, <1>2, <2>1, <2>2
<1>5. /\ source'[s].refilledAt <= now'
      /\ born'[s] <= source'[s].refilledAt
      /\ spent'[s] + source'[s].tokens
           <= RateCap + (source'[s].refilledAt - born'[s])
  <2> DEFINE from == table[s].refilledAt
             given == table[s].tokens
  <2>1. /\ st.tokens \in Nat /\ st.refilledAt \in Nat
        /\ from \in Nat /\ given \in Nat
        /\ from <= st.refilledAt
        /\ st.tokens + cost <= given + (st.refilledAt - from)
    BY <1>0, <1>1, LimitsAssumption DEF SourceStates
  <2>2. CASE source[s].used
    <3>1. from = source[s].refilledAt /\ given = source[s].tokens
      BY <1>0, <1>1, <2>2 DEF SourceStates
    <3>2. /\ born[s] <= from
          /\ spent[s] + given <= RateCap + (from - born[s])
          /\ spent[s] \in Nat /\ born[s] \in Nat
      BY <1>0, <2>2, <3>1 DEF TypeInv, Buckets
    <3>3. spent'[s] = spent[s] + cost /\ born'[s] = born[s]
      BY <1>3, <2>2
    <3> HIDE DEF from, given
    <3> QED
      BY <1>0, <1>2, <2>1, <3>2, <3>3
  <2>3. CASE ~source[s].used
    <3>1. from = now /\ given = RateCap
      BY <1>1, <2>3 DEF FreshSource
    <3>2. spent'[s] = cost /\ born'[s] = now
      BY <1>0, <1>3, <2>3
    <3> HIDE DEF from, given
    <3> QED
      BY <1>0, <1>2, <2>1, <3>1, <3>2
  <2> QED
    BY <2>2, <2>3
<1> QED
  BY <1>2, <1>3, <1>4, <1>5 DEF Buckets

\* The sources and their histories after a frame, whichever way it is handled
\* (buildAckForFrameWithSecurity).
LEMMA ReceiveSources ==
  ASSUME TypeInv, NEW f \in Frames, Receive(f)
  PROVE  /\ source' \in [Sources -> SourceStates]
         /\ spent' \in [Sources -> Nat] /\ born' \in [Sources -> Nat]
         /\ Buckets'
<1> DEFINE s == f.src
<1>0. s \in Sources /\ f.nonce \in Nat /\ now \in Nat
  BY FrameTyped DEF TypeInv, TypeOK
<1>1. CASE RejectAuth(f)
  BY <1>1 DEF RejectAuth, TypeInv, TypeOK, Buckets
<1>2. ASSUME source' \in SourceTables(s), Account(f, 0), now' = now
      PROVE  /\ source' \in [Sources -> SourceStates]
             /\ spent' \in [Sources -> Nat] /\ born' \in [Sources -> Nat]
             /\ Buckets'
  <2> DEFINE st == source'[s]
  <2>1. /\ source' \in [Sources -> SourceStates] /\ st \in SourceStates
        /\ st.used /\ source' = [source' EXCEPT ![s] = st]
        /\ st.refilledAt \in Nat /\ st.tokens \in Nat
    <3>1. source' \in [Sources -> SourceStates] /\ st.used
      BY <1>0, <1>2, TableTyped
    <3>2. st \in SourceStates
      BY <1>0, <3>1
    <3>3. source' = [source' EXCEPT ![s] = st]
      BY <1>0, <3>1
    <3>4. st.refilledAt \in Nat /\ st.tokens \in Nat
      BY <3>2, LimitsAssumption DEF SourceStates
    <3> QED
      BY <3>1, <3>2, <3>3, <3>4
  <2>2. st.refilledAt <= now
    <3>1. source[s].used => st = [source[s] EXCEPT !.seenAt = now]
      BY <1>0, <1>2, TableTyped
    <3>2. ~source[s].used => st = FreshSource
      BY <1>0, <1>2, TableTyped
    <3>3. source[s] \in SourceStates /\ source[s].refilledAt <= now
      BY <1>0 DEF TypeInv, TypeOK, Buckets
    <3> QED
      BY <1>0, <3>1, <3>2, <3>3 DEF FreshSource, SourceStates
  <2>3. /\ st.refilledAt <= st.refilledAt
        /\ st.tokens + 0 <= st.tokens + (st.refilledAt - st.refilledAt)
    BY <2>1
  <2> HIDE DEF st
  <2> QED
    BY <1>2, <2>1, <2>2, <2>3, ChargeKeepsBuckets DEF st
<1>3. CASE AnswerDuplicate(f) \/ RejectConflict(f) \/ RejectReplay(f)
  BY <1>2, <1>3 DEF AnswerDuplicate, RejectConflict, RejectReplay
<1>4. ASSUME NEW table \in SourceTables(s),
             ReplayDecision(table[s], f.nonce) = "accept"
      PROVE  LET r == RecordNonce(table[s], f.nonce) IN
             /\ table[s] \in SourceStates /\ r \in SourceStates /\ r.used
             /\ r.tokens = table[s].tokens
             /\ r.refilledAt = table[s].refilledAt
             /\ r.refilledAt <= now
             /\ TokensNow(r) \in 0..RateCap
             /\ TokensNow(r) = TokensNow(table[s])
             /\ TokensNow(r) <= r.tokens + (now - r.refilledAt)
  <2> DEFINE r == RecordNonce(table[s], f.nonce)
  <2>1. table[s] \in SourceStates /\ table[s].used
    BY <1>0, <1>4, TableTyped, ZenonT(40)
  <2>2. /\ r \in SourceStates /\ r.used
        /\ r.tokens = table[s].tokens /\ r.refilledAt = table[s].refilledAt
    BY <1>0, <1>4, <2>1, RecordTyped
  <2>3. table[s].refilledAt <= now
    <3>1. source[s].used => table[s] = [source[s] EXCEPT !.seenAt = now]
      BY <1>0, <1>4, TableTyped
    <3>2. ~source[s].used => table[s] = FreshSource
      BY <1>0, <1>4, TableTyped
    <3>3. source[s] \in SourceStates /\ source[s].refilledAt <= now
      BY <1>0 DEF TypeInv, TypeOK, Buckets
    <3> QED
      BY <1>0, <3>1, <3>2, <3>3 DEF FreshSource, SourceStates
  <2> HIDE DEF r
  <2>4. TokensNow(r) = TokensNow(table[s])
    BY <2>2 DEF TokensNow
  <2> QED
    BY <2>1, <2>2, <2>3, <2>4, RefillBounded DEF r
<1>5. CASE RejectRate(f)
  <2>1. PICK table \in SourceTables(s) :
          /\ ReplayDecision(table[s], f.nonce) = "accept"
          /\ source' = [table EXCEPT ![s] = Refill(RecordNonce(table[s], f.nonce))]
    BY <1>5 DEF RejectRate
  <2> DEFINE r == RecordNonce(table[s], f.nonce)
             st == Refill(r)
  <2>2. /\ table[s] \in SourceStates /\ r \in SourceStates /\ r.used
        /\ r.tokens = table[s].tokens /\ r.refilledAt = table[s].refilledAt
        /\ r.refilledAt <= now /\ TokensNow(r) \in 0..RateCap
        /\ TokensNow(r) <= r.tokens + (now - r.refilledAt)
    BY <1>4, <2>1
  <2> HIDE DEF r
  <2>3. /\ st \in SourceStates /\ st.used
        /\ st.tokens = TokensNow(r) /\ st.refilledAt = now
    BY <1>0, <2>2 DEF Refill, SourceStates
  <2>4. st.tokens + 0 <= table[s].tokens + (st.refilledAt - table[s].refilledAt)
    BY <1>0, <2>2, <2>3, LimitsAssumption
  <2>5. now' = now /\ Account(f, 0)
    BY <1>5 DEF RejectRate
  <2>6. source' = [table EXCEPT ![s] = st]
    BY <2>1 DEF r
  <2>7. st.refilledAt <= now /\ table[s].refilledAt <= st.refilledAt
    BY <1>0, <2>2, <2>3
  <2> HIDE DEF st
  <2> QED
    BY <2>1, <2>3, <2>4, <2>5, <2>6, <2>7, ChargeKeepsBuckets
<1>6. CASE AnswerCommand(f)
  <2>1. PICK table \in SourceTables(s) :
          /\ ReplayDecision(table[s], f.nonce) = "accept"
          /\ TokensNow(table[s]) >= 1
          /\ source' = [table EXCEPT ![s] = TakeToken(RecordNonce(table[s], f.nonce))]
    BY <1>6 DEF AnswerCommand
  <2> DEFINE r == RecordNonce(table[s], f.nonce)
             st == TakeToken(r)
  <2>2. /\ table[s] \in SourceStates /\ r \in SourceStates /\ r.used
        /\ r.tokens = table[s].tokens /\ r.refilledAt = table[s].refilledAt
        /\ r.refilledAt <= now /\ TokensNow(r) \in 1..RateCap
        /\ TokensNow(r) <= r.tokens + (now - r.refilledAt)
    BY <1>4, <2>1, LimitsAssumption
  <2> HIDE DEF r
  <2>3. /\ st \in SourceStates /\ st.used
        /\ st.tokens = TokensNow(r) - 1 /\ st.refilledAt = now
    <3>1. TokensNow(r) - 1 \in 0..RateCap
      BY <2>2, LimitsAssumption
    <3> QED
      BY <1>0, <2>2, <3>1 DEF TakeToken, SourceStates
  <2>4. st.tokens + 1 <= table[s].tokens + (st.refilledAt - table[s].refilledAt)
    BY <1>0, <2>2, <2>3, LimitsAssumption
  <2>5. now' = now /\ Account(f, 1)
    BY <1>6 DEF AnswerCommand
  <2>6. source' = [table EXCEPT ![s] = st]
    BY <2>1 DEF r
  <2>7. st.refilledAt <= now /\ table[s].refilledAt <= st.refilledAt
    BY <1>0, <2>2, <2>3
  <2> HIDE DEF st
  <2> QED
    BY <2>1, <2>3, <2>4, <2>5, <2>6, <2>7, ChargeKeepsBuckets
<1> QED
  BY <1>1, <1>3, <1>5, <1>6 DEF Receive

\* Everything a frame may change apart from the sources keeps its type.
LEMMA ReceiveRest ==
  ASSUME TypeInv, NEW f \in Frames, Receive(f)
  PROVE  /\ now' = now /\ otaReboot' = otaReboot /\ link' = link
         /\ \A e \in cache' :
              e.key \in Keys /\ e.status \in Statuses /\ e.expires \in Nat
         /\ rebootAt' \in Nat \cup {NoReboot} /\ setting' \in Nat
         /\ ota' \in OtaStates
         /\ /\ reply'.key \in Keys /\ reply'.status \in Statuses
            /\ reply'.dup \in BOOLEAN
         /\ ran' \in Seq(Keys)
         /\ judged' \subseteq Sources \X Nat
<1>0. /\ f.src \in Sources /\ f.nonce \in Nat /\ f.arg \in Nat
      /\ Key(f) \in Keys /\ now \in Nat /\ RebootDelay \in Nat
  BY FrameTyped, LimitsAssumption DEF TypeInv, TypeOK
<1>1. now' = now /\ otaReboot' = otaReboot /\ link' = link
  BY DEF Receive, RejectAuth, AnswerDuplicate, RejectConflict, RejectReplay,
         RejectRate, AnswerCommand
<1>2. \A st \in Statuses : StoreAnswer(f, st) =>
        \A e \in cache' : e.key \in Keys /\ e.status \in Statuses /\ e.expires \in Nat
  BY StoreTyped DEF TypeInv
<1>3. \A st \in Statuses, d \in BOOLEAN : reply' = Ack(f, st, d) =>
        reply'.key \in Keys /\ reply'.status \in Statuses /\ reply'.dup \in BOOLEAN
  BY <1>0 DEF Ack
<1>4. NoDispatch =>
        /\ rebootAt' \in Nat \cup {NoReboot} /\ setting' \in Nat
        /\ ota' \in OtaStates /\ ran' \in Seq(Keys)
  BY DEF NoDispatch, TypeInv, TypeOK
<1>5. Dispatch(f) =>
        /\ rebootAt' \in Nat \cup {NoReboot} /\ setting' \in Nat
        /\ ota' \in OtaStates /\ ran' \in Seq(Keys)
  <2>1. rebootAt \in Nat \cup {NoReboot} /\ setting \in Nat
        /\ ota \in OtaStates /\ ran \in Seq(Keys)
    BY DEF TypeInv, TypeOK
  <2>2. Append(ran, Key(f)) \in Seq(Keys)
    BY <1>0, <2>1
  <2> QED
    BY <1>0, <2>1, <2>2 DEF Dispatch, OtaStates
<1>6. judged \subseteq Sources \X Nat
      /\ judged \cup {<<f.src, f.nonce>>} \subseteq Sources \X Nat
  BY <1>0 DEF TypeInv, TypeOK
<1>7. \A e \in cache :
        e.key \in Keys /\ e.status \in Statuses /\ e.expires \in Nat
  BY DEF TypeInv, TypeOK
<1>8. {"INVALID_AUTH", "NONCE_REUSED", "NONCE_OUT_OF_WINDOW", "RATE_LIMITED"}
        \subseteq Statuses
  BY DEF Statuses, Refusals
<1>a. CASE RejectAuth(f)
  BY <1>a, <1>1, <1>3, <1>4, <1>6, <1>7, <1>8 DEF RejectAuth
<1>b. CASE AnswerDuplicate(f)
  BY <1>b, <1>1, <1>3, <1>4, <1>6, <1>7
     DEF AnswerDuplicate, ExactEntries, LiveCache
<1>c. CASE RejectConflict(f)
  BY <1>c, <1>1, <1>2, <1>3, <1>4, <1>6, <1>8 DEF RejectConflict
<1>d. CASE RejectReplay(f)
  <2>1. \A s, n : ReplayDecision(s, n) # "accept" => ReplayDecision(s, n) \in Statuses
    BY <1>8 DEF ReplayDecision
  <2> QED
    BY <1>d, <2>1, <1>1, <1>2, <1>3, <1>4, <1>6 DEF RejectReplay
<1>e. CASE RejectRate(f)
  BY <1>e, <1>1, <1>2, <1>3, <1>4, <1>6, <1>8 DEF RejectRate
<1>f. CASE AnswerCommand(f)
  BY <1>f, <1>1, <1>2, <1>3, <1>4, <1>5, <1>6, VerdictIsStatus DEF AnswerCommand
<1> QED
  BY <1>a, <1>b, <1>c, <1>d, <1>e, <1>f DEF Receive

----------------------------------------------------------------------------
(* The type and the buckets. *)

\* The initial state is well typed.
LEMMA InitTypeInv == Init => TypeInv
<1> SUFFICES ASSUME Init PROVE TypeInv
  OBVIOUS
<1>1. NoSource \in SourceStates /\ NoSource.refilledAt = 0 /\ ~NoSource.used
  BY LimitsAssumption DEF NoSource, SourceStates
<1>2. TypeOK
  <2>1. /\ source \in [Sources -> SourceStates] /\ ran \in Seq(Keys)
        /\ spent \in [Sources -> Nat] /\ born \in [Sources -> Nat]
    BY <1>1 DEF Init
  <2> QED
    BY <2>1 DEF Init, TypeOK, OtaStates
<1>3. Buckets
  BY <1>1 DEF Init, Buckets
<1> QED
  BY <1>2, <1>3 DEF TypeInv

\* So is the state after a restart.
LEMMA BootTypeInv == TypeInv /\ Boot => TypeInv'
<1> SUFFICES ASSUME TypeInv, Boot PROVE TypeInv'
  OBVIOUS
<1>1. NoSource \in SourceStates /\ NoSource.refilledAt = 0 /\ ~NoSource.used
  BY LimitsAssumption DEF NoSource, SourceStates
<1>2. TypeOK'
  <2>1. /\ source' \in [Sources -> SourceStates] /\ ran' \in Seq(Keys)
        /\ spent' \in [Sources -> Nat] /\ born' \in [Sources -> Nat]
    BY <1>1 DEF Boot
  <2> QED
    BY <2>1 DEF Boot, TypeInv, TypeOK, OtaStates
<1>3. Buckets'
  BY <1>1 DEF Boot, Buckets
<1> QED
  BY <1>2, <1>3 DEF TypeInv

\* Every step of the node's loop keeps the type and the buckets.
LEMMA StepTypeInv == TypeInv /\ [Next]_nodeVars => TypeInv'
<1> SUFFICES ASSUME TypeInv, [Next]_nodeVars PROVE TypeInv'
  OBVIOUS
<1>0. now \in Nat /\ RebootDelay \in Nat
  BY LimitsAssumption DEF TypeInv, TypeOK
<1>1. ASSUME NEW f \in Frames, Receive(f) PROVE TypeInv'
  BY <1>0, <1>1, ReceiveSources, ReceiveRest DEF TypeInv, TypeOK
<1>2. CASE ScheduleOtaReboot
  <2>1. rebootAt \in Nat \cup {NoReboot}
    BY DEF TypeInv, TypeOK
  <2>2. rebootAt' \in Nat \cup {NoReboot}
    BY <1>0, <1>2, <2>1 DEF ScheduleOtaReboot
  <2> QED
    BY <1>2, <2>2 DEF ScheduleOtaReboot, TypeInv, TypeOK, Buckets
<1>3. CASE Restart \/ PowerLoss
  BY <1>3, BootTypeInv DEF Restart, PowerLoss
<1>4. CASE OtaCheckBegins \/ OtaCheckEnds \/ OtaVerified
  BY <1>4 DEF OtaCheckBegins, OtaCheckEnds, OtaVerified, OtaStep, OtaStates, TypeInv,
     TypeOK, Buckets
<1>5. CASE Tick
  <2>1. TypeOK'
    BY <1>5 DEF Tick, TypeInv, TypeOK
  <2>2. ASSUME NEW s \in Sources PROVE source[s].refilledAt <= now + 1
    BY <1>0 DEF TypeInv, TypeOK, Buckets, SourceStates
  <2>3. Buckets'
    BY <1>5, <2>2 DEF Tick, TypeInv, Buckets
  <2> QED
    BY <2>1, <2>3 DEF TypeInv
<1>6. CASE UNCHANGED nodeVars
  BY <1>6 DEF nodeVars, TypeInv, TypeOK, Buckets
<1>7. CASE LinkChanges
  BY <1>7 DEF LinkChanges, TypeInv, TypeOK, Buckets
<1> QED
  BY <1>1, <1>2, <1>3, <1>4, <1>5, <1>6, <1>7 DEF Next

\* A node's state is well typed for every number of sources and every limit.
THEOREM NodeTypeCorrect == Spec => []TypeOK
<1>1. TypeInv => TypeOK
  BY DEF TypeInv
<1> QED
  BY <1>1, InitTypeInv, StepTypeInv, PTL DEF Spec

\* No source ever gets more commands past the bucket than the capacity plus
\* one per tick since its state was created (consumeRateLimitToken), however
\* often sources evict each other.
THEOREM RateLimitHolds == Spec => []RateBound
<1>1. TypeInv => RateBound
  <2> SUFFICES ASSUME TypeInv, NEW s \in Used
               PROVE  spent[s] <= RateCap + (now - born[s])
    BY DEF RateBound
  <2>1. /\ source[s].refilledAt \in Nat /\ source[s].tokens \in Nat
        /\ spent[s] \in Nat /\ born[s] \in Nat /\ now \in Nat /\ RateCap \in Nat
    BY LimitsAssumption DEF TypeInv, TypeOK, SourceStates, Used
  <2>2. /\ source[s].refilledAt <= now
        /\ spent[s] + source[s].tokens
             <= RateCap + (source[s].refilledAt - born[s])
    BY DEF TypeInv, Buckets, Used
  <2> QED
    BY <2>1, <2>2
<1> QED
  BY <1>1, InitTypeInv, StepTypeInv, PTL DEF Spec

----------------------------------------------------------------------------
(* At most once. *)

\* While every source has its slot, looking a source up leaves every other
\* source's state and its own window alone (getOrCreateControlSourceState).
LEMMA FewNeverEvict ==
  ASSUME TypeInv, Few, NEW s \in Sources, NEW table \in SourceTables(s),
         NEW u \in Sources, NEW n \in Nat, Consumed(source[u], n)
  PROVE  Consumed(table[u], n)
<1>1. source \in [Sources -> SourceStates] /\ source[u].used
  BY DEF TypeInv, TypeOK, Consumed
<1>2. CASE source[s].used
  <2>1. table = [source EXCEPT ![s].seenAt = now]
    BY <1>2 DEF SourceTables
  <2> QED
    BY <1>1, <2>1 DEF Consumed, SourceStates
<1>3. CASE ~source[s].used
  <2>1. Cardinality(Used) < SourceCap
    <3>1. Used \subseteq Sources /\ Used # Sources
      BY <1>3 DEF Used
    <3>2. /\ IsFiniteSet(Used) /\ Cardinality(Used) \in Nat
          /\ Cardinality(Used) < Cardinality(Sources)
      BY <3>1, SourcesAssumption, FS_Subset, FS_CardinalityType
    <3>3. Cardinality(Sources) \in Nat /\ SourceCap \in Nat
      BY SourcesAssumption, LimitsAssumption, FS_CardinalityType
    <3> QED
      BY <3>2, <3>3 DEF Few
  <2>2. table = [source EXCEPT ![s] = FreshSource]
    BY <1>3, <2>1 DEF SourceTables
  <2>3. u # s
    BY <1>1, <1>3
  <2> QED
    BY <1>1, <2>2, <2>3
<1> QED
  BY <1>2, <1>3

\* No handler makes a window forget a nonce (buildAckForFrameWithSecurity).
LEMMA ReceiveNeverForgets ==
  ASSUME TypeInv, Few, NEW f \in Frames, Receive(f),
         NEW u \in Sources, NEW n \in Nat, Consumed(source[u], n)
  PROVE  Consumed(source'[u], n)
<1> DEFINE s == f.src
<1>0. s \in Sources /\ f.nonce \in Nat
  BY FrameTyped
<1>1. CASE RejectAuth(f)
  BY <1>1 DEF RejectAuth
<1>2. CASE AnswerDuplicate(f) \/ RejectConflict(f) \/ RejectReplay(f)
  <2>1. source' \in SourceTables(s)
    BY <1>2 DEF AnswerDuplicate, RejectConflict, RejectReplay
  <2> QED
    BY <1>0, <2>1, FewNeverEvict
<1>3. ASSUME NEW table \in SourceTables(s), NEW st,
             ReplayDecision(table[s], f.nonce) = "accept",
             source' = [table EXCEPT ![s] = st],
             st \in {Refill(RecordNonce(table[s], f.nonce)),
                    TakeToken(RecordNonce(table[s], f.nonce))}
      PROVE  Consumed(source'[u], n)
  <2> DEFINE r == RecordNonce(table[s], f.nonce)
  <2>1. /\ table \in [Sources -> SourceStates] /\ table[s].used
        /\ table[s] \in SourceStates
    BY <1>0, <1>3, TableTyped, ZenonT(40)
  <2>2. Consumed(table[u], n)
    BY <1>0, <1>3, FewNeverEvict
  <2>3. CASE u # s
    BY <1>3, <2>1, <2>2, <2>3
  <2>4. CASE u = s
    <3>1. Consumed(r, n) /\ r \in SourceStates
      BY <1>0, <1>3, <2>1, <2>2, <2>4, WindowNeverForgets, RecordTyped
    <3> HIDE DEF r
    <3>2. /\ st.used = r.used /\ st.init = r.init
          /\ st.max = r.max /\ st.seen = r.seen
      BY <1>3, <3>1 DEF Refill, TakeToken, SourceStates, r
    <3>3. source'[u] = st
      BY <1>0, <1>3, <2>1, <2>4
    <3> QED
      BY <3>1, <3>2, <3>3 DEF Consumed
  <2> QED
    BY <2>3, <2>4
<1>4. CASE RejectRate(f)
  BY <1>3, <1>4 DEF RejectRate
<1>5. CASE AnswerCommand(f)
  BY <1>3, <1>5 DEF AnswerCommand
<1> QED
  BY <1>1, <1>2, <1>4, <1>5 DEF Receive

\* A command that is dispatched had a nonce no command ran under, and its
\* window knows the nonce afterwards.
LEMMA DispatchIsFresh ==
  ASSUME TypeInv, Few, NEW f \in Frames, AnswerCommand(f)
  PROVE  /\ ~Consumed(source[f.src], f.nonce)
         /\ Consumed(source'[f.src], f.nonce)
<1> DEFINE s == f.src
<1>0. s \in Sources /\ f.nonce \in Nat
  BY FrameTyped
<1>1. PICK table \in SourceTables(s) :
        /\ ReplayDecision(table[s], f.nonce) = "accept"
        /\ source' = [table EXCEPT ![s] = TakeToken(RecordNonce(table[s], f.nonce))]
  BY DEF AnswerCommand
<1> DEFINE r == RecordNonce(table[s], f.nonce)
<1>2. /\ table \in [Sources -> SourceStates] /\ table[s].used
      /\ table[s] \in SourceStates
  <2>1. table \in [Sources -> SourceStates] /\ table[s].used
    BY <1>0, <1>1, TableTyped
  <2> QED
    BY <1>0, <2>1
<1>3. ~Consumed(table[s], f.nonce) /\ Consumed(r, f.nonce) /\ r \in SourceStates
  BY <1>0, <1>1, <1>2, WindowNeverForgets, RecordTyped
<1>4. ~Consumed(source[s], f.nonce)
  BY <1>0, <1>3, FewNeverEvict
<1> HIDE DEF r
<1>5. source'[s] = TakeToken(r)
  BY <1>0, <1>1, <1>2 DEF r
<1>6. Consumed(TakeToken(r), f.nonce)
  BY <1>3 DEF TakeToken, Consumed, SourceStates
<1> QED
  BY <1>4, <1>5, <1>6

\* Handling a frame keeps the run commands apart.
LEMMA ReceiveOnce ==
  ASSUME OnceInv, Few, NEW f \in Frames, Receive(f)
  PROVE  RanIsConsumed' /\ AtMostOncePerBoot'
<1>0. TypeInv /\ RanIsConsumed /\ AtMostOncePerBoot /\ ran \in Seq(Keys)
  BY DEF OnceInv, TypeInv, TypeOK
<1>1. \A i \in DOMAIN ran : ran[i].src \in Sources /\ ran[i].nonce \in Nat
  <2>1. \A i \in DOMAIN ran : ran[i] \in Keys
    BY <1>0
  <2> QED
    BY <2>1 DEF Keys
<1>2. \A i \in DOMAIN ran : Consumed(source'[ran[i].src], ran[i].nonce)
  BY <1>0, <1>1, ReceiveNeverForgets DEF RanIsConsumed
<1>3. CASE ran' = ran
  BY <1>0, <1>2, <1>3 DEF RanIsConsumed, AtMostOncePerBoot
<1>4. CASE AnswerCommand(f) /\ ran' = Append(ran, Key(f))
  <2>1. /\ ~Consumed(source[f.src], f.nonce)
        /\ Consumed(source'[f.src], f.nonce)
    BY <1>0, <1>4, DispatchIsFresh
  <2>2. Key(f) \in Keys /\ Key(f).src = f.src /\ Key(f).nonce = f.nonce
    BY FrameTyped
  <2>3. /\ DOMAIN ran' = 1..(Len(ran) + 1) /\ DOMAIN ran = 1..Len(ran)
        /\ Len(ran) \in Nat
        /\ \A i \in 1..Len(ran) : ran'[i] = ran[i]
        /\ ran'[Len(ran) + 1] = Key(f)
    BY <1>0, <1>4, <2>2
  <2>4. \A i \in 1..Len(ran) : ~(ran[i].src = f.src /\ ran[i].nonce = f.nonce)
    BY <1>0, <2>1, <2>3 DEF RanIsConsumed
  <2>5. \A i \in DOMAIN ran' : i \in 1..Len(ran) \/ i = Len(ran) + 1
    BY <2>3
  <2>6. RanIsConsumed'
    BY <1>2, <2>1, <2>2, <2>3, <2>5 DEF RanIsConsumed
  <2>7. AtMostOncePerBoot'
    BY <1>0, <2>2, <2>3, <2>4, <2>5 DEF AtMostOncePerBoot
  <2> QED
    BY <2>6, <2>7
<1>5. ran' = ran \/ (AnswerCommand(f) /\ ran' = Append(ran, Key(f)))
  BY DEF Receive, RejectAuth, AnswerDuplicate, RejectConflict, RejectReplay,
         RejectRate, AnswerCommand, NoDispatch, Dispatch
<1> QED
  BY <1>3, <1>4, <1>5

\* Every step of the node's loop keeps the run commands apart.
LEMMA StepOnce == Few /\ OnceInv /\ [Next]_nodeVars => OnceInv'
<1> SUFFICES ASSUME Few, OnceInv, [Next]_nodeVars PROVE OnceInv'
  OBVIOUS
<1>0. TypeInv'
  BY StepTypeInv DEF OnceInv
<1>1. ASSUME NEW f \in Frames, Receive(f)
      PROVE  RanIsConsumed' /\ AtMostOncePerBoot'
  BY <1>1, ReceiveOnce
<1>2. CASE Restart \/ PowerLoss
  <2>1. ran' = <<>>
    BY <1>2 DEF Restart, PowerLoss, Boot
  <2>2. DOMAIN ran' = {}
    BY <2>1
  <2>3. RanIsConsumed'
    BY <2>2 DEF RanIsConsumed
  <2>4. AtMostOncePerBoot'
    BY <2>2 DEF AtMostOncePerBoot
  <2> QED
    BY <1>0, <2>3, <2>4 DEF OnceInv
<1>3. CASE UNCHANGED <<source, ran>>
  <2>1. source' = source /\ ran' = ran
    BY <1>3
  <2>2. RanIsConsumed'
    BY <2>1 DEF OnceInv, RanIsConsumed
  <2>3. AtMostOncePerBoot'
    BY <2>1 DEF OnceInv, AtMostOncePerBoot
  <2> QED
    BY <1>0, <2>2, <2>3 DEF OnceInv
<1>4. \/ \E f \in Frames : Receive(f)
      \/ Restart \/ PowerLoss
      \/ UNCHANGED <<source, ran>>
  BY DEF Next, ScheduleOtaReboot, OtaCheckBegins, OtaCheckEnds, OtaVerified, OtaStep,
         LinkChanges, Tick, nodeVars
<1> QED
  BY <1>0, <1>1, <1>2, <1>3, <1>4 DEF OnceInv

\* spec_control_f3.md, 11: as long as the source table holds every source that
\* talks to the node, no nonce of a source is run twice between two boots, for
\* any size of window, cache and bucket and whatever the cache forgets.
THEOREM RunsAtMostOnce == Few /\ Spec => []AtMostOncePerBoot
<1>1. Init => OnceInv
  BY InitTypeInv DEF Init, OnceInv, RanIsConsumed, AtMostOncePerBoot
<1>2. OnceInv => AtMostOncePerBoot
  BY DEF OnceInv
<1> SUFFICES ASSUME Few PROVE Spec => []AtMostOncePerBoot
  OBVIOUS
<1>3. OnceInv /\ [Next]_nodeVars => OnceInv'
  BY StepOnce
<1> QED
  BY <1>1, <1>2, <1>3, PTL DEF Spec

----------------------------------------------------------------------------
(* Truthful answers. *)

\* A command whose nonce the window lets through has not run
\* (evaluateAndRecordNonce).
LEMMA AcceptedHasNotRun ==
  ASSUME OnceInv, Few, NEW f \in Frames, NEW table \in SourceTables(f.src),
         ReplayDecision(table[f.src], f.nonce) = "accept"
  PROVE  ~HasRun(Key(f))
<1>1. TypeInv /\ RanIsConsumed
  BY DEF OnceInv
<1>2. /\ f.src \in Sources /\ f.nonce \in Nat
      /\ Key(f).src = f.src /\ Key(f).nonce = f.nonce
  BY FrameTyped
<1>3. table[f.src].used /\ table[f.src] \in SourceStates
  <2>1. table \in [Sources -> SourceStates] /\ table[f.src].used
    BY <1>1, <1>2, TableTyped
  <2> QED
    BY <1>2, <2>1
<1>4. ~Consumed(table[f.src], f.nonce)
  BY <1>2, <1>3, WindowNeverForgets
<1>5. ~Consumed(source[f.src], f.nonce)
  BY <1>1, <1>2, <1>4, FewNeverEvict
<1> QED
  BY <1>1, <1>2, <1>5 DEF HasRun, RanIsConsumed

\* Storing an answer adds one entry to those that are still alive
\* (storeAckCacheEntry).
LEMMA StoreAddsOne ==
  ASSUME NEW f, NEW status, StoreAnswer(f, status)
  PROVE  cache' \subseteq LiveCache \cup {Entry(f, status)}
  BY DEF StoreAnswer

\* A handler that runs nothing and answers, and stores, a status that fits what
\* has run so far keeps answers and cache truthful.
LEMMA AnswerWithoutRun ==
  ASSUME TruthInv, NEW f, NEW status, NEW dup, ran' = ran,
         reply' = Ack(f, status, dup),
         cache' \subseteq cache \cup {Entry(f, status)},
         status = "OK" => HasRun(Key(f)),
         status \in Refusals => ~HasRun(Key(f))
  PROVE  CacheIsTruthful' /\ AnswersAreTruthful'
<1>1. \A k : HasRun(k)' <=> HasRun(k)
  BY DEF HasRun
<1>2. Entry(f, status).key = Key(f) /\ Entry(f, status).status = status
  BY DEF Entry
<1>3. reply'.key = Key(f) /\ reply'.status = status
  BY DEF Ack
<1>4. CacheIsTruthful'
  BY <1>1, <1>2 DEF TruthInv, CacheIsTruthful
<1>5. AnswersAreTruthful'
  <2>1. /\ reply'.status = "OK" => \E i \in DOMAIN ran' : ran'[i] = reply'.key
        /\ reply'.status \in Refusals => ~\E i \in DOMAIN ran' : ran'[i] = reply'.key
    BY <1>3 DEF HasRun
  <2> QED
    BY <2>1 DEF AnswersAreTruthful
<1> QED
  BY <1>4, <1>5

\* Whichever way a frame is handled, answers and cache stay truthful
\* (buildAckForFrameWithSecurity).
LEMMA ReceiveTruthful ==
  ASSUME TruthInv, Few, NEW f \in Frames, Receive(f)
  PROVE  CacheIsTruthful' /\ AnswersAreTruthful'
<1>0. /\ OnceInv /\ ran \in Seq(Keys) /\ LiveCache \subseteq cache
      /\ Key(f) \in Keys
  BY FrameTyped DEF TruthInv, OnceInv, TypeInv, TypeOK, LiveCache
<1>1. CASE RejectAuth(f)
  <2>1. "INVALID_AUTH" \notin Refusals \cup {"OK"}
    BY DEF Refusals
  <2> QED
    BY <1>1, <2>1, AnswerWithoutRun DEF RejectAuth, NoDispatch
<1>2. CASE AnswerDuplicate(f)
  <2>1. PICK e \in ExactEntries(f) : reply' = Ack(f, e.status, TRUE)
    BY <1>2 DEF AnswerDuplicate
  <2>2. e \in cache /\ e.key = Key(f)
    BY <1>0, <2>1 DEF ExactEntries
  <2>3. /\ e.status = "OK" => HasRun(Key(f))
        /\ e.status \in Refusals => ~HasRun(Key(f))
    BY <2>2 DEF TruthInv, CacheIsTruthful
  <2>4. ran' = ran /\ cache' \subseteq cache
    BY <1>0, <1>2 DEF AnswerDuplicate, NoDispatch
  <2> QED
    BY <2>1, <2>3, <2>4, AnswerWithoutRun
<1>3. ASSUME NEW status, StoreAnswer(f, status), reply' = Ack(f, status, FALSE),
             NoDispatch,
             status # "OK", status \in Refusals => ~HasRun(Key(f))
      PROVE  CacheIsTruthful' /\ AnswersAreTruthful'
  BY <1>0, <1>3, StoreAddsOne, AnswerWithoutRun DEF NoDispatch
<1>4. CASE RejectConflict(f)
  <2>1. "NONCE_REUSED" \notin Refusals /\ "NONCE_REUSED" # "OK"
    BY DEF Refusals
  <2> QED
    BY <1>3, <1>4, <2>1 DEF RejectConflict
<1>5. CASE RejectReplay(f)
  <2>1. \A s, n : ReplayDecision(s, n) # "accept" =>
          ReplayDecision(s, n) \notin Refusals /\ ReplayDecision(s, n) # "OK"
    BY DEF ReplayDecision, Refusals
  <2> QED
    BY <1>3, <1>5, <2>1 DEF RejectReplay
<1>6. CASE RejectRate(f)
  <2>1. ~HasRun(Key(f))
    BY <1>0, <1>6, AcceptedHasNotRun DEF RejectRate
  <2> QED
    BY <1>3, <1>6, <2>1 DEF RejectRate
<1>7. CASE AnswerCommand(f)
  <2>1. ~HasRun(Key(f))
    BY <1>0, <1>7, AcceptedHasNotRun DEF AnswerCommand
  <2>2. CASE Verdict(f) # "OK"
    BY <1>3, <1>7, <2>1, <2>2 DEF AnswerCommand
  <2>3. CASE Verdict(f) = "OK"
    <3>1. ran' = Append(ran, Key(f))
      BY <1>7, <2>3 DEF AnswerCommand, Dispatch
    <3>2. \A k : HasRun(k)' <=> HasRun(k) \/ k = Key(f)
      <4>1. /\ DOMAIN ran' = 1..(Len(ran) + 1) /\ DOMAIN ran = 1..Len(ran)
            /\ Len(ran) \in Nat
            /\ \A i \in 1..Len(ran) : ran'[i] = ran[i]
            /\ ran'[Len(ran) + 1] = Key(f)
        BY <1>0, <3>1
      <4>2. \A i \in DOMAIN ran' : i \in DOMAIN ran \/ i = Len(ran) + 1
        BY <4>1
      <4>3. DOMAIN ran \subseteq DOMAIN ran' /\ Len(ran) + 1 \in DOMAIN ran'
        BY <4>1
      <4> QED
        BY <4>1, <4>2, <4>3 DEF HasRun
    <3>3. \A e \in LiveCache : e.key # Key(f)
      BY <1>7 DEF AnswerCommand, Novel, ExactEntries
    <3>4. cache' \subseteq LiveCache \cup {Entry(f, "OK")}
      BY <1>7, <2>3, StoreAddsOne DEF AnswerCommand
    <3>5. Entry(f, "OK").key = Key(f) /\ Entry(f, "OK").status = "OK"
          /\ "OK" \notin Refusals
      BY DEF Entry, Refusals
    <3>6. CacheIsTruthful'
      <4>1. ASSUME NEW e \in LiveCache
            PROVE  /\ e.status = "OK" => HasRun(e.key)'
                   /\ e.status \in Refusals => ~HasRun(e.key)'
        BY <1>0, <3>2, <3>3 DEF TruthInv, CacheIsTruthful
      <4> QED
        BY <3>2, <3>4, <3>5, <4>1 DEF CacheIsTruthful
    <3>7. reply'.key = Key(f) /\ reply'.status = "OK"
      BY <1>7, <2>3 DEF AnswerCommand, Ack
    <3>8. HasRun(Key(f))'
      BY <3>2
    <3> QED
      BY <3>5, <3>6, <3>7, <3>8 DEF AnswersAreTruthful, HasRun
  <2> QED
    BY <2>2, <2>3
<1> QED
  BY <1>1, <1>2, <1>4, <1>5, <1>6, <1>7 DEF Receive

\* Every step of the node's loop keeps answers and cache truthful.
LEMMA StepTruth == Few /\ TruthInv /\ [Next]_nodeVars => TruthInv'
<1> SUFFICES ASSUME Few, TruthInv, [Next]_nodeVars PROVE TruthInv'
  OBVIOUS
<1>0. OnceInv'
  BY StepOnce DEF TruthInv
<1>1. ASSUME NEW f \in Frames, Receive(f) PROVE CacheIsTruthful' /\ AnswersAreTruthful'
  BY <1>1, ReceiveTruthful
<1>2. CASE Restart \/ PowerLoss
  <2>1. cache' = {} /\ reply' = NoReply
    BY <1>2 DEF Restart, PowerLoss, Boot
  <2> QED
    BY <1>0, <2>1 DEF TruthInv, CacheIsTruthful, AnswersAreTruthful
<1>3. CASE UNCHANGED <<cache, ran, reply>>
  <2>1. \A k : HasRun(k)' <=> HasRun(k)
    BY <1>3 DEF HasRun
  <2>2. CacheIsTruthful'
    BY <1>3, <2>1 DEF TruthInv, CacheIsTruthful
  <2>3. AnswersAreTruthful'
    BY <1>3 DEF TruthInv, AnswersAreTruthful
  <2> QED
    BY <1>0, <2>2, <2>3 DEF TruthInv
<1>4. \/ \E f \in Frames : Receive(f)
      \/ Restart \/ PowerLoss
      \/ UNCHANGED <<cache, ran, reply>>
  BY DEF Next, ScheduleOtaReboot, OtaCheckBegins, OtaCheckEnds, OtaVerified, OtaStep,
         LinkChanges, Tick, nodeVars
<1> QED
  BY <1>0, <1>1, <1>2, <1>3, <1>4 DEF TruthInv

\* Initially nothing has run and nothing has been answered.
LEMMA InitTruthInv == Init => TruthInv
  BY InitTypeInv
     DEF Init, TruthInv, OnceInv, RanIsConsumed, AtMostOncePerBoot, CacheIsTruthful,
         AnswersAreTruthful

\* As long as the source table holds every source that talks to the node, an
\* answer, also one repeated from the cache, says what happened: OK of a command
\* that ran in this boot and a refusal of one that did not, for any size of
\* window, cache and bucket and any lifetime of an entry.
THEOREM TruthfulAnswers == Few /\ Spec => []AnswersAreTruthful
<1>1. TruthInv => AnswersAreTruthful
  BY DEF TruthInv
<1> SUFFICES ASSUME Few PROVE Spec => []AnswersAreTruthful
  OBVIOUS
<1>2. TruthInv /\ [Next]_nodeVars => TruthInv'
  BY StepTruth
<1> QED
  BY InitTruthInv, <1>1, <1>2, PTL DEF Spec
=============================================================================
