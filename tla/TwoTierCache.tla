---------------------------- MODULE TwoTierCache ----------------------------
(***************************************************************************)
(* The two-tier cache (backend/services/cache/cache.go, l1_cache.go,       *)
(* circuit_breaker.go, health.go): an LRU bounded in entries and bytes     *)
(* before Redis, and a breaker that keeps calls from a failing Redis.      *)
(* The lock of the first tier and that of the breaker are each held for    *)
(* one step only; a call of Redis lies between two steps.                  *)
(***************************************************************************)
EXTENDS Rows, SequencesExt, Functions

CONSTANTS
    Reqs, None, Keys, Values,      \* a value is a number, which is also its size
    maxEntries, maxSizeBytes,
    failureThreshold, openTimeout,
    L1TTL,                         \* life of a value taken from Redis
    SetTTL, MaxTime, MaxWrites

VARIABLES
    l1,                \* evictList, the front first: [key, value, expires]
    redis,             \* the second tier: [value, expires], or None
    cb,                \* the breaker [state, errors, since]
    req, now, writes,
    latest,            \* history: the value of the last Set of a key, None after a Delete
    raced,             \* history: keys with a write overlapping another access
    missed             \* history: keys with a write one tier did not take

vars == <<l1, redis, cb, req, now, writes, latest, raced, missed>>

TypeOK ==
    /\ \A i \in DOMAIN l1 : l1[i].key \in Keys /\ l1[i].value \in Values
    /\ cb.state \in {"CLOSED", "OPEN", "HALF_OPEN"} /\ cb.errors \in Nat /\ cb.since <= now

Init ==
    /\ l1 = <<>>
    /\ redis = [k \in Keys |-> None]
    /\ cb = [state |-> "CLOSED", errors |-> 0, since |-> 0]
    /\ req = [r \in Reqs |-> New]
    /\ now = 0 /\ writes = 0
    /\ latest = [k \in Keys |-> None]
    /\ raced = {} /\ missed = {}

Goto(r, q) == req' = [req EXCEPT ![r] = q]

-----------------------------------------------------------------------------
\* The first tier, under its lock.
At(k) == {i \in DOMAIN l1 : l1[i].key = k}
Fresh(e) == now <= e.expires
Without(k) == SelectSeq(l1, LAMBDA e : e.key # k)

Total(s) == FoldLeft(LAMBDA t, e : t + e.value, 0, s)

\* evictOldest drops entries from the back until the rest and the new one fit.
Fits(s, n, size) == Len(s) + n <= maxEntries /\ Total(s) + size <= maxSizeBytes

Kept(s, n, size) ==
    LET m == CHOOSE m \in 0..Len(s) :
                /\ Fits(SubSeq(s, 1, m), n, size) \/ m = 0
                /\ \A j \in (m + 1)..Len(s) : ~Fits(SubSeq(s, 1, j), n, size)
    IN  SubSeq(s, 1, m)

\* Set replaces the value of a key and moves it to the front before it
\* evicts; a new key makes room first.  A value over the limit is ignored.
L1Set(k, v, expires) ==
    LET e == [key |-> k, value |-> v, expires |-> expires] IN
    IF v > maxSizeBytes THEN l1
    ELSE IF At(k) # {} THEN Kept(<<e>> \o Without(k), 0, 0)
    ELSE <<e>> \o Kept(l1, 1, v)

-----------------------------------------------------------------------------
\* The breaker, under its lock.
AllowExecution ==
    IF cb.state = "OPEN" /\ now - cb.since >= openTimeout THEN [cb EXCEPT !.state = "HALF_OPEN", !.since = now] ELSE cb

Allowed == AllowExecution.state # "OPEN"

RecordSuccess(b) == IF b.state = "HALF_OPEN" THEN [state |-> "CLOSED", errors |-> 0, since |-> now] ELSE [b EXCEPT !.errors = 0]

Opens_HalfOnly(b) == b.state = "HALF_OPEN"

Opens(b) == b.state = "HALF_OPEN" \/ (b.state = "CLOSED" /\ b.errors + 1 >= failureThreshold)

RecordFailure(b) ==
    IF Opens(b) THEN [state |-> "OPEN", errors |-> b.errors + 1, since |-> now] ELSE [b EXCEPT !.errors = @ + 1]

-----------------------------------------------------------------------------
Busy(k) == {r \in Reqs : req[r] \notin {New, Done} /\ k \in req[r].keys}

\* Get: a hit moves to the front; an expired entry is removed; a miss asks
\* Redis when the breaker lets it.
GetHit(r, k) ==
    /\ req[r] = New
    /\ \E i \in At(k) : Fresh(l1[i]) /\ l1' = <<l1[i]>> \o Without(k)
    /\ Goto(r, Done)
    /\ UNCHANGED <<redis, cb, now, writes, latest, raced, missed>>

GetMiss(r, k) ==
    /\ req[r] = New
    /\ \A i \in At(k) : ~Fresh(l1[i])
    /\ l1' = Without(k)
    /\ cb' = AllowExecution
    /\ Goto(r, IF Allowed THEN [pc |-> "get", keys |-> {k}, key |-> k] ELSE Done)
    /\ raced' = IF \E p \in Busy(k) : req[p].pc = "write" THEN raced \cup {k} ELSE raced
    /\ UNCHANGED <<redis, now, writes, latest, missed>>

InRedis(k) == redis[k] # None /\ now < redis[k].expires

\* Redis answers: found, not there (the breaker is not told), or an error.
GetAnswer(r) ==
    LET k == req[r].key IN
    /\ req[r].pc = "get"
    /\ \/ /\ InRedis(k)
          /\ cb' = RecordSuccess(cb)
          /\ Goto(r, [pc |-> "fill", keys |-> {k}, key |-> k, value |-> redis[k].value])
       \/ /\ ~InRedis(k)
          /\ Goto(r, Done)
          /\ UNCHANGED cb
       \/ /\ cb' = RecordFailure(cb)
          /\ Goto(r, Done)
    /\ UNCHANGED <<l1, redis, now, writes, latest, raced, missed>>

GetFill(r) ==
    LET q == req[r] IN
    /\ q.pc = "fill"
    /\ l1' = L1Set(q.key, q.value, now + L1TTL)
    /\ Goto(r, Done)
    /\ UNCHANGED <<redis, cb, now, writes, latest, raced, missed>>

\* Set and Delete change the first tier, then Redis if the breaker lets them.
Write(r, k, v) ==
    /\ req[r] = New
    /\ writes < MaxWrites
    /\ writes' = writes + 1
    /\ l1' = IF v = None THEN Without(k) ELSE L1Set(k, v, now + SetTTL)
    /\ cb' = AllowExecution
    /\ latest' = [latest EXCEPT ![k] = v]
    /\ raced' = IF Busy(k) # {} THEN raced \cup {k} ELSE raced
    /\ missed' = IF Allowed /\ (v = None \/ v <= maxSizeBytes) THEN missed ELSE missed \cup {k}
    /\ Goto(r, IF Allowed THEN [pc |-> "write", keys |-> {k}, value |-> v] ELSE Done)
    /\ UNCHANGED <<redis, now>>

Set(r, k, v) == Write(r, k, v)

Delete(r, k) == Write(r, k, None)

\* InvalidatePrefix clears the whole first tier, then the keys in Redis.
InvalidatePrefix(r) ==
    /\ req[r] = New
    /\ writes < MaxWrites
    /\ writes' = writes + 1
    /\ l1' = <<>>
    /\ cb' = AllowExecution
    /\ latest' = [k \in Keys |-> None]
    /\ raced' = raced \cup {k \in Keys : Busy(k) # {}}
    /\ missed' = IF Allowed THEN missed ELSE Keys
    /\ Goto(r, IF Allowed THEN [pc |-> "write", keys |-> Keys, value |-> None] ELSE Done)
    /\ UNCHANGED <<redis, now>>

WriteAnswer(r) ==
    LET q == req[r]
        new == IF q.value = None THEN None ELSE [value |-> q.value, expires |-> now + SetTTL]
    IN
    /\ q.pc = "write"
    /\ \/ /\ redis' = [k \in Keys |-> IF k \in q.keys THEN new ELSE redis[k]]
          /\ cb' = RecordSuccess(cb)
          /\ UNCHANGED missed
       \/ /\ cb' = RecordFailure(cb)
          /\ missed' = missed \cup q.keys
          /\ UNCHANGED redis
    /\ Goto(r, Done)
    /\ UNCHANGED <<l1, now, writes, latest, raced>>

\* CheckRedisHealth pings unless the breaker is open.
CheckRedisHealth ==
    /\ cb.state # "OPEN"
    /\ cb.errors < failureThreshold + 1
    /\ cb' \in {RecordSuccess(cb), RecordFailure(cb)}
    /\ UNCHANGED <<l1, redis, req, now, writes, latest, raced, missed>>

Tick == now < MaxTime /\ now' = now + 1 /\ UNCHANGED <<l1, redis, cb, req, writes, latest, raced, missed>>

Next ==
    \/ \E r \in Reqs, k \in Keys : GetHit(r, k) \/ GetMiss(r, k) \/ Delete(r, k)
    \/ \E r \in Reqs, k \in Keys, v \in Values : Set(r, k, v)
    \/ \E r \in Reqs : GetAnswer(r) \/ GetFill(r) \/ WriteAnswer(r) \/ InvalidatePrefix(r)
    \/ CheckRedisHealth
    \/ Tick

-----------------------------------------------------------------------------
\* The first tier keeps within its limits through updates that change a
\* size, evictions, expiries and fills from Redis, one entry a key; and a
\* breaker that lets calls pass freely has seen fewer failures in a row
\* than its threshold.
TierIsBounded ==
    /\ Len(l1) <= maxEntries /\ Total(l1) <= maxSizeBytes
    /\ \A i, j \in DOMAIN l1 : i # j => l1[i].key # l1[j].key
    /\ cb.state = "CLOSED" => cb.errors < failureThreshold

\* Neither tier gives an old value: it holds the value set last or nothing,
\* unless another access overlapped the write, the write did not reach Redis
\* (a skipped deletion comes back from there), or it was too large for the
\* first tier, which keeps the old value.
TiersAgree ==
    \A k \in Keys \ (raced \cup missed) :
        /\ \A i \in At(k) : Fresh(l1[i]) => l1[i].value = latest[k]
        /\ Busy(k) = {} /\ InRedis(k) => redis[k].value = latest[k]

-----------------------------------------------------------------------------
(***************************************************************************)
(* Warming the cache (backend/services/cache/warming.go): workers take the *)
(* targets from a closed channel, skip those that are cached, load and     *)
(* store the others.  A worker that finds the context cancelled counts one *)
(* failure and leaves, the targets still in the channel uncounted.         *)
(***************************************************************************)
CONSTANTS
    Workers,
    Targets            \* a sequence of distinct keys

VARIABLES
    channel,           \* targets not taken yet, in order
    cached,            \* keys in the cache
    worker,            \* what each worker does: [pc, target]
    stats,             \* [warmed, skipped, failed]
    cancelled, done    \* done: WarmSync has returned

warmVars == <<channel, cached, worker, stats, cancelled, done>>

WarmTypeOK ==
    /\ Range(channel) \subseteq Range(Targets)
    /\ stats.warmed + stats.skipped + stats.failed <= Len(Targets)
    /\ cached \subseteq Range(Targets)
    /\ \A w \in Workers : worker[w].pc \in {"take", "look", "load", "store", "gone"}

Idle == [pc |-> "take", target |-> None]
Gone == [pc |-> "gone", target |-> None]

\* No more workers than targets.
WarmInit ==
    /\ channel = Targets
    /\ cached \in SUBSET Range(Targets)
    /\ \E s \in SUBSET Workers :
        /\ Cardinality(s) = IF Cardinality(Workers) < Len(Targets) THEN Cardinality(Workers) ELSE Len(Targets)
        /\ worker = [w \in Workers |-> IF w \in s THEN Idle ELSE Gone]
    /\ stats = [warmed |-> 0, skipped |-> 0, failed |-> 0]
    /\ cancelled = FALSE /\ done = FALSE

\* The channel is drained and closed: the worker ends.
Take(w) ==
    /\ worker[w].pc = "take"
    /\ IF channel = <<>> THEN worker' = [worker EXCEPT ![w] = Gone] /\ UNCHANGED channel
       ELSE /\ worker' = [worker EXCEPT ![w] = [pc |-> "look", target |-> Head(channel)]]
            /\ channel' = Tail(channel)
    /\ UNCHANGED <<cached, stats, cancelled, done>>

Look(w) ==
    LET t == worker[w].target IN
    /\ worker[w].pc = "look"
    /\ \/ /\ cancelled
          /\ stats' = [stats EXCEPT !.failed = @ + 1]
          /\ worker' = [worker EXCEPT ![w] = Gone]
       \/ /\ ~cancelled /\ t \in cached
          /\ stats' = [stats EXCEPT !.skipped = @ + 1]
          /\ worker' = [worker EXCEPT ![w] = Idle]
       \/ /\ ~cancelled /\ t \notin cached
          /\ worker' = [worker EXCEPT ![w].pc = "load"]
          /\ UNCHANGED stats
    /\ UNCHANGED <<channel, cached, cancelled, done>>

\* The loader, or the encoding of what it gave, may fail.
Failed(s) == [s EXCEPT !.failed = @ + 1]

Load(w, ok) ==
    /\ worker[w].pc = "load"
    /\ worker' = [worker EXCEPT ![w] = IF ok THEN [@ EXCEPT !.pc = "store"] ELSE Idle]
    /\ stats' = IF ok THEN stats ELSE Failed(stats)
    /\ UNCHANGED <<channel, cached, cancelled, done>>

Store(w, ok) ==
    /\ worker[w].pc = "store"
    /\ cached' = IF ok THEN cached \cup {worker[w].target} ELSE cached
    /\ stats' = IF ok THEN [stats EXCEPT !.warmed = @ + 1] ELSE Failed(stats)
    /\ worker' = [worker EXCEPT ![w] = Idle]
    /\ UNCHANGED <<channel, cancelled, done>>

Cancel == ~cancelled /\ ~done /\ cancelled' = TRUE /\ UNCHANGED <<channel, cached, worker, stats, done>>

\* wg.Wait
WarmSync ==
    /\ ~done
    /\ \A w \in Workers : worker[w] = Gone
    /\ done' = TRUE
    /\ UNCHANGED <<channel, cached, worker, stats, cancelled>>

WarmNext ==
    \/ \E w \in Workers : Take(w) \/ Look(w) \/ \E ok \in BOOLEAN : Load(w, ok) \/ Store(w, ok)
    \/ Cancel
    \/ WarmSync

-----------------------------------------------------------------------------
\* The statistics of a finished warming account for every target that was
\* taken, none twice, and for all of them when it was not cancelled; every
\* target counted as warmed or skipped is cached.
StatsAddUp ==
    done =>
        /\ stats.warmed + stats.skipped + stats.failed = Len(Targets) - Len(channel)
        /\ ~cancelled => channel = <<>>
        /\ stats.warmed + stats.skipped <= Cardinality(cached)
=============================================================================
