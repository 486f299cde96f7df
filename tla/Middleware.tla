----------------------------- MODULE Middleware ------------------------------
(***************************************************************************)
(* The two request limiters of the API for one client: the token bucket in *)
(* the memory of the process (backend/middleware/rate_limit.go) and the    *)
(* counter in Redis (backend/middleware/distributed_rate_limit.go).  A     *)
(* bucket nobody has used for a while is thrown away and made again full;  *)
(* the counter's time to live starts again with every request it admits.   *)
(***************************************************************************)
EXTENDS Rows, FiniteSetsExt

CONSTANTS
    None,
    rps, burst,        \* the bucket's rate per tick and its size
    Idle,              \* age at which cleanupLoop removes a bucket
    CleanupEvery,      \* its period
    GetBurst, MutateBurst, TTL,
    MaxTime, MaxRequests

VARIABLES
    bucket,            \* rateLimitEntry [tokens, at, lastSeen], or None
    counter,           \* the Redis key [count, expires], or None
    now, cleaned,      \* cleaned: when the last clean-up ran
    admitted,          \* history: times at which the bucket let a request pass
    counted,           \* history: times at which the counter did
    refused,           \* history: the counter's last refusal [at, limit], or None
    failOpen           \* history: requests passed because Redis failed

vars == <<bucket, counter, now, cleaned, admitted, counted, refused, failOpen>>

rateLimitEntry == [tokens : Nat, at : Nat, lastSeen : Nat]

Counter == [count : Nat, expires : Nat]

Refusal == [at : Nat, limit : Nat]

TypeOK ==
    /\ bucket # None => bucket.tokens \in 0..burst /\ bucket.at <= now
    /\ counter # None => counter.count \in 1..Max({GetBurst, MutateBurst})
    /\ now \in 0..MaxTime

Init ==
    /\ bucket = None /\ counter = None
    /\ now = 0 /\ cleaned = 0
    /\ admitted = <<>> /\ counted = <<>>
    /\ refused = None /\ failOpen = 0

Tokens_Uncapped(b) == b.tokens + rps * (now - b.at)

\* The tokens of a limiter of golang.org/x/time/rate at this time.
Tokens(b) == Min({burst, b.tokens + rps * (now - b.at)})

Entry == IF bucket = None THEN [tokens |-> burst, at |-> now, lastSeen |-> now] ELSE bucket

\* perClientStore.allow: one token is taken when there is one; lastSeen
\* moves whether the request passes or not.
allow ==
    LET t == Tokens(Entry) IN
    /\ Len(admitted) < MaxRequests
    /\ bucket' = [tokens |-> IF t >= 1 THEN t - 1 ELSE t, at |-> now, lastSeen |-> now]
    /\ admitted' = IF t >= 1 THEN Append(admitted, now) ELSE admitted
    /\ UNCHANGED <<counter, now, cleaned, counted, refused, failOpen>>

Expired_Early(b) == b.lastSeen < now

Expired(b) == b.lastSeen < now - Idle

cleanupLoop ==
    /\ now - cleaned >= CleanupEvery
    /\ cleaned' = now
    /\ bucket' = IF bucket # None /\ Expired(bucket) THEN None ELSE bucket
    /\ UNCHANGED <<counter, now, admitted, counted, refused, failOpen>>

\* The script of checkLimit, one step in Redis; GET and the other methods
\* have limits of their own but share the key.
Count == IF counter # None /\ counter.expires > now THEN counter.count ELSE 0

checkLimit(limit) ==
    /\ Len(counted) < MaxRequests
    /\ \/ /\ Count < limit
          /\ counter' = [count |-> Count + 1, expires |-> now + TTL]
          /\ counted' = Append(counted, now)
          /\ UNCHANGED refused
       \/ /\ Count >= limit
          /\ refused' = [at |-> now, limit |-> limit]
          /\ UNCHANGED <<counter, counted>>
    /\ UNCHANGED <<bucket, now, cleaned, admitted, failOpen>>

\* A failing Redis lets the request pass.
checkLimitFails ==
    /\ failOpen < 1
    /\ failOpen' = failOpen + 1
    /\ UNCHANGED <<bucket, counter, now, cleaned, admitted, counted, refused>>

Tick == now < MaxTime /\ now' = now + 1
        /\ UNCHANGED <<bucket, counter, cleaned, admitted, counted, refused, failOpen>>

Next ==
    \/ allow
    \/ cleanupLoop
    \/ \E limit \in {GetBurst, MutateBurst} : checkLimit(limit)
    \/ checkLimitFails
    \/ Tick

Spec == Init /\ [][Next]_vars

-----------------------------------------------------------------------------
Within(times, a, b) == Cardinality({k \in DOMAIN times : a <= times[k] /\ times[k] <= b})

\* Over every span of time the bucket lets at most its size and what drips
\* into it pass, even when the clean-up has thrown it away and the next
\* request begins with a full one (the idle time fills a bucket).  The
\* counter lets at most the larger limit pass in a span shorter than its
\* time to live, and whoever it refuses was let in less than that time ago,
\* so a client that waits is let in again.
LimitsHold ==
    /\ burst <= rps * Idle => \A a \in 0..now : \A b \in a..now : Within(admitted, a, b) <= burst + rps * (b - a)
    /\ \A a \in 0..now : Within(counted, a, Min({now, a + TTL - 1})) <= Max({GetBurst, MutateBurst})
    /\ refused # None => \E k \in DOMAIN counted : counted[k] <= refused.at /\ refused.at < counted[k] + TTL

-----------------------------------------------------------------------------
(***************************************************************************)
(* Device sessions (backend/middleware/session_validator.go, backend/      *)
(* handlers/auth/session.go): every request that carries a session token   *)
(* is checked, first in Redis, then in the database; a positive answer is  *)
(* kept in Redis for sessionCacheTTL, and no revocation removes it.        *)
(***************************************************************************)
CONSTANTS DeviceReqs, DeviceTokens, Lifetime, sessionCacheTTL, DeviceMaxTime

VARIABLES
    deviceNow,
    deviceSessions,    \* deviceSessions[t]: [created, revoked, revokedAt, expires]
    cache,             \* cache[t]: when the Redis key of t lapses; 0 without one
    deviceReq,
    last,              \* history: when t was last accepted; -1 never
    raced              \* history: tokens accepted on an answer already out of date

deviceVars == <<deviceNow, deviceSessions, cache, deviceReq, last, raced>>

DeviceTypeOK ==
    /\ deviceNow \in 0..DeviceMaxTime
    /\ \A t \in DeviceTokens : cache[t] \in Nat /\ last[t] \in -1..DeviceMaxTime
    /\ \A t \in DeviceTokens : deviceSessions[t].revoked => deviceSessions[t].created
    /\ raced \subseteq DeviceTokens

NoSession == [created |-> FALSE, revoked |-> FALSE, revokedAt |-> 0, expires |-> 0]

DeviceInit ==
    /\ deviceNow = 0
    /\ deviceSessions = [t \in DeviceTokens |-> NoSession]
    /\ cache = [t \in DeviceTokens |-> 0]
    /\ deviceReq = [r \in DeviceReqs |-> New]
    /\ last = [t \in DeviceTokens |-> -1]
    /\ raced = {}

\* The rows are written outside this code.
CreateDeviceSession(t) ==
    /\ ~deviceSessions[t].created
    /\ deviceSessions' = [deviceSessions EXCEPT ![t] = [NoSession EXCEPT !.created = TRUE, !.expires = deviceNow + Lifetime]]
    /\ UNCHANGED <<deviceNow, cache, deviceReq, last, raced>>

Live(t) == deviceSessions[t].created /\ ~deviceSessions[t].revoked /\ deviceSessions[t].expires > deviceNow

\* The key is in Redis: the database is not asked.  Redis may not answer.
Hit(r, t) ==
    /\ deviceReq[r] = New
    /\ cache[t] > deviceNow
    /\ last' = [last EXCEPT ![t] = deviceNow]
    /\ deviceReq' = [deviceReq EXCEPT ![r] = Done]
    /\ UNCHANGED <<deviceNow, deviceSessions, cache, raced>>

Lookup(r, t) ==
    /\ deviceReq[r] = New
    /\ deviceReq' = [deviceReq EXCEPT ![r] = IF Live(t) THEN [pc |-> "valid", token |-> t] ELSE Done]
    /\ UNCHANGED <<deviceNow, deviceSessions, cache, last, raced>>

Lapses(t) == deviceNow + sessionCacheTTL

\* The errors of Redis are not looked at.
Accept(r, stored) ==
    LET t == deviceReq[r].token IN
    /\ deviceReq[r].pc = "valid"
    /\ cache' = IF stored THEN [cache EXCEPT ![t] = Lapses(t)] ELSE cache
    /\ last' = [last EXCEPT ![t] = deviceNow]
    /\ raced' = IF Live(t) THEN raced ELSE raced \cup {t}
    /\ deviceReq' = [deviceReq EXCEPT ![r] = Done]
    /\ UNCHANGED <<deviceNow, deviceSessions>>

\* An update of three columns of the row; the check of the status comes from
\* a read before it.
RevokeRead(r, t) ==
    /\ deviceReq[r] = New
    /\ deviceSessions[t].created /\ ~deviceSessions[t].revoked
    /\ deviceReq' = [deviceReq EXCEPT ![r] = [pc |-> "revoke", token |-> t]]
    /\ UNCHANGED <<deviceNow, deviceSessions, cache, last, raced>>

Revoked(s) == [s EXCEPT !.revoked = TRUE, !.revokedAt = deviceNow]

RevokeSession(r) ==
    /\ deviceReq[r].pc = "revoke"
    /\ deviceSessions' = [deviceSessions EXCEPT ![deviceReq[r].token] = Revoked(@)]
    /\ deviceReq' = [deviceReq EXCEPT ![r] = Done]
    /\ UNCHANGED <<deviceNow, cache, last, raced>>

\* The tokens of the model are those of one user.
RevokeAllSessions(r) ==
    /\ deviceReq[r] = New
    /\ deviceSessions' = [t \in DeviceTokens |->
            LET s == deviceSessions[t] IN IF s.created /\ ~s.revoked THEN Revoked(s) ELSE s]
    /\ deviceReq' = [deviceReq EXCEPT ![r] = Done]
    /\ UNCHANGED <<deviceNow, cache, last, raced>>

DeviceTick == deviceNow < DeviceMaxTime /\ deviceNow' = deviceNow + 1 /\ UNCHANGED <<deviceSessions, cache, deviceReq, last, raced>>

DeviceNext ==
    \/ \E t \in DeviceTokens : CreateDeviceSession(t)
    \/ \E r \in DeviceReqs, t \in DeviceTokens : Hit(r, t) \/ Lookup(r, t) \/ RevokeRead(r, t)
    \/ \E r \in DeviceReqs, stored \in BOOLEAN : Accept(r, stored)
    \/ \E r \in DeviceReqs : RevokeSession(r) \/ RevokeAllSessions(r)
    \/ DeviceTick

DeviceSpec == DeviceInit /\ [][DeviceNext]_deviceVars

-----------------------------------------------------------------------------
\* A session outlives its revocation, and its expiry, by less than the
\* lifetime of the Redis key: only a validation that had read the row before,
\* and stored its answer after, keeps it longer.
RevocationIsBounded ==
    \A t \in DeviceTokens \ raced :
        /\ deviceSessions[t].revoked => last[t] < deviceSessions[t].revokedAt + sessionCacheTTL
        /\ last[t] < deviceSessions[t].expires + sessionCacheTTL
=============================================================================
