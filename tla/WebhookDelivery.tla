--------------------------- MODULE WebhookDelivery --------------------------
(***************************************************************************)
(* Outgoing webhooks (backend/services/webhook_delivery.go, backend/       *)
(* handlers/outgoing_webhooks.go): subscriptions, the delivery log, the    *)
(* goroutines that post, retries and the dead-letter queue.  A goroutine   *)
(* works on its own copy of the log row and saves all of it at its end.    *)
(***************************************************************************)
EXTENDS Rows

CONSTANTS
    Subs, Workers, None,
    maxRetries,
    Backoff,           \* Backoff[n]: backoffSchedule
    Retention,         \* dlqRetentionDays
    MaxLogs, MaxPosts, MaxTime

VARIABLES
    subs,              \* subs[s]: "none", "active", "inactive" or "deleted"
    logs,              \* rows [sub, status, attempts, next, dlq, at], or None once purged;
                       \* next is 0 before the first retry is scheduled
    work,              \* work[w]: a goroutine [pc, id, row], or New
    posts, accepted,   \* history: requests sent and answered with success, by log
    crossed,           \* history: logs two goroutines worked on, or that a crash cut off
    now

vars == <<subs, logs, work, posts, accepted, crossed, now>>

Ids == {i \in DOMAIN logs : logs[i] # None}

Busy(i) == {w \in Workers : work[w] # New /\ work[w].id = i}

TypeOK ==
    /\ \A i \in Ids : logs[i].status \in {"pending", "success", "failed", "abandoned"}
    /\ \A w \in Workers : work[w] # New => work[w].pc \in {"reset", "deliver"}

Init ==
    /\ subs = [s \in Subs |-> "none"]
    /\ logs = <<>>
    /\ work = [w \in Workers |-> New]
    /\ posts = <<>>
    /\ accepted = {}
    /\ crossed = {}
    /\ now = 0

SetSubscription(s, status) ==
    /\ IF status = "active" THEN subs[s] # "deleted" ELSE subs[s] \in {"active", "inactive"}
    /\ subs' = [subs EXCEPT ![s] = status]
    /\ UNCHANGED <<logs, work, posts, accepted, crossed, now>>

Fresh(s) == [sub |-> s, status |-> "pending", attempts |-> 0, next |-> 0, dlq |-> FALSE, at |-> now]

\* One subscription's turn of Dispatch: the log row, then the goroutine.
Dispatch(w, s) ==
    /\ subs[s] = "active"
    /\ work[w] = New
    /\ Len(logs) < MaxLogs
    /\ logs' = Append(logs, Fresh(s))
    /\ posts' = Append(posts, 0)
    /\ work' = [work EXCEPT ![w] = [pc |-> "deliver", id |-> Len(logs) + 1, row |-> Fresh(s)]]
    /\ UNCHANGED <<subs, accepted, crossed, now>>

Crossed(i) == IF Busy(i) # {} THEN crossed \cup {i} ELSE crossed

Due_Any(i) == logs[i].next <= now /\ logs[i].attempts < maxRetries

\* The rows RetryPending selects.
Due(i) ==
    /\ logs[i].status \in {"pending", "failed"}
    /\ logs[i].next <= now
    /\ logs[i].attempts < maxRetries

RetryPending(w, i) ==
    /\ work[w] = New
    /\ Due(i)
    /\ subs[logs[i].sub] # "deleted"
    /\ work' = [work EXCEPT ![w] = [pc |-> "deliver", id |-> i, row |-> logs[i]]]
    /\ crossed' = Crossed(i)
    /\ UNCHANGED <<subs, logs, posts, accepted, now>>

\* RetrySpecific, which RetryAllFailed and ReplayFromDLQ call for each row.
RetrySpecific(w, i) ==
    /\ work[w] = New
    /\ logs[i].status # "success"
    /\ subs[logs[i].sub] # "deleted"
    /\ work' = [work EXCEPT ![w] = [pc |-> "reset", id |-> i,
                   row |-> [logs[i] EXCEPT !.attempts = 0, !.status = "pending", !.dlq = FALSE]]]
    /\ crossed' = Crossed(i)
    /\ UNCHANGED <<subs, logs, posts, accepted, now>>

\* A save of a row that has been purged inserts it again.
SaveReset(w) ==
    LET q == work[w] IN
    /\ q.pc = "reset"
    /\ logs' = [logs EXCEPT ![q.id] = [q.row EXCEPT !.at = now]]
    /\ posts' = [posts EXCEPT ![q.id] = 0]
    /\ work' = [work EXCEPT ![w].pc = "deliver"]
    /\ UNCHANGED <<subs, accepted, crossed, now>>

calculateBackoff(attempts) == Backoff[IF attempts > Len(Backoff) THEN Len(Backoff) ELSE attempts]

Attempted(row) == [row EXCEPT !.attempts = row.attempts + 1, !.at = now]

scheduleRetry(row) == [row EXCEPT !.status = "failed", !.next = now + calculateBackoff(row.attempts)]

moveToDLQ(row) == [row EXCEPT !.status = "abandoned", !.dlq = TRUE]

IsExhausted(row) == row.attempts >= maxRetries

Answers == {"accepted", "client_error", "server_error", "no_answer"}

\* A transport error is retried whatever the count, which RetryPending then
\* leaves alone once it has reached maxRetries.
Outcome(row, answer) ==
    CASE answer = "accepted"     -> [row EXCEPT !.status = "success"]
      [] answer = "client_error" -> moveToDLQ(row)
      [] answer = "server_error" -> IF IsExhausted(row) THEN moveToDLQ(row) ELSE scheduleRetry(row)
      [] answer = "no_answer"    -> scheduleRetry(row)

deliver(w, answer) ==
    LET q == work[w] IN
    /\ q.pc = "deliver"
    /\ posts[q.id] < MaxPosts
    /\ posts' = [posts EXCEPT ![q.id] = @ + 1]
    /\ logs' = [logs EXCEPT ![q.id] = Outcome(Attempted(q.row), answer)]
    /\ accepted' = IF answer = "accepted" THEN accepted \cup {q.id} ELSE accepted
    /\ work' = [work EXCEPT ![w] = New]
    /\ UNCHANGED <<subs, crossed, now>>

PurgeOldDLQ ==
    /\ logs' = [i \in DOMAIN logs |-> IF i \in Ids /\ logs[i].status = "abandoned" /\ logs[i].at < now - Retention
                                      THEN None ELSE logs[i]]
    /\ UNCHANGED <<subs, work, posts, accepted, crossed, now>>

\* The process dies; what was being posted may have arrived.
Crash ==
    /\ \E arrived \in SUBSET {work[w].id : w \in {v \in Workers : work[v] # New /\ work[v].pc = "deliver"}} :
        accepted' = accepted \cup arrived
    /\ crossed' = crossed \cup {work[w].id : w \in {v \in Workers : work[v] # New}}
    /\ work' = [w \in Workers |-> New]
    /\ UNCHANGED <<subs, logs, posts, now>>

Tick == now < MaxTime /\ now' = now + 1 /\ UNCHANGED <<subs, logs, work, posts, accepted, crossed>>

Next ==
    \/ \E s \in Subs, status \in {"active", "inactive", "deleted"} : SetSubscription(s, status)
    \/ \E w \in Workers, s \in Subs : Dispatch(w, s)
    \/ \E w \in Workers, i \in Ids : RetryPending(w, i) \/ RetrySpecific(w, i)
    \/ \E w \in Workers : SaveReset(w)
    \/ \E w \in Workers, a \in Answers : deliver(w, a)
    \/ PurgeOldDLQ \/ Crash \/ Tick

Spec == Init /\ [][Next]_vars

-----------------------------------------------------------------------------
\* The log tells what happened: unless two goroutines worked on a row, or a
\* crash cut one off, the row counts the posts since it was last reset, says
\* success exactly when the receiver accepted (and then nothing posts it
\* again), is given up only for a reason, and never exceeds its retries.
LogTellsDelivery ==
    \A i \in Ids \ crossed :
        LET row == logs[i] IN
        /\ row.attempts = posts[i] /\ posts[i] <= maxRetries
        /\ row.status = "success" <=> i \in accepted
        /\ row.status = "success" => Busy(i) = {}
        /\ row.status = "abandoned" <=> row.dlq
=============================================================================
