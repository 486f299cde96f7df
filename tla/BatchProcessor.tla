--------------------------- MODULE BatchProcessor ---------------------------
(***************************************************************************)
(* Batches of transfers (backend/services/batch_processor.go, backend/     *)
(* services/batch_retry.go, backend/handlers/batch.go): submission and     *)
(* cancellation, the bounded in-memory queue with its workers, the queue   *)
(* table, and retries.                                                     *)
(***************************************************************************)
EXTENDS Rows, FiniteSetsExt

CONSTANTS
    Workers, Reqs, None,
    QueueSize,
    MaxRetries,
    InitialBackoff, MaxBackoff,
    MaxBatches, MaxTime, MaxCrashes

VARIABLES
    batches,           \* rows [status, ops, retries, retryable]; ops "given", or "results" once run
    entries,           \* batch_queue: entries[i] = [scheduled, processed], or None
    queue,             \* the channel of batch ids
    work,              \* work[w]: New, or [pc, id, ops, outcome]
    req,               \* cancellations
    committed,         \* history: how often the transfers of a batch were committed
    cancelled,         \* history: batches whose cancellation was confirmed
    raced,             \* history: batches with two workers, or a worker and a cancellation
    crashes, now

vars == <<batches, entries, queue, work, req, committed, cancelled, raced, crashes, now>>

Ids == DOMAIN batches

At(i) == {w \in Workers : work[w] # New /\ work[w].id = i}

TypeOK ==
    /\ \A i \in Ids : batches[i].status \in
            {"queued", "processing", "completed", "completed_with_errors", "failed", "rolled_back"}
    /\ Len(queue) <= QueueSize
    /\ cancelled \subseteq Ids

Init ==
    /\ batches = <<>>
    /\ entries = <<>>
    /\ queue = <<>>
    /\ work = [w \in Workers |-> New]
    /\ req = [r \in Reqs |-> New]
    /\ committed = <<>>
    /\ cancelled = {}
    /\ raced = {}
    /\ crashes = 0
    /\ now = 0

\* Enqueue never blocks: a full queue is an error, which the callers pass over.
Enqueued(i) == IF Len(queue) < QueueSize THEN Append(queue, i) ELSE queue

\* tx_hash is unique and empty until a batch has run: one such batch at a time.
SubmitBatch ==
    LET i == Len(batches) + 1 IN
    /\ i <= MaxBatches
    /\ \A j \in Ids : batches[j].ops = "results"
    /\ batches' = Append(batches, [status |-> "queued", ops |-> "given", retries |-> 0, retryable |-> TRUE])
    /\ entries' = Append(entries, [scheduled |-> now, processed |-> FALSE])
    /\ queue' = Enqueued(i)
    /\ committed' = Append(committed, 0)
    /\ UNCHANGED <<work, req, cancelled, raced, crashes, now>>

CancelRead(r, i) ==
    /\ req[r] = New
    /\ batches[i].status = "queued"
    /\ req' = [req EXCEPT ![r] = [pc |-> "cancel", id |-> i]]
    /\ UNCHANGED <<batches, entries, queue, work, committed, cancelled, raced, crashes, now>>

CancelBatch(r) ==
    LET i == req[r].id IN
    /\ req[r].pc = "cancel"
    /\ batches' = [batches EXCEPT ![i].status = "rolled_back"]
    /\ entries' = [entries EXCEPT ![i] = None]
    /\ cancelled' = cancelled \cup {i}
    /\ raced' = IF batches[i].status # "queued" \/ At(i) # {} THEN raced \cup {i} ELSE raced
    /\ req' = [req EXCEPT ![r] = Done]
    /\ UNCHANGED <<queue, work, committed, crashes, now>>

StillQueued_Any(i) == TRUE

StillQueued(i) == batches[i].status = "queued"

\* A worker takes the next id and reads the batch.
Take(w) ==
    /\ work[w] = New
    /\ queue # <<>>
    /\ queue' = Tail(queue)
    /\ IF StillQueued(Head(queue))
       THEN /\ work' = [work EXCEPT ![w] = [pc |-> "mark", id |-> Head(queue), outcome |-> None,
                                              ops |-> batches[Head(queue)].ops]]
            /\ raced' = IF At(Head(queue)) # {} THEN raced \cup {Head(queue)} ELSE raced
       ELSE UNCHANGED <<work, raced>>
    /\ UNCHANGED <<batches, entries, req, committed, cancelled, crashes, now>>

Mark(w) ==
    LET i == work[w].id IN
    /\ work[w].pc = "mark"
    /\ batches' = [batches EXCEPT ![i].status = "processing"]
    /\ raced' = IF StillQueued(i) THEN raced ELSE raced \cup {i}
    /\ work' = [work EXCEPT ![w].pc = "run"]
    /\ UNCHANGED <<entries, queue, req, committed, cancelled, crashes, now>>

\* What was stored as the operations of a batch that has run are its results,
\* in which no asset is named: every transfer of a retry fails for good.
Outcomes(ops) ==
    IF ops = "given" THEN {"completed", "completed_with_errors", "transient", "permanent"}
    ELSE {"permanent"}

Run(w, outcome) ==
    LET i == work[w].id IN
    /\ work[w].pc = "run"
    /\ outcome \in Outcomes(work[w].ops)
    /\ committed' = IF outcome \in {"transient", "permanent"} THEN committed ELSE [committed EXCEPT ![i] = @ + 1]
    /\ work' = [work EXCEPT ![w] = [@ EXCEPT !.pc = "finish", !.outcome = outcome]]
    /\ UNCHANGED <<batches, entries, queue, req, cancelled, raced, crashes, now>>

CalculateBackoff(retries) == Min({InitialBackoff * 2 ^ retries, MaxBackoff})

MayRetry(i) == batches[i].retryable /\ batches[i].retries < MaxRetries

\* The results, then ScheduleRetry for a failure that may pass.
Finish(w) ==
    LET q    == work[w]
        ran  == [batches[q.id] EXCEPT !.ops = "results"]
        next == now + CalculateBackoff(ran.retries)
    IN  /\ q.pc = "finish"
        /\ IF q.outcome = "transient" /\ MayRetry(q.id)
           THEN /\ batches' = [batches EXCEPT ![q.id] = [ran EXCEPT !.status = "queued", !.retries = ran.retries + 1]]
                /\ entries' = [entries EXCEPT ![q.id] = [scheduled |-> next, processed |-> FALSE]]
           ELSE /\ batches' = [batches EXCEPT ![q.id] =
                       IF q.outcome \in {"transient", "permanent"}
                       THEN [ran EXCEPT !.status = "failed", !.retryable = FALSE]
                       ELSE [ran EXCEPT !.status = q.outcome]]
                /\ entries' = [entries EXCEPT ![q.id] = None]
        /\ work' = [work EXCEPT ![w] = New]
        /\ UNCHANGED <<queue, req, committed, cancelled, raced, crashes, now>>

\* The user's retry reads the batch and resets it; no row is held.
ManualRetry(i) ==
    /\ batches[i].status \in {"failed", "completed_with_errors", "rolled_back"}
    /\ batches[i].retries <= MaxRetries
    /\ batches' = [batches EXCEPT ![i] =
            [batches[i] EXCEPT !.status = "queued", !.retries = batches[i].retries + 1, !.retryable = TRUE]]
    /\ entries' = [entries EXCEPT ![i] = [scheduled |-> now, processed |-> FALSE]]
    /\ queue' = Enqueued(i)
    /\ raced' = IF At(i) # {} THEN raced \cup {i} ELSE raced
    /\ cancelled' = cancelled \ {i}
    /\ UNCHANGED <<work, req, committed, crashes, now>>

\* One entry's turn of ProcessPendingRetries.
ProcessPendingRetries(i) ==
    /\ entries[i] # None
    /\ ~entries[i].processed
    /\ entries[i].scheduled <= now
    /\ Len(queue) < QueueSize
    /\ queue' = Append(queue, i)
    /\ entries' = [entries EXCEPT ![i].processed = TRUE]
    /\ UNCHANGED <<batches, work, req, committed, cancelled, raced, crashes, now>>

\* The queue and the workers are in memory only.
Crash ==
    /\ crashes < MaxCrashes
    /\ crashes' = crashes + 1
    /\ queue' = <<>>
    /\ work' = [w \in Workers |-> New]
    /\ UNCHANGED <<batches, entries, req, committed, cancelled, raced, now>>

Tick == now < MaxTime /\ now' = now + 1 /\ UNCHANGED <<batches, entries, queue, work, req, committed, cancelled, raced, crashes>>

Next ==
    \/ SubmitBatch
    \/ \E r \in Reqs, i \in Ids : CancelRead(r, i)
    \/ \E r \in Reqs : CancelBatch(r)
    \/ \E w \in Workers : Take(w) \/ Mark(w) \/ Finish(w)
    \/ \E w \in Workers, o \in {"completed", "completed_with_errors", "transient", "permanent"} : Run(w, o)
    \/ \E i \in Ids : ManualRetry(i) \/ ProcessPendingRetries(i)
    \/ Crash \/ Tick

Spec == Init /\ [][Next]_vars

-----------------------------------------------------------------------------
\* However often a batch is queued, retried and cut off by a crash, its
\* transfers are committed at most once, a batch that ended well has
\* committed them, and one cancelled before any retry never will: unless two
\* workers, or a worker and a cancellation, held it at once.
TransfersRunOnce ==
    \A i \in Ids \ raced :
        /\ committed[i] <= 1
        /\ batches[i].status \in {"completed", "completed_with_errors"} => committed[i] = 1
        /\ batches[i].status = "failed" /\ batches[i].retries = 0 => committed[i] = 0
        /\ i \in cancelled => batches[i].status = "rolled_back" /\ (batches[i].retries = 0 => committed[i] = 0)

-----------------------------------------------------------------------------
(***************************************************************************)
(* Batches run inside the request (ExecuteBatch and RollbackBatch of       *)
(* backend/handlers/assets.go): the operations share one transaction, the  *)
(* progress is saved outside of it.  In PostgreSQL a statement that fails  *)
(* aborts the transaction: the statements after it fail too, and the       *)
(* commit, whose error is not looked at, keeps nothing.                    *)
(***************************************************************************)
CONSTANTS OpReqs, OpLists, MaxBatchSize, OpMaxBatches

VARIABLES
    opBatches,         \* rows [status, ops, hash, completed, failed]
    transactions,      \* <<batch, index>> of the transfer records
    listings,          \* listings[<<b, i>>]: active or not, for those created
    opReq,
    aborted,           \* history: batches whose transaction was aborted
    succeeded,         \* history: succeeded[b]: indices reported as successes
    opCrashes

opVars == <<opBatches, transactions, listings, opReq, aborted, succeeded, opCrashes>>

OpIds == DOMAIN opBatches

OpTypeOK ==
    /\ \A b \in OpIds :
        /\ opBatches[b].status \in {"processing", "completed", "completed_with_errors", "failed", "rolled_back"}
        /\ opBatches[b].completed + opBatches[b].failed <= Len(opBatches[b].ops)
    /\ transactions \subseteq OpIds \X (1..MaxBatchSize)
    /\ \A l \in DOMAIN listings : listings[l] \in BOOLEAN

OpInit ==
    /\ opBatches = <<>> /\ transactions = {} /\ listings = << >>
    /\ opReq = [r \in OpReqs |-> New]
    /\ aborted = {} /\ succeeded = <<>> /\ opCrashes = 0

\* tx_hash is unique and empty, here "unset", until the batch is saved with
\* its own.
ExecuteBatch(r, ops) ==
    LET b == Len(opBatches) + 1 IN
    /\ opReq[r] = New
    /\ b <= OpMaxBatches
    /\ ops # <<>> /\ Len(ops) <= MaxBatchSize
    /\ \A c \in OpIds : opBatches[c].hash # "unset"
    /\ opBatches' = Append(opBatches, [status |-> "processing", ops |-> ops, hash |-> "unset", completed |-> 0, failed |-> 0])
    /\ succeeded' = Append(succeeded, {})
    /\ opReq' = [opReq EXCEPT ![r] = [pc |-> "run", batch |-> b, next |-> 1, ok |-> {}, aborted |-> FALSE]]
    /\ UNCHANGED <<transactions, listings, aborted, opCrashes>>

\* What an operation may come to: done, refused without a statement failing
\* (no such asset or listing, no listing named, unknown type), or failed.
OpOutcomes(q) == IF q.aborted THEN {"failed"} ELSE {"done", "refused", "failed"}

RunOperation(r, outcome) ==
    LET q == opReq[r]
        ok == IF outcome = "done" THEN q.ok \cup {q.next} ELSE q.ok
    IN
    /\ q.pc = "run" /\ q.next <= Len(opBatches[q.batch].ops)
    /\ outcome \in OpOutcomes(q)
    /\ opReq' = [opReq EXCEPT ![r] = [q EXCEPT !.next = q.next + 1, !.ok = ok,
                                            !.aborted = q.aborted \/ outcome = "failed"]]
    /\ opBatches' = [opBatches EXCEPT ![q.batch].completed = Cardinality(ok),
                                  ![q.batch].failed = q.next - Cardinality(ok)]
    /\ UNCHANGED <<transactions, listings, aborted, succeeded, opCrashes>>

OpsOf(b, kind, s) == {<<b, i>> : i \in {j \in s : opBatches[b].ops[j] = kind}}

\* A cancelled listing is one of an earlier batch, or of this one.
Cancels(q) == OpsOf(q.batch, "cancel_listing", q.ok) # {}

Deactivated(s) == [l \in DOMAIN listings |-> IF l \in s THEN FALSE ELSE listings[l]]

Committed(q, withdrawn) ==
    LET old == Deactivated(withdrawn)
        new == OpsOf(q.batch, "list", q.ok)
    IN [l \in DOMAIN listings \cup new |-> IF l \in new THEN TRUE ELSE old[l]]

OpFinish(r, withdrawn) ==
    LET q == opReq[r]
        b == q.batch
        all == q.ok = {}
        kept == ~all /\ ~q.aborted
    IN
    /\ q.pc = "run" /\ q.next > Len(opBatches[b].ops)
    /\ withdrawn # {} => Cancels(q)
    /\ IF kept
       THEN /\ transactions' = transactions \cup OpsOf(b, "transfer", q.ok)
            /\ listings' = Committed(q, withdrawn)
       ELSE UNCHANGED <<transactions, listings>>
    /\ aborted' = IF q.aborted THEN aborted \cup {b} ELSE aborted
    /\ succeeded' = [succeeded EXCEPT ![b] = q.ok]
    /\ opReq' = [opReq EXCEPT ![r] = [pc |-> "save", batch |-> b,
            status |-> IF all THEN "failed"
                       ELSE IF Cardinality(q.ok) < Len(opBatches[b].ops) THEN "completed_with_errors" ELSE "completed"]]
    /\ UNCHANGED <<opBatches, opCrashes>>

SaveBatch(r) ==
    LET q == opReq[r] IN
    /\ q.pc = "save"
    /\ opBatches' = [opBatches EXCEPT ![q.batch].status = q.status,
                                  ![q.batch].hash = IF q.status = "failed" THEN "unset" ELSE "batch_tx"]
    /\ opReq' = [opReq EXCEPT ![r] = Done]
    /\ UNCHANGED <<transactions, listings, aborted, succeeded, opCrashes>>

MayRollBack(b) ==
    /\ opBatches[b].status \in {"completed", "completed_with_errors"}
    /\ \A i \in DOMAIN opBatches[b].ops : opBatches[b].ops[i] # "cancel_listing"

RollbackRead(r, b) ==
    /\ opReq[r] = New
    /\ MayRollBack(b)
    /\ opReq' = [opReq EXCEPT ![r] = [pc |-> "rollback", batch |-> b]]
    /\ UNCHANGED <<opBatches, transactions, listings, aborted, succeeded, opCrashes>>

\* The listings the batch made, by the names it gave them.
Undone(b) == OpsOf(b, "list", DOMAIN opBatches[b].ops)

RollbackBatch(r) ==
    LET b == opReq[r].batch IN
    /\ opReq[r].pc = "rollback"
    /\ transactions' = transactions \ OpsOf(b, "transfer", DOMAIN opBatches[b].ops)
    /\ listings' = Deactivated(Undone(b))
    /\ opBatches' = [opBatches EXCEPT ![b].status = "rolled_back"]
    /\ opReq' = [opReq EXCEPT ![r] = Done]
    /\ UNCHANGED <<aborted, succeeded, opCrashes>>

\* The process ends between the commit and the save, or before.
OpCrash ==
    /\ opCrashes < MaxCrashes
    /\ opCrashes' = opCrashes + 1
    /\ opReq' = [r \in OpReqs |-> IF opReq[r] = New THEN New ELSE Done]
    /\ UNCHANGED <<opBatches, transactions, listings, aborted, succeeded>>

OpNext ==
    \/ \E r \in OpReqs : \/ \E ops \in OpLists : ExecuteBatch(r, ops)
                       \/ \E o \in {"done", "refused", "failed"} : RunOperation(r, o)
                       \/ \E c \in {{}} \cup {{l} : l \in DOMAIN listings} : OpFinish(r, c)
                       \/ SaveBatch(r) \/ RollbackBatch(r)
                       \/ \E b \in OpIds : RollbackRead(r, b)
    \/ OpCrash

OpSpec == OpInit /\ [][OpNext]_opVars

-----------------------------------------------------------------------------
\* The status of a batch tells what it has left behind: a completed one every
\* record it reported, a failed one nothing, one rolled back no transfer and
\* no listing on offer.  "Completed with errors" tells it only if no statement
\* failed: then every reported success is gone.
BatchStatusTellsRecords ==
    \A b \in OpIds :
        LET done == OpsOf(b, "transfer", succeeded[b])
            there == {t \in transactions : t[1] = b}
            offers == {l \in DOMAIN listings : l[1] = b}
        IN /\ opBatches[b].status = "completed" =>
                there = done /\ offers = OpsOf(b, "list", succeeded[b])
           /\ opBatches[b].status = "completed_with_errors" =>
                IF b \in aborted THEN there = {} /\ offers = {} ELSE there = done
           /\ opBatches[b].status = "failed" => there = {} /\ offers = {}
           /\ opBatches[b].status = "rolled_back" => there = {} /\ \A l \in offers : ~listings[l]
=============================================================================
