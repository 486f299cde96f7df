--------------------------- MODULE PaymentGateway ---------------------------
(***************************************************************************)
(* Fiat payments (backend/services/payment_gateway.go and                  *)
(* backend/handlers/payment.go): checkout sessions with idempotency keys,  *)
(* gateway webhooks, reconciliation.  One user; a payment's asset, amount, *)
(* currency and gateway are one value, its parameters.                     *)
(***************************************************************************)
EXTENDS Rows, FiniteSetsExt

CONSTANTS
    Reqs, Keys, None,
    Params,            \* the amounts, standing for all parameters
    Statuses,          \* what a webhook may say
    KeyTTL,            \* IdempotencyKeyTTL
    MaxPayments, MaxTime, MaxWebhooks

VARIABLES
    payments,          \* rows [key, first, params, status, at]; key None once released
    req,               \* create-payment requests, with their answer at the end
    reconciled,        \* the last reconciliation: [count, total]
    webhooks, now

vars == <<payments, req, reconciled, webhooks, now>>

Ids == DOMAIN payments

ParamsOf(i) == payments[i].params

TypeOK ==
    /\ \A i \in Ids : payments[i].key \in Keys \cup {None} /\ payments[i].at <= now
    /\ reconciled.count \in Nat

Init ==
    /\ payments = <<>>
    /\ req = [r \in Reqs |-> New]
    /\ reconciled = [count |-> 0, total |-> 0]
    /\ webhooks = 0
    /\ now = 0

\* The row with the key; there is at most one, the pair is unique.
RowsWith(key) == {i \in Ids : payments[i].key = key}

KeyExpired(i) == now - payments[i].at > KeyTTL

Answer(r, p, replay) == [req EXCEPT ![r] = [pc |-> "done", params |-> @.params, payment |-> p, replay |-> replay]]

Receive(r, key, params) ==
    /\ req[r] = New
    /\ req' = [req EXCEPT ![r] = [pc |-> "find", key |-> key, params |-> params, again |-> FALSE, old |-> None]]
    /\ UNCHANGED <<payments, reconciled, webhooks, now>>

\* findActivePaymentByIdempotencyKey: none, an expired one to release, or the
\* payment to answer with.  The second lookup compares nothing.
FindNone(r) ==
    /\ req[r].pc = "find"
    /\ RowsWith(req[r].key) = {}
    /\ req' = IF req[r].again THEN [req EXCEPT ![r] = Done] ELSE [req EXCEPT ![r].pc = "create"]
    /\ UNCHANGED <<payments, reconciled, webhooks, now>>

FindExpired(r) ==
    /\ req[r].pc = "find"
    /\ \E i \in RowsWith(req[r].key) :
        /\ KeyExpired(i)
        /\ req' = [req EXCEPT ![r].pc = "release", ![r].old = i]
    /\ UNCHANGED <<payments, reconciled, webhooks, now>>

ConflictChecked(r) == ~req[r].again

FindActive(r) ==
    /\ req[r].pc = "find"
    /\ \E i \in RowsWith(req[r].key) :
        /\ ~KeyExpired(i)
        /\ req' = IF ConflictChecked(r) /\ payments[i].params # req[r].params
                  THEN [req EXCEPT ![r] = Done] ELSE Answer(r, i, TRUE)
    /\ UNCHANGED <<payments, reconciled, webhooks, now>>

\* The update is by primary key: the row read, whatever its key is by now.
Release(r) ==
    /\ req[r].pc = "release"
    /\ payments' = [payments EXCEPT ![req[r].old].key = None]
    /\ req' = IF req[r].again THEN [req EXCEPT ![r] = Done] ELSE [req EXCEPT ![r].pc = "create"]
    /\ UNCHANGED <<reconciled, webhooks, now>>

KeyIsFree_Unchecked(key) == TRUE

\* The unique index on (user_id, idempotency_key).
KeyIsFree(key) == RowsWith(key) = {}

Create(r) ==
    LET row == [key |-> req[r].key, first |-> req[r].key, params |-> req[r].params, status |-> "pending", at |-> now]
    IN  /\ req[r].pc = "create"
        /\ KeyIsFree(req[r].key)
        /\ Len(payments) < MaxPayments
        /\ payments' = Append(payments, row)
        /\ req' = Answer(r, Len(payments) + 1, FALSE)
        /\ UNCHANGED <<reconciled, webhooks, now>>

CreateConflicts(r) ==
    /\ req[r].pc = "create"
    /\ ~KeyIsFree(req[r].key)
    /\ req' = [req EXCEPT ![r].pc = "find", ![r].again = TRUE]
    /\ UNCHANGED <<payments, reconciled, webhooks, now>>

\* Any status at any time; a repeated or a late webhook is taken as it comes.
HandleWebhook(i, status) ==
    /\ webhooks < MaxWebhooks
    /\ webhooks' = webhooks + 1
    /\ payments' = [payments EXCEPT ![i].status = status]
    /\ UNCHANGED <<req, reconciled, now>>

Completed == {i \in Ids : payments[i].status = "completed"}

Reconcile ==
    /\ reconciled' = [count |-> Cardinality(Completed), total |-> MapThenSumSet(ParamsOf, Completed)]
    /\ UNCHANGED <<payments, req, webhooks, now>>

Tick ==
    /\ now < MaxTime
    /\ now' = now + 1
    /\ UNCHANGED <<payments, req, reconciled, webhooks>>

Next ==
    \/ \E r \in Reqs, k \in Keys, p \in Params : Receive(r, k, p)
    \/ \E r \in Reqs : FindNone(r) \/ FindExpired(r) \/ FindActive(r) \/ Release(r)
                       \/ Create(r) \/ CreateConflicts(r)
    \/ \E i \in Ids, s \in Statuses : HandleWebhook(i, s)
    \/ Reconcile
    \/ Tick

Spec == Init /\ [][Next]_vars

-----------------------------------------------------------------------------
\* No duplicate charge: two payments made under one key are more than the
\* key's lifetime apart, however often and however concurrently requests are
\* retried, and a payment loses its key only after that lifetime.
OneChargePerKey ==
    /\ \A i, j \in Ids : i < j /\ payments[i].first = payments[j].first
                            => payments[j].at - payments[i].at > KeyTTL
    /\ \A i \in Ids : payments[i].key = None => now - payments[i].at > KeyTTL

\* "Reusing a live key with different payment parameters returns
\* ErrIdempotencyConflict": no request is answered with a payment of other
\* parameters.
AnswersMatchRequests ==
    \A r \in Reqs : req[r].pc = "done" /\ req[r] # Done => payments[req[r].payment].params = req[r].params
=============================================================================
