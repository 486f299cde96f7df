-------------------------- MODULE ApprovalWorkflow --------------------------
(***************************************************************************)
(* Approval of large transfers (backend/services/workflow_service.go and   *)
(* backend/handlers/approval.go): workflows of ordered steps, requests,    *)
(* decisions, delegation, and the sweep that expires requests.  A decision *)
(* and a delegation lock the request's row for their transaction, so each  *)
(* is one step; the sweep's two statements are not in one transaction.     *)
(***************************************************************************)
EXTENDS Rows, FiniteSetsExt

CONSTANTS
    Users, RoleOf,     \* RoleOf[u]: the role in the token of u
    Amounts, None,
    Workflows,         \* inputs [min, timeout, steps], a step [role, user, required, delegable]
    MaxWorkflows, MaxRequests, MaxActions, MaxTime

VARIABLES
    workflows,
    requests,          \* rows [workflow, status, step, expires]
    txs,               \* txs[i]: the status of the transaction of request i
    actions,           \* rows [request, step, user, from, action, at]
    sweep,             \* "idle", or "second": between the statements of ExpireTimedOut
    cut,               \* history: sweeps have stopped between their statements
    now

vars == <<workflows, requests, txs, actions, sweep, cut, now>>

Ids == DOMAIN requests

TypeOK ==
    /\ \A i \in Ids : /\ requests[i].status \in {"pending", "approved", "rejected", "expired"}
                      /\ requests[i].step \in 1..(Len(workflows[requests[i].workflow].steps) + 1)
    /\ DOMAIN txs = Ids
    /\ sweep \in {"idle", "second"}

Init ==
    /\ workflows = <<>>
    /\ requests = <<>>
    /\ txs = <<>>
    /\ actions = <<>>
    /\ sweep = "idle"
    /\ cut = FALSE
    /\ now = 0

IsValid(w) ==
    /\ w.timeout > 0
    /\ Len(w.steps) > 0
    /\ \A k \in DOMAIN w.steps : w.steps[k].required >= 1 /\ (w.steps[k].role # None \/ w.steps[k].user # None)

CreateWorkflow(w) ==
    /\ Len(workflows) < MaxWorkflows
    /\ IsValid(w)
    /\ workflows' = Append(workflows, w)
    /\ UNCHANGED <<requests, txs, actions, sweep, cut, now>>

\* The workflow of the highest minimum the amount reaches, the older of two.
Matching(amount) ==
    LET reached == {k \in DOMAIN workflows : workflows[k].min <= amount}
        highest == {k \in reached : \A j \in reached : workflows[j].min <= workflows[k].min}
    IN  {k \in highest : \A j \in highest : k <= j}

CreateTransferRequest(amount) ==
    /\ Len(requests) < MaxRequests
    /\ \E k \in Matching(amount) :
        requests' = Append(requests, [workflow |-> k, status |-> "pending", step |-> 1,
                                      expires |-> now + workflows[k].timeout])
    /\ txs' = Append(txs, "approval_pending")
    /\ UNCHANGED <<workflows, actions, sweep, cut, now>>

StepsOf(i) == workflows[requests[i].workflow].steps

currentStep(i) == StepsOf(i)[requests[i].step]

eligibleForStep(step, u) == u = step.user \/ (step.role # None /\ step.role = RoleOf[u])

ActionsAt(i, k, kind) == {a \in DOMAIN actions : actions[a].request = i /\ actions[a].step = k /\ actions[a].action = kind}

Delegations(i, u) == {a \in ActionsAt(i, requests[i].step, "delegated") : actions[a].user = u}

HasApproved_Never(i, u) == FALSE

HasApproved(i, u) == \E a \in ActionsAt(i, requests[i].step, "approved") : actions[a].user = u

Recorded(i, u, from, action) ==
    actions' = Append(actions, [request |-> i, step |-> requests[i].step, user |-> u, from |-> from,
                                action |-> action, at |-> now])

IsOpen(i) == requests[i].status = "pending" /\ now < requests[i].expires

MayDecide(i, u) ==
    /\ IsOpen(i)
    /\ eligibleForStep(currentStep(i), u) \/ Delegations(i, u) # {}
    /\ ~HasApproved(i, u)

\* On whose behalf: the latest delegation, unless u decides in person.
Principal(i, u) == IF eligibleForStep(currentStep(i), u) THEN u ELSE actions[Max(Delegations(i, u))].from

Reject(i, u) ==
    /\ Len(actions) < MaxActions
    /\ MayDecide(i, u)
    /\ Recorded(i, u, Principal(i, u), "rejected")
    /\ requests' = [requests EXCEPT ![i].status = "rejected"]
    /\ txs' = [txs EXCEPT ![i] = "rejected"]
    /\ UNCHANGED <<workflows, sweep, cut, now>>

StepIsComplete(i) == Cardinality(ActionsAt(i, requests[i].step, "approved")) + 1 >= currentStep(i).required

Approve(i, u) ==
    LET last == requests[i].step = Len(StepsOf(i))
        onward == [requests[i] EXCEPT !.step = @ + 1, !.status = IF last THEN "approved" ELSE @]
    IN
    /\ Len(actions) < MaxActions
    /\ MayDecide(i, u)
    /\ Recorded(i, u, Principal(i, u), "approved")
    /\ requests' = IF StepIsComplete(i) THEN [requests EXCEPT ![i] = onward] ELSE requests
    /\ txs' = IF StepIsComplete(i) /\ last THEN [txs EXCEPT ![i] = "approved"] ELSE txs
    /\ UNCHANGED <<workflows, sweep, cut, now>>

\* expireInTransaction: a decision that comes too late expires the request.
DecideLate(i) ==
    /\ Len(actions) < MaxActions
    /\ requests[i].status = "pending"
    /\ now >= requests[i].expires
    /\ Recorded(i, None, None, "expired")
    /\ requests' = [requests EXCEPT ![i].status = "expired"]
    /\ txs' = [txs EXCEPT ![i] = "expired"]
    /\ UNCHANGED <<workflows, sweep, cut, now>>

\* No look at the deadline here, nor at who the delegate is.
Delegate(i, from, to) ==
    /\ Len(actions) < MaxActions
    /\ requests[i].status = "pending"
    /\ currentStep(i).delegable
    /\ eligibleForStep(currentStep(i), from)
    /\ Recorded(i, to, from, "delegated")
    /\ UNCHANGED <<workflows, requests, txs, sweep, cut, now>>

TimedOut == {i \in Ids : requests[i].status = "pending" /\ requests[i].expires <= now}

ExpireRequests ==
    /\ sweep = "idle"
    /\ TimedOut # {}
    /\ requests' = [i \in Ids |-> IF i \in TimedOut THEN [requests[i] EXCEPT !.status = "expired"] ELSE requests[i]]
    /\ sweep' = "second"
    /\ UNCHANGED <<workflows, txs, actions, cut, now>>

\* By status only, so it also takes what an earlier sweep has left.
ExpireTransactions ==
    /\ sweep = "second"
    /\ txs' = [i \in Ids |-> IF txs[i] = "approval_pending" /\ requests[i].status = "expired" THEN "expired" ELSE txs[i]]
    /\ sweep' = "idle"
    /\ cut' = FALSE
    /\ UNCHANGED <<workflows, requests, actions, now>>

\* The second statement's error is ignored, or the process dies before it.
SweepCut ==
    /\ sweep = "second"
    /\ sweep' = "idle"
    /\ cut' = TRUE
    /\ UNCHANGED <<workflows, requests, txs, actions, now>>

Tick == now < MaxTime /\ now' = now + 1 /\ UNCHANGED <<workflows, requests, txs, actions, sweep, cut>>

Next ==
    \/ \E w \in Workflows : CreateWorkflow(w)
    \/ \E amount \in Amounts : CreateTransferRequest(amount)
    \/ \E i \in Ids, u \in Users : Approve(i, u) \/ Reject(i, u)
    \/ \E i \in Ids, u, v \in Users : Delegate(i, u, v)
    \/ \E i \in Ids : DecideLate(i)
    \/ ExpireRequests \/ ExpireTransactions \/ SweepCut
    \/ Tick

Spec == Init /\ [][Next]_vars

-----------------------------------------------------------------------------
Approvers(i, k) == {actions[a].user : a \in ActionsAt(i, k, "approved")}

\* A transfer is released only by a complete chain: at every step of its
\* workflow as many different users as required have approved in time, each
\* entitled to the step or the delegate of one who was, and nobody has
\* rejected; and the transaction follows its request, but for a sweep that
\* has not reached its second statement, until the next sweep that has work.
ReleasedByFullChain ==
    \A i \in Ids :
        /\ txs[i] = "approved" =>
            /\ \A k \in DOMAIN StepsOf(i) :
                /\ Cardinality(Approvers(i, k)) >= StepsOf(i)[k].required
                /\ \A a \in ActionsAt(i, k, "approved") :
                    /\ actions[a].at < requests[i].expires
                    /\ eligibleForStep(StepsOf(i)[k], actions[a].from)
                /\ ActionsAt(i, k, "rejected") = {}
        /\ \/ txs[i] = requests[i].status
           \/ txs[i] = "approval_pending" /\ requests[i].status = "pending"
           \/ txs[i] = "approval_pending" /\ requests[i].status = "expired" /\ (sweep = "second" \/ cut)

-----------------------------------------------------------------------------
(***************************************************************************)
(* The off-chain multi-signature endpoints (backend/handlers/multisig.go): *)
(* a wallet with a list of owners, proposals, and one signature row for    *)
(* each signing.  A request is a sequence of database calls, and requests  *)
(* of several clients interleave between them.                             *)
(***************************************************************************)
CONSTANTS
    Reqs,
    OwnerLists,        \* the owner_ids a client may send
    Thresholds,
    MaxProposals

VARIABLES
    wallet,            \* the wallet row, or None
    proposals,         \* rows [sign_count, status]
    signatures,        \* the users with a signature row, for each proposal
    req                \* what each request has read

walletVars == <<wallet, proposals, signatures, req>>

ProposalIds == 1..MaxProposals

IsOwner(u) == wallet # None /\ \E i \in DOMAIN wallet.owners : wallet.owners[i] = u

WalletTypeOK ==
    /\ wallet = None \/ wallet.threshold \in 1..Len(wallet.owners)
    /\ \A p \in DOMAIN proposals : proposals[p].status \in {"pending", "approved", "executed"}
    /\ signatures \in [ProposalIds -> SUBSET Users]

WalletInit ==
    /\ wallet = None
    /\ proposals = <<>>
    /\ signatures = [p \in ProposalIds |-> {}]
    /\ req = [r \in Reqs |-> New]

\* contract_id is unique and always empty here: a second wallet is refused.
CreateWallet(u, owners, t) ==
    /\ wallet = None
    /\ t \in 1..Len(owners)
    /\ \E i \in DOMAIN owners : owners[i] = u
    /\ wallet' = [owners |-> owners, threshold |-> t]
    /\ UNCHANGED <<proposals, signatures, req>>

CreateProposal(u) ==
    /\ IsOwner(u)
    /\ Len(proposals) < MaxProposals
    /\ proposals' = Append(proposals, [sign_count |-> 0, status |-> "pending"])
    /\ UNCHANGED <<wallet, signatures, req>>

\* SignProposal reads the proposal, then looks for a signature of the caller,
\* inserts one and saves the proposal it read.
SignRead(r, u, p) ==
    /\ req[r] = New
    /\ IsOwner(u)
    /\ req' = [req EXCEPT ![r] = [pc |-> "check", by |-> u, id |-> p, row |-> proposals[p]]]
    /\ UNCHANGED <<wallet, proposals, signatures>>

SignCheck(r) ==
    /\ req[r].pc = "check"
    /\ req' = [req EXCEPT ![r] = IF req[r].by \in signatures[req[r].id]
                                   THEN Done ELSE [@ EXCEPT !.pc = "insert"]]
    /\ UNCHANGED <<wallet, proposals, signatures>>

\* (proposal_id, signer_id) is unique: the second of two inserts fails.
SignInsert(r) ==
    /\ req[r].pc = "insert"
    /\ req[r].by \notin signatures[req[r].id]
    /\ signatures' = [signatures EXCEPT ![req[r].id] = @ \cup {req[r].by}]
    /\ req' = [req EXCEPT ![r].pc = "save"]
    /\ UNCHANGED <<wallet, proposals>>

Counted(row) ==
    LET n == row.sign_count + 1
    IN  [sign_count |-> n, status |-> IF n >= wallet.threshold THEN "approved" ELSE row.status]

SignSave(r) ==
    /\ req[r].pc = "save"
    /\ proposals' = Saved(proposals, [i \in {req[r].id} |-> Counted(req[r].row)])
    /\ req' = [req EXCEPT ![r] = Done]
    /\ UNCHANGED <<wallet, signatures>>

\* The insert or the save fails; what was inserted stays.
SignFails(r) ==
    /\ req[r].pc \in {"insert", "save"}
    /\ req' = [req EXCEPT ![r] = Done]
    /\ UNCHANGED <<wallet, proposals, signatures>>

ExecuteRead(r, u, p) ==
    /\ req[r] = New
    /\ IsOwner(u)
    /\ proposals[p].status = "approved"
    /\ req' = [req EXCEPT ![r] = [pc |-> "execute", by |-> u, id |-> p, row |-> proposals[p]]]
    /\ UNCHANGED <<wallet, proposals, signatures>>

ExecuteSave(r) ==
    /\ req[r].pc = "execute"
    /\ proposals' = Saved(proposals, [i \in {req[r].id} |-> [req[r].row EXCEPT !.status = "executed"]])
    /\ req' = [req EXCEPT ![r] = Done]
    /\ UNCHANGED <<wallet, signatures>>

WalletNext ==
    \/ \E u \in Users, owners \in OwnerLists, t \in Thresholds : CreateWallet(u, owners, t)
    \/ \E u \in Users : CreateProposal(u)
    \/ \E r \in Reqs, u \in Users, p \in DOMAIN proposals : SignRead(r, u, p) \/ ExecuteRead(r, u, p)
    \/ \E r \in Reqs : SignCheck(r) \/ SignInsert(r) \/ SignSave(r) \/ SignFails(r) \/ ExecuteSave(r)

WalletSpec == WalletInit /\ [][WalletNext]_walletVars

-----------------------------------------------------------------------------
\* Concurrent signatures may be lost from the counter but never added to it:
\* it stays within the number of owners who signed, so a proposal is approved
\* or executed only with the threshold of them behind it.
ApprovalsAreSigned ==
    \A p \in DOMAIN proposals :
        /\ proposals[p].sign_count <= Cardinality(signatures[p])
        /\ proposals[p].status # "pending" => Cardinality(signatures[p]) >= wallet.threshold
        /\ \A u \in signatures[p] : IsOwner(u)

-----------------------------------------------------------------------------
(***************************************************************************)
(* Disputes over confirmed transactions (backend/handlers/dispute.go):     *)
(* filing with an escrow row, review and resolution by administrators.     *)
(***************************************************************************)
CONSTANTS DisputeReqs, Transactions, Resolutions, MaxDisputes

VARIABLES
    disputes,          \* rows [tx, status, resolution]
    escrow,            \* escrow[d]: the resolution it was released by, or None
    disputeReq,
    disputeLost,       \* history: disputes saved over another request's change
    disputeRaced       \* history: transactions for which two filings overlapped

disputeVars == <<disputes, escrow, disputeReq, disputeLost, disputeRaced>>

DisputeIds == DOMAIN disputes

IsActive(d) == d.status \notin {"resolved", "rejected"}

ActiveFor(t) == {i \in DisputeIds : disputes[i].tx = t /\ IsActive(disputes[i])}

DisputeTypeOK ==
    /\ \A i \in DisputeIds : disputes[i].status \in {"open", "under_review", "resolved"}
    /\ Len(escrow) = Len(disputes)

DisputeInit ==
    /\ disputes = <<>>
    /\ escrow = <<>>
    /\ disputeReq = [r \in DisputeReqs |-> New]
    /\ disputeLost = {}
    /\ disputeRaced = {}

NoActive(t) == ActiveFor(t) = {}

FileCheck(r, t) ==
    /\ disputeReq[r] = New
    /\ NoActive(t)
    /\ disputeReq' = [disputeReq EXCEPT ![r] = [pc |-> "file", tx |-> t, read |-> Len(disputes)]]
    /\ UNCHANGED <<disputes, escrow, disputeLost, disputeRaced>>

\* The dispute and its escrow row in one transaction.
FileCreate(r) ==
    LET t == disputeReq[r].tx IN
    /\ disputeReq[r].pc = "file"
    /\ Len(disputes) < MaxDisputes
    /\ disputes' = Append(disputes, [tx |-> t, status |-> "open", resolution |-> None])
    /\ escrow' = Append(escrow, None)
    /\ disputeRaced' = IF \E i \in DisputeIds : i > disputeReq[r].read /\ disputes[i].tx = t
                         THEN disputeRaced \cup {t} ELSE disputeRaced
    /\ disputeReq' = [disputeReq EXCEPT ![r] = Done]
    /\ UNCHANGED disputeLost

ReadDispute(r, i, pc, save) ==
    /\ disputeReq[r] = New
    /\ disputeReq' = [disputeReq EXCEPT ![r] = [pc |-> pc, id |-> i, row |-> disputes[i], save |-> save]]
    /\ UNCHANGED <<disputes, escrow, disputeLost, disputeRaced>>

AdminReviewDispute(r, i) ==
    /\ disputes[i].status = "open"
    /\ ReadDispute(r, i, "review", [disputes[i] EXCEPT !.status = "under_review"])

AdminResolveDispute(r, i, how) ==
    /\ IsActive(disputes[i])
    /\ ReadDispute(r, i, "resolve", [disputes[i] EXCEPT !.status = "resolved", !.resolution = how])

Released_Skipped(i, how) == escrow

Released(i, how) == [escrow EXCEPT ![i] = how]

\* The save; a resolution releases the escrow in the same transaction.
SaveDispute(r) ==
    LET q == disputeReq[r] IN
    /\ q.pc \in {"review", "resolve"}
    /\ disputes' = [disputes EXCEPT ![q.id] = q.save]
    /\ escrow' = IF q.pc = "resolve" THEN Released(q.id, q.save.resolution) ELSE escrow
    /\ disputeLost' = IF disputes[q.id] # q.row THEN disputeLost \cup {q.id} ELSE disputeLost
    /\ disputeReq' = [disputeReq EXCEPT ![r] = Done]
    /\ UNCHANGED disputeRaced

DisputeNext ==
    \/ \E r \in DisputeReqs, t \in Transactions : FileCheck(r, t)
    \/ \E r \in DisputeReqs : FileCreate(r) \/ SaveDispute(r)
    \/ \E r \in DisputeReqs, i \in DisputeIds : AdminReviewDispute(r, i)
    \/ \E r \in DisputeReqs, i \in DisputeIds, how \in Resolutions : AdminResolveDispute(r, i, how)

DisputeSpec == DisputeInit /\ [][DisputeNext]_disputeVars

-----------------------------------------------------------------------------
\* A resolved dispute has its escrow released as its resolution says, whatever
\* overlapped; money is held twice for one transaction only if two filings
\* overlapped, and it leaves an unresolved dispute only over a lost update.
EscrowFollowsDispute ==
    /\ \A i \in DisputeIds : disputes[i].status = "resolved" => escrow[i] = disputes[i].resolution
    /\ \A i \in DisputeIds : escrow[i] # None /\ IsActive(disputes[i]) => i \in disputeLost
    /\ \A t \in Transactions : Cardinality(ActiveFor(t)) > 1 => t \in disputeRaced \/ \E i \in disputeLost : disputes[i].tx = t
=============================================================================
