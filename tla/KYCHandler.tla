----------------------------- MODULE KYCHandler -----------------------------
(***************************************************************************)
(* Identity verification (backend/handlers/kyc.go, services/kyc_provider.go,*)
(* services/aml_screening.go) and the gate every transfer passes           *)
(* (services/transfer_validator.go).  The record is written from four      *)
(* sides: the screening, the provider's answer to a poll, its webhook and  *)
(* the reviewer; the audit log is written after it.                        *)
(***************************************************************************)
EXTENDS Rows, Functions

CONSTANTS
    Users, Reqs, None,
    MatchLists,        \* sets of hits an AML search can return
    Worths, AccreditedThreshold,
    MaxLog, MaxScreenings, MaxDocuments

VARIABLES
    record,            \* kyc_records [status, aml], by user, or None
    verified,          \* users.kyc_verified
    accredited,        \* users.accredited_investor
    screenings,        \* aml_screenings [user, status]
    documents,         \* kyc_documents [user, status]
    log,               \* compliance_audit_logs [user, action, status]
    req,
    raced,             \* history: users two requests worked on at once
    human              \* history: screenings a reviewer has decided

vars == <<record, verified, accredited, screenings, documents, log, req, raced, human>>

Statuses == {"pending", "review", "approved", "rejected"}
KYCRecord == [status : Statuses, aml : BOOLEAN]

TypeOK ==
    /\ \A u \in Users : record[u] \in KYCRecord \cup {None}
    /\ verified \in [Users -> BOOLEAN] /\ accredited \in [Users -> BOOLEAN]
    /\ \A s \in DOMAIN screenings : screenings[s].status \in {"clear", "flagged"}
    /\ human \subseteq DOMAIN screenings

Init ==
    /\ record = [u \in Users |-> None]
    /\ verified = [u \in Users |-> FALSE]
    /\ accredited = [u \in Users |-> FALSE]
    /\ screenings = <<>> /\ documents = <<>> /\ log = <<>>
    /\ req = [r \in Reqs |-> New]
    /\ raced = {} /\ human = {}

Working(u) == {r \in Reqs : req[r] \notin {New, Done} /\ req[r].user = u}

\* A request begins its work on user u.
Begin(r, u, q) ==
    /\ req[r] = New
    /\ req' = [req EXCEPT ![r] = q]
    /\ raced' = IF Working(u) # {} THEN raced \cup {u} ELSE raced

Goto(r, q) == req' = [req EXCEPT ![r] = q]

\* writeAuditLog, the last thing a request does.
writeAuditLog(r) ==
    LET q == req[r] IN
    /\ q.pc = "log"
    /\ log' = Append(log, [user |-> q.user, action |-> q.action, status |-> q.status])
    /\ Goto(r, IF q.action = "kyc_submitted" THEN [pc |-> "screen", user |-> q.user] ELSE Done)
    /\ UNCHANGED <<record, verified, accredited, screenings, documents, raced, human>>

ToLog(u, action, status) == [pc |-> "log", user |-> u, action |-> action, status |-> status]

SubmitKYC(r, u) ==
    /\ record[u] = None
    /\ Begin(r, u, [pc |-> "create", user |-> u])
    /\ UNCHANGED <<record, verified, accredited, screenings, documents, log, human>>

\* The provider has taken the verification; user_id is unique.
CreateRecord(r) ==
    LET u == req[r].user IN
    /\ req[r].pc = "create"
    /\ \/ /\ record[u] = None
          /\ record' = [record EXCEPT ![u] = [status |-> "pending", aml |-> FALSE]]
          /\ Goto(r, ToLog(u, "kyc_submitted", "pending"))
       \/ /\ record[u] # None
          /\ Goto(r, Done)
          /\ UNCHANGED record
    /\ UNCHANGED <<verified, accredited, screenings, documents, log, raced, human>>

ScreenAML(r, u) ==
    /\ record[u] # None
    /\ Begin(r, u, [pc |-> "screen", user |-> u])
    /\ UNCHANGED <<record, verified, accredited, screenings, documents, log, human>>

\* Hits the provider has not ruled out flag the record.
Screen(hits) == IF hits \ {"false_positive", "no_match"} # {} THEN "flagged" ELSE "clear"

\* runAMLScreening: the provider's answer is stored, or its failure sends
\* the record to review.
StoreScreening(r, hits) ==
    LET u == req[r].user IN
    /\ req[r].pc = "screen"
    /\ Len(screenings) < MaxScreenings
    /\ screenings' = Append(screenings, [user |-> u, status |-> Screen(hits)])
    /\ Goto(r, [pc |-> "screened", user |-> u, status |-> Screen(hits)])
    /\ UNCHANGED <<record, verified, accredited, documents, log, raced, human>>

ScreeningError(r) ==
    LET u == req[r].user IN
    /\ req[r].pc = "screen"
    /\ record' = [record EXCEPT ![u].status = "review"]
    /\ Goto(r, ToLog(u, "aml_screening_error", "review"))
    /\ UNCHANGED <<verified, accredited, screenings, documents, log, raced, human>>

AfterScreening_NoReview(row, status) == [row EXCEPT !.aml = status = "clear"]

AfterScreening(row, status) ==
    IF status = "clear" THEN [row EXCEPT !.aml = TRUE] ELSE [row EXCEPT !.aml = FALSE, !.status = "review"]

ApplyScreening(r) ==
    LET q == req[r] IN
    /\ q.pc = "screened"
    /\ record' = [record EXCEPT ![q.user] = AfterScreening(@, q.status)]
    /\ Goto(r, ToLog(q.user, "aml_screened", q.status))
    /\ UNCHANGED <<verified, accredited, screenings, documents, log, raced, human>>

\* The mock provider approves and clears, or rejects.
GetVerificationStatus == {[status |-> "approved", aml |-> TRUE], [status |-> "rejected", aml |-> FALSE]}

\* GetKYCStatus asks the provider, and takes over a status that differs from
\* the one it has read.
GetKYCStatus(r, u) ==
    /\ record[u] # None
    /\ \E result \in GetVerificationStatus :
        /\ record[u].status # result.status
        /\ Begin(r, u, [pc |-> "take", user |-> u, action |-> "status_changed", result |-> result])
    /\ UNCHANGED <<record, verified, accredited, screenings, documents, log, human>>

HandleKYCWebhook(r, u, result) ==
    /\ record[u] # None
    /\ Begin(r, u, [pc |-> "take", user |-> u, action |-> "webhook_status_update", result |-> result])
    /\ UNCHANGED <<record, verified, accredited, screenings, documents, log, human>>

\* The record takes the provider's result; then the user is marked.
TakeResult(r) ==
    LET q == req[r] IN
    /\ q.pc = "take"
    /\ record' = [record EXCEPT ![q.user] = q.result]
    /\ Goto(r, IF q.result.status = "approved" THEN [q EXCEPT !.pc = "verify"] ELSE ToLog(q.user, q.action, q.result.status))
    /\ UNCHANGED <<verified, accredited, screenings, documents, log, raced, human>>

MarkVerified(r) ==
    LET q == req[r] IN
    /\ q.pc = "verify"
    /\ verified' = [verified EXCEPT ![q.user] = TRUE]
    /\ Goto(r, ToLog(q.user, q.action, "approved"))
    /\ UNCHANGED <<record, accredited, screenings, documents, log, raced, human>>

ResolveAMLReview(r, s, cleared) ==
    LET u == screenings[s].user IN
    /\ Begin(r, u, [pc |-> "resolve", user |-> u, cleared |-> cleared])
    /\ screenings' = [screenings EXCEPT ![s].status = IF cleared THEN "clear" ELSE "flagged"]
    /\ human' = human \cup {s}
    /\ UNCHANGED <<record, verified, accredited, documents, log>>

ApplyReview(r) ==
    LET q == req[r] IN
    /\ q.pc = "resolve"
    /\ record' = [record EXCEPT ![q.user] = IF q.cleared THEN [@ EXCEPT !.aml = TRUE] ELSE [status |-> "rejected", aml |-> FALSE]]
    /\ Goto(r, ToLog(q.user, "aml_review_resolved", IF q.cleared THEN "clear" ELSE "rejected"))
    /\ UNCHANGED <<verified, accredited, screenings, documents, log, raced, human>>

UploadDocument(r, u) ==
    /\ record[u] # None
    /\ Len(documents) < MaxDocuments
    /\ Begin(r, u, ToLog(u, "document_uploaded", "pending"))
    /\ documents' = Append(documents, [user |-> u, status |-> "pending"])
    /\ UNCHANGED <<record, verified, accredited, screenings, log, human>>

VerifyAccreditedInvestor(r, u, worth) ==
    /\ Begin(r, u, ToLog(u, "accredited_investor_verified", "user"))
    /\ accredited' = [accredited EXCEPT ![u] = worth >= AccreditedThreshold]
    /\ UNCHANGED <<record, verified, screenings, documents, log, human>>

\* The gate of services/transfer_validator.go.
requireGoodStanding(u) ==
    /\ verified[u]
    /\ record[u] # None => record[u].aml /\ record[u].status \notin {"review", "rejected", "expired"}

Next ==
    /\ Len(log) < MaxLog
    /\ \/ \E r \in Reqs : \/ CreateRecord(r) \/ writeAuditLog(r) \/ ScreeningError(r) \/ ApplyScreening(r)
                          \/ TakeResult(r) \/ MarkVerified(r) \/ ApplyReview(r)
       \/ \E r \in Reqs, u \in Users : SubmitKYC(r, u) \/ ScreenAML(r, u) \/ GetKYCStatus(r, u) \/ UploadDocument(r, u)
       \/ \E r \in Reqs, hits \in MatchLists : StoreScreening(r, hits)
       \/ \E r \in Reqs, u \in Users, w \in Worths : VerifyAccreditedInvestor(r, u, w)
       \/ \E r \in Reqs, u \in Users, result \in [status : {"pending", "approved", "rejected"}, aml : BOOLEAN] :
            HandleKYCWebhook(r, u, result)
       \/ \E r \in Reqs, s \in DOMAIN screenings, cleared \in BOOLEAN : ResolveAMLReview(r, s, cleared)

-----------------------------------------------------------------------------
\* Whether an entry is of u and sets the status of the record.
SetsStatus(e, u) == e.user = u /\ e.action # "document_uploaded" /\ e.status \in Statuses \cup {"flagged"}

LoggedStatus(e) == IF e.status = "flagged" THEN "review" ELSE e.status

\* The compliance log explains the record: once no request is at work on a
\* user, and unless two worked on it at once, the record's status is the one
\* the last entry about it names; and whoever passes the transfer gate has
\* an approval in the log.
LogTellsStatus ==
    \A u \in Users \ raced : Working(u) = {} =>
        /\ record[u] # None =>
            \E k \in DOMAIN log :
                /\ SetsStatus(log[k], u)
                /\ \A j \in DOMAIN log : j > k => ~SetsStatus(log[j], u)
                /\ record[u].status = LoggedStatus(log[k])
        /\ requireGoodStanding(u) => \E k \in DOMAIN log : log[k].user = u /\ log[k].status = "approved"

\* handlers/kyc.go:424: "Flagged never auto-clears or auto-rejects -- it
\* waits for a human decision via ResolveAMLReview": nobody passes the
\* transfer gate with a flagged screening no reviewer has decided.
FlaggedWaitsForReview ==
    \A s \in DOMAIN screenings :
        screenings[s].status = "flagged" /\ Working(screenings[s].user) = {} /\ requireGoodStanding(screenings[s].user)
            => s \in human

Spec == Init /\ [][Next]_vars

-----------------------------------------------------------------------------
(***************************************************************************)
(* Declarations of beneficial owners of one entity (backend/handlers/      *)
(* compliance.go, backend/services/ubo_verification.go).  The total of the *)
(* shares is checked against the declarations read before the new one is   *)
(* created.                                                                *)
(***************************************************************************)
CONSTANTS Percents, Whole, MaxOwners

VARIABLES
    owners,            \* beneficial_owners [percent, status, verified]
    docs,              \* corporate_structure_documents
    ownerLog,          \* compliance_audit_logs [action, owner, status]
    ownerReq,
    ownerRaced         \* history: declarations checked against a list that grew since

ownerVars == <<owners, docs, ownerLog, ownerReq, ownerRaced>>

OwnerTypeOK ==
    /\ \A i \in DOMAIN owners : owners[i].percent \in 0..Whole /\ owners[i].status \in {"declared", "verified", "rejected"}
    /\ ownerRaced \subseteq DOMAIN owners

OwnerInit ==
    /\ owners = <<>> /\ docs = 0 /\ ownerLog = <<>>
    /\ ownerReq = [r \in Reqs |-> New]
    /\ ownerRaced = {}

Total(rows) == SumFunctionOnSet([i \in DOMAIN rows |-> rows[i].percent], DOMAIN rows)

\* The shares may not add up to more than the whole.
ValidateTotalOwnership(rows, p) == Total(rows) + p <= Whole

DeclareRead(r, p) ==
    /\ ownerReq[r] = New
    /\ 0 <= p /\ p <= Whole
    /\ ValidateTotalOwnership(owners, p)
    /\ ownerReq' = [ownerReq EXCEPT ![r] = [pc |-> "create", seen |-> Len(owners), percent |-> p]]
    /\ UNCHANGED <<owners, docs, ownerLog, ownerRaced>>

DeclareBeneficialOwner(r) ==
    LET q == ownerReq[r] IN
    /\ q.pc = "create"
    /\ owners' = Append(owners, [percent |-> q.percent, status |-> "declared", verified |-> FALSE])
    /\ ownerRaced' = IF Len(owners) # q.seen THEN ownerRaced \cup {Len(owners) + 1} ELSE ownerRaced
    /\ ownerReq' = [ownerReq EXCEPT ![r] =
            [pc |-> "log", action |-> "ubo_declared", owner |-> Len(owners) + 1, status |-> "declared"]]
    /\ UNCHANGED <<docs, ownerLog>>

\* A reviewer may decide again: verified_at stays from the first time.
ResolveUBOReview(r, i, status) ==
    /\ ownerReq[r] = New
    /\ owners' = [owners EXCEPT ![i].status = status, ![i].verified = @ \/ status = "verified"]
    /\ ownerReq' = [ownerReq EXCEPT ![r] =
            [pc |-> "log", action |-> "ubo_review_resolved", owner |-> i, status |-> status]]
    /\ UNCHANGED <<docs, ownerLog, ownerRaced>>

UploadCorporateStructureDocument(r) ==
    /\ ownerReq[r] = New
    /\ docs' = docs + 1
    /\ ownerReq' = [ownerReq EXCEPT ![r] =
            [pc |-> "log", action |-> "ubo_document_uploaded", owner |-> 0, status |-> "uploaded"]]
    /\ UNCHANGED <<owners, ownerLog, ownerRaced>>

writeOwnerLog(r) ==
    LET q == ownerReq[r] IN
    /\ q.pc = "log"
    /\ ownerLog' = Append(ownerLog, [action |-> q.action, owner |-> q.owner, status |-> q.status])
    /\ ownerReq' = [ownerReq EXCEPT ![r] = Done]
    /\ UNCHANGED <<owners, docs, ownerRaced>>

OwnerNext ==
    \/ \E r \in Reqs, p \in Percents : Len(owners) < MaxOwners /\ DeclareRead(r, p)
    \/ \E r \in Reqs : DeclareBeneficialOwner(r) \/ writeOwnerLog(r) \/ UploadCorporateStructureDocument(r)
    \/ \E r \in Reqs, i \in DOMAIN owners, s \in {"verified", "rejected"} : ResolveUBOReview(r, i, s)

OwnerSpec == OwnerInit /\ [][OwnerNext]_ownerVars

-----------------------------------------------------------------------------
\* The declarations ListBeneficialOwners counts as waiting for a review.
PendingReview(rows) == {i \in DOMAIN rows : rows[i].status \in {"declared", "review"}}

\* The shares declared add up to at most the whole entity, whatever is
\* verified or rejected, unless two declarations were checked against the
\* same list; a declaration off the review list has been decided by someone
\* the log names, or will be named by the request still at work.
OwnershipIsBounded ==
    /\ ownerRaced = {} => Total(owners) <= Whole
    /\ \A i \in DOMAIN owners \ PendingReview(owners) :
        \/ \E k \in DOMAIN ownerLog : ownerLog[k].owner = i /\ ownerLog[k].action = "ubo_review_resolved"
        \/ \E r \in Reqs : ownerReq[r].pc = "log" /\ ownerReq[r].owner = i /\ ownerReq[r].action = "ubo_review_resolved"
=============================================================================
