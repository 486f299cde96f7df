----------------------------- MODULE MCWorkflows ----------------------------
(***************************************************************************)
(* Small instances, for TLC, of token-weighted governance and of the       *)
(* backend's workflows: what several people or workers move through its    *)
(* statuses. They share no state, so a behaviour of all is an interleaving *)
(* of a behaviour of each, and each is explored while the others are in    *)
(* their initial states.                                                   *)
(***************************************************************************)
EXTENDS Governance, Sequences, TLC

CONSTANTS
    AppUsers, AppRoleOf, AppAmounts, AppInputs, AppMaxWorkflows, AppMaxRequests, AppMaxActions,
    AppMaxTime, AppReqs, AppOwnerLists, AppThresholds, AppMaxProposals, AppDisputeReqs,
    AppTransactions, AppResolutions, AppMaxDisputes, BatWorkers, BatReqs, BatQueueSize,
    BatMaxRetries, BatInitialBackoff, BatMaxBackoff, BatMaxBatches, BatMaxTime, BatMaxCrashes,
    BatOpReqs, BatOpLists, BatMaxBatchSize, BatOpMaxBatches, RepReqs, RepInputs,
    RepDefaultRetention, RepMaxRetention, RepMaxSchedules, RepMaxRuns, RepMaxTime,
    RepMaxCrashes, RepTables, RepLifetime, RepMaxJobs, RepMaxVersion, RepExportMaxTime,
    HookSubs, HookWorkers, HookMaxRetries, HookBackoff, HookRetention, HookMaxLogs,
    HookMaxPosts, HookMaxTime, MailProviders, MailMaxRetries, MailFailureThreshold,
    MailQueueBuffer, MailMaxMails, MailMaxProbes, MailReqs, MailMessages, MailRecipients,
    MailMaxRows, MailVars, MailLanguages, MailContents, MailMaxTemplates, MailMaxVersion,
    MailMaxVariants,
    Components,        \* the components explored
    a1, a2, a3         \* addresses

VARIABLES
    focus,             \* the component that moves
    appWorkflows, appRequests, appTxs, appActions, appSweep, appCut, appNow,
    appWallet, appProposals, appSignatures, appReq,
    appDisputes, appEscrow, appDisputeReq, appDisputeLost, appDisputeRaced,
    batBatches, batEntries, batQueue, batWork, batReq, batCommitted, batCancelled, batRaced,
    batCrashes, batNow,
    batOpBatches, batTransactions, batListings, batOpReq, batAborted, batSucceeded,
    batOpCrashes,
    repRows, repEntries, repHistory, repReq, repUp, repSent, repLost, repRaced, repCrashes,
    repNow,
    repData, repExists, repJobs, repWork, repFiles, repMailed, repExportNow, repServed,
    hookSubs, hookLogs, hookWork, hookPosts, hookAccepted, hookCrossed, hookNow,
    mailQueue, mailCurrent, mailHealth, mailAccepted, mailOutcome, mailTried, mailSkipped,
    mailProbes,
    mailRows, mailSuppressed, mailReqs, mailRecorded, mailRaced,
    mailTemplates, mailVersions, mailVariants, mailEdits, mailRendered

OneTokenEach == [a \in Addr |-> 1]

Param(template, version, u64, i128, target) ==
    [template |-> template, version |-> version, param_u64 |-> u64, param_i128 |-> i128,
     target |-> target]

\* The delisting template under its current and another version, and a
\* parameter update, which names no asset.
AssetTemplates == {Param("RemoveAsset", v, 1, 0, None) : v \in {1, 2}}
                    \cup {Param("ParameterUpdate", 1, 1, 1, None)}

MCRoleOf == "u1" :> "ra" @@ "u2" :> "rb" @@ "u3" :> "rb"

\* One approver of a role; or two of a role or a named user, then that user.
MCWorkflowInputs ==
    {[min |-> 0, timeout |-> 1,
      steps |-> <<[role |-> "ra", user |-> None, required |-> 1, delegable |-> TRUE]>>],
     [min |-> 2, timeout |-> 1,
      steps |-> <<[role |-> "rb", user |-> "u1", required |-> 2, delegable |-> TRUE],
                  [role |-> None, user |-> "u1", required |-> 1, delegable |-> FALSE]>>]}

MCOwnerLists == {<<"u1", "u2">>, <<"u1", "u1">>}

MCOpLists == {<<"transfer", "list">>, <<"list", "transfer", "transfer">>, <<"cancel_listing">>}

\* Schedules that are accepted with each retention, and one without recipients.
MCReports ==
    {[status |-> "active", cron |-> 1, recipients |-> 1, retention |-> 0],
     [status |-> "active", cron |-> 2, recipients |-> 1, retention |-> 3],
     [status |-> "paused", cron |-> 1, recipients |-> 1, retention |-> 2],
     [status |-> "active", cron |-> 1, recipients |-> 0, retention |-> 1]}

MCTables == <<"user", "rows">>

MCBackoff == <<1, 1>>

MCProviders == <<"sendgrid", "ses">>

\* A template that declares what it uses, one that does not, an empty one.
MCContents ==
    {[used |-> {"x"}, declared |-> {"x"}], [used |-> {"x", "y"}, declared |-> {"x"}],
     [used |-> {}, declared |-> {}]}

App == INSTANCE ApprovalWorkflow WITH
    Users <- AppUsers, RoleOf <- AppRoleOf, Amounts <- AppAmounts, Workflows <- AppInputs,
    MaxWorkflows <- AppMaxWorkflows, MaxRequests <- AppMaxRequests,
    MaxActions <- AppMaxActions, MaxTime <- AppMaxTime, Reqs <- AppReqs,
    OwnerLists <- AppOwnerLists, Thresholds <- AppThresholds, MaxProposals <- AppMaxProposals,
    DisputeReqs <- AppDisputeReqs, Transactions <- AppTransactions,
    Resolutions <- AppResolutions, MaxDisputes <- AppMaxDisputes,
    workflows <- appWorkflows, requests <- appRequests, txs <- appTxs, actions <- appActions,
    sweep <- appSweep, cut <- appCut, now <- appNow, wallet <- appWallet,
    proposals <- appProposals, signatures <- appSignatures, req <- appReq,
    disputes <- appDisputes, escrow <- appEscrow, disputeReq <- appDisputeReq,
    disputeLost <- appDisputeLost, disputeRaced <- appDisputeRaced

Bat == INSTANCE BatchProcessor WITH
    Workers <- BatWorkers, Reqs <- BatReqs, QueueSize <- BatQueueSize,
    MaxRetries <- BatMaxRetries, InitialBackoff <- BatInitialBackoff,
    MaxBackoff <- BatMaxBackoff, MaxBatches <- BatMaxBatches, MaxTime <- BatMaxTime,
    MaxCrashes <- BatMaxCrashes, OpReqs <- BatOpReqs, OpLists <- BatOpLists,
    MaxBatchSize <- BatMaxBatchSize, OpMaxBatches <- BatOpMaxBatches,
    batches <- batBatches, entries <- batEntries, queue <- batQueue, work <- batWork,
    req <- batReq, committed <- batCommitted, cancelled <- batCancelled, raced <- batRaced,
    crashes <- batCrashes, now <- batNow, opBatches <- batOpBatches,
    transactions <- batTransactions, listings <- batListings, opReq <- batOpReq,
    aborted <- batAborted, succeeded <- batSucceeded, opCrashes <- batOpCrashes

Rep == INSTANCE ReportScheduler WITH
    Reqs <- RepReqs, Inputs <- RepInputs, defaultReportRetentionDays <- RepDefaultRetention,
    maxReportRetentionDays <- RepMaxRetention, MaxSchedules <- RepMaxSchedules,
    MaxRuns <- RepMaxRuns, MaxTime <- RepMaxTime, MaxCrashes <- RepMaxCrashes,
    Tables <- RepTables, Lifetime <- RepLifetime, MaxJobs <- RepMaxJobs,
    MaxVersion <- RepMaxVersion, ExportMaxTime <- RepExportMaxTime,
    rows <- repRows, entries <- repEntries, history <- repHistory, req <- repReq, up <- repUp,
    sent <- repSent, lost <- repLost, raced <- repRaced, crashes <- repCrashes, now <- repNow,
    data <- repData, exists <- repExists, jobs <- repJobs, work <- repWork, files <- repFiles,
    mailed <- repMailed, exportNow <- repExportNow, served <- repServed

Hook == INSTANCE WebhookDelivery WITH
    Subs <- HookSubs, Workers <- HookWorkers, maxRetries <- HookMaxRetries,
    Backoff <- HookBackoff, Retention <- HookRetention, MaxLogs <- HookMaxLogs,
    MaxPosts <- HookMaxPosts, MaxTime <- HookMaxTime,
    subs <- hookSubs, logs <- hookLogs, work <- hookWork, posts <- hookPosts,
    accepted <- hookAccepted, crossed <- hookCrossed, now <- hookNow

Mail == INSTANCE EmailService WITH
    ProviderPriority <- MailProviders, MaxRetries <- MailMaxRetries,
    failureThreshold <- MailFailureThreshold, QueueBuffer <- MailQueueBuffer,
    MaxMails <- MailMaxMails, MaxProbes <- MailMaxProbes, Reqs <- MailReqs,
    Messages <- MailMessages, Recipients <- MailRecipients, MaxRows <- MailMaxRows,
    TemplateReqs <- Addr \cup {3}, Vars <- MailVars, Languages <- MailLanguages,
    Contents <- MailContents, MaxTemplates <- MailMaxTemplates, MaxVersion <- MailMaxVersion,
    MaxVariants <- MailMaxVariants,
    queue <- mailQueue, current <- mailCurrent, health <- mailHealth, accepted <- mailAccepted,
    outcome <- mailOutcome, tried <- mailTried, skipped <- mailSkipped, probes <- mailProbes,
    rows <- mailRows, suppressed <- mailSuppressed, reqs <- mailReqs, recorded <- mailRecorded,
    raced <- mailRaced, templates <- mailTemplates, versions <- mailVersions,
    variants <- mailVariants, edits <- mailEdits, rendered <- mailRendered

appVars == <<appWorkflows, appRequests, appTxs, appActions, appSweep, appCut, appNow>>
appWalletVars == <<appWallet, appProposals, appSignatures, appReq>>
appDisputeVars == <<appDisputes, appEscrow, appDisputeReq, appDisputeLost, appDisputeRaced>>
batVars == <<batBatches, batEntries, batQueue, batWork, batReq, batCommitted, batCancelled,
    batRaced, batCrashes, batNow>>
batOpVars == <<batOpBatches, batTransactions, batListings, batOpReq, batAborted, batSucceeded,
    batOpCrashes>>
repVars == <<repRows, repEntries, repHistory, repReq, repUp, repSent, repLost, repRaced,
    repCrashes, repNow>>
repExportVars == <<repData, repExists, repJobs, repWork, repFiles, repMailed, repExportNow,
    repServed>>
hookVars == <<hookSubs, hookLogs, hookWork, hookPosts, hookAccepted, hookCrossed, hookNow>>
mailVars == <<mailQueue, mailCurrent, mailHealth, mailAccepted, mailOutcome, mailTried,
    mailSkipped, mailProbes>>
mailEventVars == <<mailRows, mailSuppressed, mailReqs, mailRecorded, mailRaced>>
mailTemplateVars == <<mailTemplates, mailVersions, mailVariants, mailEdits, mailRendered>>

all == <<focus, vars, appVars, appWalletVars, appDisputeVars, batVars, batOpVars, repVars,
    repExportVars, hookVars, mailVars, mailEventVars, mailTemplateVars>>

WorkflowsInit ==
    /\ focus \in Components
    /\ Init
    /\ App!Init
    /\ App!WalletInit
    /\ App!DisputeInit
    /\ Bat!Init
    /\ Bat!OpInit
    /\ Rep!Init
    /\ Rep!ExportInit
    /\ Hook!Init
    /\ Mail!Init
    /\ Mail!EventInit
    /\ Mail!TemplateInit

\* The component k moves, the others stay in their initial states.
Alone(k) ==
    /\ focus = k /\ UNCHANGED focus
    /\ IF k = "governance" THEN TRUE ELSE UNCHANGED vars
    /\ IF k = "approvals" THEN TRUE ELSE UNCHANGED appVars
    /\ IF k = "multisig_handler" THEN TRUE ELSE UNCHANGED appWalletVars
    /\ IF k = "disputes" THEN TRUE ELSE UNCHANGED appDisputeVars
    /\ IF k = "batches" THEN TRUE ELSE UNCHANGED batVars
    /\ IF k = "asset_batches" THEN TRUE ELSE UNCHANGED batOpVars
    /\ IF k = "reports" THEN TRUE ELSE UNCHANGED repVars
    /\ IF k = "exports" THEN TRUE ELSE UNCHANGED repExportVars
    /\ IF k = "webhooks" THEN TRUE ELSE UNCHANGED hookVars
    /\ IF k = "mail" THEN TRUE ELSE UNCHANGED mailVars
    /\ IF k = "mail_events" THEN TRUE ELSE UNCHANGED mailEventVars
    /\ IF k = "templates" THEN TRUE ELSE UNCHANGED mailTemplateVars

WorkflowsNext ==
    \/ Alone("governance") /\ Next
    \/ Alone("approvals") /\ App!Next
    \/ Alone("multisig_handler") /\ App!WalletNext
    \/ Alone("disputes") /\ App!DisputeNext
    \/ Alone("batches") /\ Bat!Next
    \/ Alone("asset_batches") /\ Bat!OpNext
    \/ Alone("reports") /\ Rep!Next
    \/ Alone("exports") /\ Rep!ExportNext
    \/ Alone("webhooks") /\ Hook!Next
    \/ Alone("mail") /\ Mail!Next
    \/ Alone("mail_events") /\ Mail!EventNext
    \/ Alone("templates") /\ Mail!TemplateNext

WorkflowsSpec == WorkflowsInit /\ [][WorkflowsNext]_all

\* A workflow lists its steps; the row of a wallet is not an absent one.
ASSUME ApprovalAssumption ==
    /\ \A w \in AppInputs :
        /\ w.timeout \in Int
        /\ Len(w.steps) \in Nat /\ DOMAIN w.steps = 1..Len(w.steps)
        /\ \A k \in DOMAIN w.steps : w.steps[k].required \in Int
    /\ AppOwnerLists \subseteq Seq(AppUsers)
    /\ None \notin [owners : AppOwnerLists, threshold : Nat]
    /\ AppMaxProposals \in Nat

\* A batch lists its operations.
ASSUME BatchAssumption == \A ops \in BatOpLists : Len(ops) \in Nat /\ DOMAIN ops = 1..Len(ops)

\* No request of the scheduler is the absent one; an export has its tables.
ASSUME ReportAssumption ==
    /\ None \notin RepReqs /\ RepMaxSchedules \in Nat
    /\ Len(RepTables) \in Nat \ {0} /\ DOMAIN RepTables = 1..Len(RepTables)
    /\ None \notin [1..Len(RepTables) -> Nat] /\ RepLifetime \in Nat

\* A webhook is posted once at least, and a delay follows; every provider has
\* one place in the order, is tried once at least, and is not named like the
\* mark of a mail that was given up.
ASSUME DeliveryAssumption ==
    /\ HookMaxRetries \in Nat \ {0} /\ Len(HookBackoff) \in Nat \ {0}
    /\ \A k \in 1..Len(HookBackoff) : HookBackoff[k] \in Nat
    /\ None \notin [sub : HookSubs, status : {"pending", "success", "failed", "abandoned"}, attempts : Nat,
                    next : Nat, dlq : BOOLEAN, at : Nat]
    /\ Len(MailProviders) \in Nat \ {0} /\ DOMAIN MailProviders = 1..Len(MailProviders)
    /\ \A j, k \in DOMAIN MailProviders : MailProviders[j] = MailProviders[k] => j = k
    /\ \A k \in DOMAIN MailProviders : MailProviders[k] # "failed"
    /\ MailMaxRetries \in Nat \ {0}
    /\ None \notin [mail : Nat, candidates : SUBSET DOMAIN MailProviders, attempt : Nat]

\* Queues and tables have bounds, the reports of a schedule are kept for a
\* number of days, and the days taken when none are asked for are accepted.
ASSUME BoundsAssumption ==
    /\ BatQueueSize \in Nat /\ BatMaxBatchSize \in Nat
    /\ RepMaxRetention \in Nat /\ RepDefaultRetention \in 1..RepMaxRetention
    /\ \A s \in RepInputs : s.retention \in Int
    /\ MailQueueBuffer \in Nat /\ MailMaxRows \in Nat
    /\ MailMaxTemplates \in Nat /\ MailMaxVersion \in Nat \ {0}

AddrSymmetry == Permutations(Addr)

-----------------------------------------------------------------------------
\* Every component keeps to its types.
WorkflowsTypeOK ==
    /\ TypeOK /\ App!TypeOK /\ App!WalletTypeOK /\ App!DisputeTypeOK /\ Bat!TypeOK /\ Bat!OpTypeOK
    /\ Rep!TypeOK /\ Hook!TypeOK /\ Mail!TypeOK /\ Mail!EventTypeOK /\ Mail!TemplateTypeOK /\ Rep!ExportTypeOK

\* Nothing is released without the consents it needs: a wallet's proposal
\* runs on recorded signatures of its owners, a transfer on its full chain.
ApprovalsAreBacked == App!ApprovalsAreSigned /\ App!ReleasedByFullChain

\* An escrow follows the outcome of its dispute.
EscrowFollowsDispute == App!EscrowFollowsDispute

\* Batches of transfers run once, and a batch of operations has the status
\* that its records justify.
BatchesAreTold == Bat!TransfersRunOnce /\ Bat!BatchStatusTellsRecords

\* Schedules and the scheduler's entries agree, and runs keep their results.
SchedulesAreKept == Rep!SchedulesAreKept

\* What is recorded of webhooks and mails is what happened to them, and a
\* download has all the data of its own job.
DeliveriesAreTold ==
    /\ Hook!LogTellsDelivery
    /\ Mail!MailIsAccountedFor /\ Mail!StampsTellEvents /\ Mail!HardBouncesSuppress
    /\ Rep!ExportsAreFaithful

\* Every version of a template is kept, and what is rendered from a
\* validated one has no placeholder left.
TemplatesAreKept == Mail!HistoryIsComplete /\ Mail!NoPlaceholderLeft
=============================================================================
