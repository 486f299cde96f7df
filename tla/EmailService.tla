---------------------------- MODULE EmailService ----------------------------
(***************************************************************************)
(* Sending mail (backend/services/email_service.go, email_health.go): a    *)
(* bounded queue, one worker, and providers tried in order of priority,    *)
(* each MaxRetries times, the unhealthy ones left out unless all are.      *)
(* Probes and resets change the health while the worker is at work.        *)
(***************************************************************************)
EXTENDS Rows, Functions, FiniteSetsExt

CONSTANTS
    None,
    ProviderPriority,  \* a sequence of providers
    MaxRetries, failureThreshold,
    QueueBuffer,       \* emailQueueBuffer
    MaxMails, MaxProbes

Providers == Range(ProviderPriority)

VARIABLES
    queue,             \* mails waiting, by number
    current,           \* what the worker does: [mail, candidates, attempt], or None;
                       \* its candidates are places in ProviderPriority
    health,            \* provider -> [status, failures]
    accepted,          \* history: mails queueEmail took
    outcome,           \* history: mail -> the provider that took it, or "failed"
    tried,             \* history: mail -> provider -> attempts
    skipped,           \* history: providers left out for the current mail
    probes             \* history: probes and resets so far

vars == <<queue, current, health, accepted, outcome, tried, skipped, probes>>

Healthy == [status |-> "healthy", failures |-> 0]

TypeOK ==
    /\ Len(queue) <= QueueBuffer
    /\ \A p \in Providers : health[p].status \in {"healthy", "degraded", "unhealthy"}
    /\ current # None => current.attempt \in 1..MaxRetries /\ current.candidates # {}

Init ==
    /\ queue = <<>> /\ current = None
    /\ health = [p \in Providers |-> Healthy]
    /\ accepted = 0 /\ outcome = <<>> /\ tried = <<>> /\ skipped = {} /\ probes = 0

\* queueEmail: a full queue refuses the mail, and the caller is told.
queueEmail ==
    /\ accepted < MaxMails
    /\ Len(queue) < QueueBuffer
    /\ accepted' = accepted + 1
    /\ queue' = Append(queue, accepted + 1)
    /\ UNCHANGED <<current, health, outcome, tried, skipped, probes>>

IsHealthy(p) == health[p].status # "unhealthy"

\* The providers for one mail, chosen when its turn comes.
Candidates ==
    LET up == {k \in DOMAIN ProviderPriority : IsHealthy(ProviderPriority[k])}
    IN  IF up = {} THEN DOMAIN ProviderPriority ELSE up

\* worker, SendWithFailover
worker ==
    /\ current = None /\ queue # <<>>
    /\ queue' = Tail(queue)
    /\ tried' = Append(tried, [p \in Providers |-> 0])
    /\ skipped' = Providers \ {ProviderPriority[k] : k \in Candidates}
    /\ current' = [mail |-> Head(queue), candidates |-> Candidates, attempt |-> 1]
    /\ UNCHANGED <<health, accepted, outcome, probes>>

\* RecordSuccess, RecordFailure
RecordSuccess(p) == [health EXCEPT ![p] = Healthy]

StatusAfter(n) == IF n >= failureThreshold THEN "unhealthy" ELSE "degraded"

RecordFailure(p) ==
    [health EXCEPT ![p] = [status |-> StatusAfter(@.failures + 1), failures |-> @.failures + 1]]

\* What is left of the candidates after attempts that all failed.
Remaining(c) == c.candidates \ {Min(c.candidates)}

\* One attempt of dispatch
dispatch(ok) ==
    LET p == ProviderPriority[Min(current.candidates)] IN
    /\ current # None
    /\ tried' = [tried EXCEPT ![current.mail][p] = tried[current.mail][p] + 1]
    /\ health' = IF ok THEN RecordSuccess(p) ELSE RecordFailure(p)
    /\ \/ /\ ok
          /\ outcome' = Append(outcome, p) /\ current' = None
       \/ /\ ~ok /\ current.attempt < MaxRetries
          /\ current' = [current EXCEPT !.attempt = @ + 1] /\ UNCHANGED outcome
       \/ /\ ~ok /\ current.attempt = MaxRetries /\ Remaining(current) # {}
          /\ current' = [current EXCEPT !.candidates = Remaining(current), !.attempt = 1] /\ UNCHANGED outcome
       \/ /\ ~ok /\ current.attempt = MaxRetries /\ Remaining(current) = {}
          /\ outcome' = Append(outcome, "failed") /\ current' = None
    /\ UNCHANGED <<queue, accepted, skipped, probes>>

\* CheckHealth probes a provider; Reset forgets its failures.
CheckHealth(p, ok) ==
    /\ probes < MaxProbes
    /\ probes' = probes + 1
    /\ health' = IF ok THEN RecordSuccess(p) ELSE RecordFailure(p)
    /\ UNCHANGED <<queue, current, accepted, outcome, tried, skipped>>

Reset(p) ==
    /\ probes < MaxProbes
    /\ probes' = probes + 1
    /\ health' = [health EXCEPT ![p] = Healthy]
    /\ UNCHANGED <<queue, current, accepted, outcome, tried, skipped>>

Next ==
    \/ queueEmail
    \/ worker
    \/ \E ok \in BOOLEAN : dispatch(ok)
    \/ \E p \in Providers : Reset(p) \/ \E ok \in BOOLEAN : CheckHealth(p, ok)

Spec == Init /\ [][Next]_vars

-----------------------------------------------------------------------------
\* Every mail the queue took is still waiting, at the worker or finished,
\* in the order they came; it was taken by at most one provider, and given
\* up only after every provider not left out as unhealthy failed MaxRetries
\* times, none being left out when all were unhealthy.
MailIsAccountedFor ==
    /\ queue = [k \in 1..Len(queue) |-> accepted - Len(queue) + k]
    /\ Len(outcome) + (IF current = None THEN 0 ELSE 1) + Len(queue) = accepted
    /\ \A m \in DOMAIN outcome :
        /\ \A p \in Providers : tried[m][p] <= MaxRetries
        /\ outcome[m] = "failed" => \E p \in Providers : tried[m][p] = MaxRetries
        /\ outcome[m] = "failed" /\ m = Len(tried) =>
            \A p \in Providers : tried[m][p] = IF p \in skipped THEN 0 ELSE MaxRetries

-----------------------------------------------------------------------------
(***************************************************************************)
(* Delivery events of mails (backend/services/email_analytics.go, called   *)
(* by backend/handlers/webhooks/email.go): an event finds the row of its   *)
(* message, or the latest row of its recipient, stamps it and saves it     *)
(* whole, or creates a row when there is none.  Providers send events in   *)
(* any order, more than once and at the same time.                         *)
(***************************************************************************)
CONSTANTS Reqs, Messages, Recipients, MaxRows

Kinds == {"delivered", "soft", "hard", "opened", "clicked"}

VARIABLES
    rows,              \* email_deliveries: [message, recipient, status, stamps]
    suppressed,        \* email_suppressions: recipients
    reqs,
    recorded,          \* history: <<stamp, row>> of the events saved
    raced              \* history: rows saved from an older read

eventVars == <<rows, suppressed, reqs, recorded, raced>>

Stamps == {"sent", "delivered", "bounced", "opened", "clicked"}

EventTypeOK ==
    /\ Len(rows) <= MaxRows
    /\ \A i \in DOMAIN rows : rows[i].status \in Stamps /\ rows[i].stamps \subseteq Stamps
    /\ suppressed \subseteq Recipients
    /\ \A r \in Reqs : reqs[r].pc \in {"new", "save", "suppress", "create", "done"}

EventInit ==
    /\ rows = <<>> /\ suppressed = {}
    /\ reqs = [r \in Reqs |-> New]
    /\ recorded = {} /\ raced = {}

StampOf(kind) == IF kind \in {"soft", "hard"} THEN "bounced" ELSE kind

\* RecordSent
RecordSent(m, to) ==
    /\ Len(rows) < MaxRows
    /\ rows' = Append(rows, [message |-> m, recipient |-> to, status |-> "sent", stamps |-> {"sent"}])
    /\ UNCHANGED <<suppressed, reqs, recorded, raced>>

\* The row of an event: First by message, or the latest of the recipient
\* when the event has no message.
Find(m, to) ==
    LET hits == {i \in DOMAIN rows : IF m # None THEN rows[i].message = m ELSE rows[i].recipient = to}
    IN  IF hits = {} THEN 0 ELSE IF m # None THEN Min(hits) ELSE Max(hits)

\* RecordDelivery, RecordBounce, RecordOpen and RecordClick read the row.
Read(r, kind, m, to) ==
    LET i == Find(m, to) IN
    /\ reqs[r] = New
    /\ i # 0 \/ Len(rows) < MaxRows
    /\ reqs' = [reqs EXCEPT ![r] = [pc |-> "save", kind |-> kind, message |-> m, to |-> to, at |-> i,
                                    row |-> IF i = 0 THEN None ELSE rows[i]]]
    /\ UNCHANGED <<rows, suppressed, recorded, raced>>

\* An open does not take a click back; the other events replace the status.
Stamped(row, kind) ==
    [row EXCEPT !.status = IF kind = "opened" /\ @ = "clicked" THEN @ ELSE StampOf(kind),
                !.stamps = @ \cup {StampOf(kind)}]

Created(r) == [message |-> r.message, recipient |-> r.to, status |-> StampOf(r.kind), stamps |-> {StampOf(r.kind)}]

\* A hard bounce goes on to suppress its recipient, whether its row was
\* found or not.
Suppresses(q) == q.kind = "hard"

Save(r) ==
    LET q == reqs[r] IN
    /\ q.pc = "save"
    /\ \/ /\ q.at = 0 /\ Len(rows) < MaxRows
          /\ rows' = Append(rows, Created(q))
          /\ recorded' = recorded \cup {<<StampOf(q.kind), Len(rows) + 1>>}
          /\ UNCHANGED raced
       \/ /\ q.at # 0
          /\ rows' = [rows EXCEPT ![q.at] = Stamped(q.row, q.kind)]
          /\ recorded' = recorded \cup {<<StampOf(q.kind), q.at>>}
          /\ raced' = raced \cup (IF rows[q.at] = q.row THEN {} ELSE {q.at})
    /\ reqs' = [reqs EXCEPT ![r] = IF Suppresses(q) THEN [q EXCEPT !.pc = "suppress"]
                                   ELSE [q EXCEPT !.pc = "done"]]
    /\ UNCHANGED suppressed

\* SuppressRecipient: an entry that is there gets a new reason; a create
\* that meets another's entry fails, and the failure is dropped.
SuppressRecipient(r) ==
    /\ reqs[r].pc = "suppress"
    /\ reqs' = [reqs EXCEPT ![r].pc = IF reqs[r].to \in suppressed THEN "done" ELSE "create"]
    /\ UNCHANGED <<rows, suppressed, recorded, raced>>

CreateSuppression(r) ==
    /\ reqs[r].pc = "create"
    /\ suppressed' = suppressed \cup {reqs[r].to}
    /\ reqs' = [reqs EXCEPT ![r].pc = "done"]
    /\ UNCHANGED <<rows, recorded, raced>>

\* GetAnalyticsSummary
Summary ==
    LET With(s) == Cardinality({i \in DOMAIN rows : rows[i].status \in s})
        Has(s) == Cardinality({i \in DOMAIN rows : s \in rows[i].stamps})
    IN  [sent |-> Len(rows), delivered |-> With({"delivered", "opened", "clicked"}),
         bounced |-> With({"bounced"}), opened |-> Has("opened"), clicked |-> Has("clicked")]

EventNext ==
    \/ \E m \in Messages, to \in Recipients : RecordSent(m, to)
    \/ \E r \in Reqs :
        \/ \E k \in Kinds, m \in Messages \cup {None}, to \in Recipients : Read(r, k, m, to)
        \/ Save(r) \/ SuppressRecipient(r) \/ CreateSuppression(r)

EventSpec == EventInit /\ [][EventNext]_eventVars

-----------------------------------------------------------------------------
\* The stamps of a delivery are those of the events saved for it: none is
\* invented, and none is lost unless the row was saved from an older read;
\* so each status has its stamp, and the summary never counts a mail both
\* as delivered and as bounced.
StampsTellEvents ==
    /\ \A i \in DOMAIN rows :
        /\ rows[i].status \in rows[i].stamps
        /\ \A s \in rows[i].stamps \ {"sent"} : <<s, i>> \in recorded
    /\ \A e \in recorded : e[2] \notin raced => e[1] \in rows[e[2]].stamps
    /\ Summary.delivered + Summary.bounced <= Summary.sent
    /\ Summary.opened <= Summary.sent /\ Summary.clicked <= Summary.sent

\* Whoever an answered hard bounce names is suppressed, also when the event
\* had no row yet, and when two of them create the entry at once.
HardBouncesSuppress ==
    \A r \in Reqs : reqs[r].pc = "done" /\ reqs[r].kind = "hard" => reqs[r].to \in suppressed

-----------------------------------------------------------------------------
(***************************************************************************)
(* Mail templates of one key (backend/handlers/email_templates.go,         *)
(* services/email_template_service.go, services/template_versioning.go):   *)
(* every edit saves the row and a snapshot in one transaction, and the     *)
(* migrations make (template, version) unique.  The row is read before the *)
(* transaction and saved whole, is_active included.                        *)
(***************************************************************************)
CONSTANTS TemplateReqs, Vars, Languages, Contents, MaxTemplates, MaxVersion, MaxVariants

VARIABLES
    templates,         \* rows [language, content, version, active, deleted]
    versions,          \* snapshots [template, version, content]
    variants,          \* A/B variants [template, used]
    edits,
    rendered           \* the last mail rendered: [variant, left], or None

templateVars == <<templates, versions, variants, edits, rendered>>

\* A content uses placeholders and declares variables.
TemplateTypeOK ==
    /\ Len(templates) <= MaxTemplates
    /\ \A i \in DOMAIN templates : templates[i].content \in Contents /\ templates[i].version \in 1..MaxVersion
    /\ \A v \in versions : v.template \in DOMAIN templates /\ v.content \in Contents
    /\ \A r \in TemplateReqs : edits[r].pc \in {"new", "create", "save", "activate", "done"}

TemplateInit ==
    /\ templates = <<>> /\ versions = {} /\ variants = {}
    /\ edits = [r \in TemplateReqs |-> New] /\ rendered = None

ValidateTemplate(used, declared) == used \subseteq declared

Live == {i \in DOMAIN templates : ~templates[i].deleted}

\* The rows of a language a transaction deactivates: those committed when
\* its first statement runs.
Others(language, i) == {j \in Live \ {i} : templates[j].language = language}

Deactivated(others) == [i \in others |-> [templates[i] EXCEPT !.active = FALSE]]

\* CreateTemplate: a transaction that deactivates the others, inserts the
\* row and the snapshot of version 1.
CreateTemplate(r, language, content, active) ==
    /\ edits[r] = New
    /\ ValidateTemplate(content.used, content.declared)
    /\ edits' = [edits EXCEPT ![r] =
            [pc |-> "create", others |-> IF active THEN Others(language, 0) ELSE {},
             row |-> [language |-> language, content |-> content, version |-> 1,
                      active |-> active, deleted |-> FALSE]]]
    /\ UNCHANGED <<templates, versions, variants, rendered>>

CreateCommit(r) ==
    /\ edits[r].pc = "create"
    /\ Len(templates) < MaxTemplates
    /\ templates' = Append(Saved(templates, Deactivated(edits[r].others)), edits[r].row)
    /\ versions' = versions \cup {[template |-> Len(templates) + 1, version |-> 1,
                                   content |-> edits[r].row.content]}
    /\ edits' = [edits EXCEPT ![r] = Done]
    /\ UNCHANGED <<variants, rendered>>

Edited(row, content) == [row EXCEPT !.content = content, !.version = @ + 1]

\* UpdateTemplate merges the fields given and RollbackToVersion takes those
\* of a snapshot; both go on from the row they read.
Edit(r, i, content) ==
    /\ edits[r] = New
    /\ i \in Live /\ templates[i].version < MaxVersion
    /\ edits' = [edits EXCEPT ![r] = [pc |-> "save", template |-> i, row |-> Edited(templates[i], content)]]
    /\ UNCHANGED <<templates, versions, variants, rendered>>

UpdateTemplate(r, i, content) ==
    /\ ValidateTemplate(content.used, content.declared)
    /\ Edit(r, i, content)

RollbackToVersion(r, v) == Edit(r, v.template, v.content)

\* The unique index on (template, version); a duplicate rolls the save back.
Unused_Unchecked(i, n) == TRUE

Unused(i, n) == ~\E v \in versions : v.template = i /\ v.version = n

SaveCommit(r) ==
    LET i == edits[r].template
        row == edits[r].row
    IN  /\ edits[r].pc = "save"
        /\ \/ /\ Unused(i, row.version)
              /\ templates' = [templates EXCEPT ![i] = row]
              /\ versions' = versions \cup {[template |-> i, version |-> row.version, content |-> row.content]}
           \/ ~Unused(i, row.version) /\ UNCHANGED <<templates, versions>>
        /\ edits' = [edits EXCEPT ![r] = Done]
        /\ UNCHANGED <<variants, rendered>>

\* ActivateTemplate: one transaction of two statements
ActivateTemplate(r, i) ==
    /\ edits[r] = New
    /\ i \in Live
    /\ edits' = [edits EXCEPT ![r] = [pc |-> "activate", template |-> i,
                                      others |-> Others(templates[i].language, i)]]
    /\ UNCHANGED <<templates, versions, variants, rendered>>

ActivateCommit(r) ==
    LET i == edits[r].template
        live == {j \in {i} : ~templates[i].deleted}
    IN  /\ edits[r].pc = "activate"
        /\ templates' = Saved(Saved(templates, Deactivated(edits[r].others)),
                              [j \in live |-> [templates[j] EXCEPT !.active = TRUE]])
        /\ edits' = [edits EXCEPT ![r] = Done]
        /\ UNCHANGED <<versions, variants, rendered>>

DeleteTemplate(i) ==
    /\ i \in Live
    /\ templates' = [templates EXCEPT ![i].deleted = TRUE]
    /\ UNCHANGED <<versions, variants, edits, rendered>>

\* CreateVariant: checked against the variables the template declares now.
CreateVariant(i, used) ==
    /\ Cardinality(variants) < MaxVariants
    /\ i \in Live /\ ValidateTemplate(used, templates[i].content.declared)
    /\ variants' = variants \cup {[template |-> i, used |-> used]}
    /\ UNCHANGED <<templates, versions, edits, rendered>>

\* activeTemplate: one of the live and active rows of the language, or of
\* English.
Active(language) == {i \in Live : templates[i].active /\ templates[i].language = language}

activeTemplate(language) == IF Active(language) # {} THEN Active(language) ELSE Active("en")

\* Render: selectVariant picks one of the template's variants when it has
\* some; a value for every variable the template declares is needed;
\* substitute leaves a placeholder without a value as it is.
Render(language, given) ==
    \E i \in activeTemplate(language) :
        LET mine == {v \in variants : v.template = i}
            declared == templates[i].content.declared
        IN  /\ declared \subseteq given
            /\ \/ mine = {} /\ rendered' = [variant |-> FALSE, left |-> templates[i].content.used \ given]
               \/ \E v \in mine : rendered' = [variant |-> TRUE, left |-> v.used \ given]
            /\ UNCHANGED <<templates, versions, variants, edits>>

TemplateNext ==
    \/ \E r \in TemplateReqs :
        \/ \E l \in Languages, c \in Contents, b \in BOOLEAN : CreateTemplate(r, l, c, b)
        \/ \E i \in DOMAIN templates : ActivateTemplate(r, i) \/ \E c \in Contents : UpdateTemplate(r, i, c)
        \/ \E v \in versions : RollbackToVersion(r, v)
        \/ CreateCommit(r) \/ SaveCommit(r) \/ ActivateCommit(r)
    \/ \E i \in DOMAIN templates : DeleteTemplate(i) \/ \E u \in SUBSET Vars : CreateVariant(i, u)
    \/ \E l \in Languages, g \in SUBSET Vars : Render(l, g)

TemplateSpec == TemplateInit /\ [][TemplateNext]_templateVars
-----------------------------------------------------------------------------
\* The history of a template is complete whatever edits and rollbacks
\* overlap: it has exactly one snapshot for every version up to the one of
\* the row, and the row is what its own snapshot says (an edit that lost a
\* race fails instead of replacing the winner's content).
HistoryIsComplete ==
    \A i \in DOMAIN templates :
        LET mine == {v \in versions : v.template = i} IN
        /\ Cardinality(mine) = templates[i].version
        /\ {v.version : v \in mine} = 1..templates[i].version
        /\ [template |-> i, version |-> templates[i].version, content |-> templates[i].content] \in mine

\* A mail rendered from a template itself has no placeholder left: nothing
\* gets saved that uses a variable it does not declare, also by a rollback.
NoPlaceholderLeft == rendered # None /\ ~rendered.variant => rendered.left = {}

\* "exactly one localized template is live at a time" (ActivateTemplate in
\* backend/handlers/email_templates.go): no two active rows of a language.
\* An edit that read its row before another was activated saves it active.
OneActiveTemplate == \A l \in Languages : Cardinality(Active(l)) <= 1
=============================================================================
