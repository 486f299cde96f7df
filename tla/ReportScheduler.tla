--------------------------- MODULE ReportScheduler ---------------------------
(***************************************************************************)
(* Scheduled reports (backend/services/report_scheduler.go and             *)
(* backend/handlers/reports.go).  The rows are in the database, the cron   *)
(* entries in the memory of the process; a request changes the row first   *)
(* and the entry in steps of its own, each under the lock.                 *)
(***************************************************************************)
EXTENDS Rows, Functions

CONSTANTS
    Reqs, None,
    Inputs,            \* schedules asked for: [status, cron, recipients, retention]
    defaultReportRetentionDays, maxReportRetentionDays,
    MaxSchedules, MaxRuns, MaxTime, MaxCrashes

VARIABLES
    rows,              \* scheduled_reports [status, cron, retention, deleted]
    entries,           \* the cron expression each row is registered under, or None
    history,           \* report_delivery_histories [schedule, status, at]
    req,
    up,                \* the process has started its scheduler
    sent,              \* history: the reports that reached their recipients
    lost,              \* history: the reports whose run was cut by a crash
    raced,             \* history: schedules changed by two requests at once
    crashes, now

vars == <<rows, entries, history, req, up, sent, lost, raced, crashes, now>>

Ids == DOMAIN rows
Runs == DOMAIN history

TypeOK ==
    /\ \A i \in Ids : rows[i].retention \in 1..maxReportRetentionDays
    /\ \A h \in Runs : history[h].status \in {"pending", "success", "failed", "purged"}
    /\ sent \cup lost \subseteq Runs
    /\ \A r \in Reqs : req[r] = Done \/ up

Init ==
    /\ rows = <<>>
    /\ entries = [i \in 1..MaxSchedules |-> None]
    /\ history = <<>>
    /\ req = [r \in Reqs |-> New]
    /\ up = TRUE
    /\ sent = {} /\ lost = {} /\ raced = {}
    /\ crashes = 0 /\ now = 0

\* What normalizeSchedule accepts, and the row it makes of it.
ValidSchedule(s) == s.recipients > 0 /\ s.retention <= maxReportRetentionDays

normalizeSchedule(s) ==
    [status |-> s.status, cron |-> s.cron, deleted |-> FALSE,
     retention |-> IF s.retention <= 0 THEN defaultReportRetentionDays ELSE s.retention]

Live(i) == ~rows[i].deleted

\* The requests other than r that are changing schedule i.
Others(r, i) == {p \in Reqs \ {r} : req[p].pc \in {"save", "unregister", "register"} /\ req[p].id = i}

Raced(r, i) == IF Others(r, i) # {} THEN raced \cup {i} ELSE raced

CreateSchedule(r, s) ==
    /\ up
    /\ req[r] = New
    /\ Len(rows) < MaxSchedules
    /\ ValidSchedule(s)
    /\ rows' = Append(rows, normalizeSchedule(s))
    /\ req' = [req EXCEPT ![r] = IF s.status = "active" THEN [pc |-> "register", id |-> Len(rows) + 1, cron |-> s.cron]
                                 ELSE Done]
    /\ UNCHANGED <<entries, history, up, sent, lost, raced, crashes, now>>

\* UpdateSchedule finds the row of the user and takes the request over.
UpdateRead(r, i, s) ==
    /\ up
    /\ req[r] = New
    /\ Live(i)
    /\ ValidSchedule(s)
    /\ req' = [req EXCEPT ![r] = [pc |-> "save", id |-> i, row |-> normalizeSchedule(s)]]
    /\ raced' = Raced(r, i)
    /\ UNCHANGED <<rows, entries, history, up, sent, lost, crashes, now>>

\* db.Save inserts the row again when a deletion has hidden it.
UpdateSave(r) ==
    LET q == req[r] IN
    /\ q.pc = "save"
    /\ rows' = [rows EXCEPT ![q.id] = q.row]
    /\ req' = [req EXCEPT ![r] = [pc |-> "unregister", id |-> q.id, cron |-> q.row.cron, again |-> q.row.status = "active"]]
    /\ UNCHANGED <<entries, history, up, sent, lost, raced, crashes, now>>

DeleteSchedule(r, i) ==
    /\ up
    /\ req[r] = New
    /\ Live(i)
    /\ rows' = [rows EXCEPT ![i].deleted = TRUE]
    /\ req' = [req EXCEPT ![r] = [pc |-> "unregister", id |-> i, cron |-> None, again |-> FALSE]]
    /\ raced' = Raced(r, i)
    /\ UNCHANGED <<entries, history, up, sent, lost, crashes, now>>

Removed_Kept(i) == entries

Removed(i) == [entries EXCEPT ![i] = None]

UnregisterSchedule(r) ==
    LET q == req[r] IN
    /\ q.pc = "unregister"
    /\ entries' = Removed(q.id)
    /\ req' = [req EXCEPT ![r] = IF q.again THEN [pc |-> "register", id |-> q.id, cron |-> q.cron] ELSE Done]
    /\ UNCHANGED <<rows, history, up, sent, lost, raced, crashes, now>>

\* scheduleLocked replaces the entry the schedule has.
RegisterSchedule(r) ==
    LET q == req[r] IN
    /\ q.pc = "register"
    /\ entries' = [entries EXCEPT ![q.id] = q.cron]
    /\ req' = [req EXCEPT ![r] = Done]
    /\ UNCHANGED <<rows, history, up, sent, lost, raced, crashes, now>>

\* runSchedule up to the pending history row.
Started(r, i) ==
    /\ up
    /\ req[r] = New
    /\ Len(history) < MaxRuns
    /\ history' = Append(history, [schedule |-> i, status |-> "pending", at |-> now])
    /\ req' = [req EXCEPT ![r] = [pc |-> "deliver", id |-> i, row |-> rows[i], run |-> Len(history) + 1]]
    /\ UNCHANGED <<rows, entries, up, sent, lost, raced, crashes, now>>

\* The cron job reads the row again and leaves it alone unless it is active.
CronJob(r, i) == entries[i] # None /\ Live(i) /\ rows[i].status = "active" /\ Started(r, i)

RunScheduleNow(r, i) == Live(i) /\ Started(r, i)

\* The mail or the webhook: delivered, or refused.
deliver(r, ok) ==
    LET q == req[r] IN
    /\ q.pc = "deliver"
    /\ sent' = IF ok THEN sent \cup {q.run} ELSE sent
    /\ req' = [req EXCEPT ![r] = [q EXCEPT !.pc = IF ok THEN "delivered" ELSE "refused"]]
    /\ UNCHANGED <<rows, entries, history, up, lost, raced, crashes, now>>

Outcome(q) == IF q.pc = "delivered" THEN "success" ELSE "failed"

\* The outcome is saved, and the schedule's old history removed.
cleanupHistory(i, retention, rest) ==
    [h \in DOMAIN rest |-> IF rest[h].schedule = i /\ rest[h].at < now - retention
                           THEN [rest[h] EXCEPT !.status = "purged"] ELSE rest[h]]

RecordRun(r) ==
    LET q == req[r] IN
    /\ q.pc \in {"delivered", "refused"}
    /\ history' = cleanupHistory(q.id, q.row.retention, [history EXCEPT ![q.run].status = Outcome(q)])
    /\ req' = [req EXCEPT ![r] = Done]
    /\ UNCHANGED <<rows, entries, up, sent, lost, raced, crashes, now>>

\* The process stops: the entries and the requests are gone, the rows stay.
Crash ==
    /\ up
    /\ crashes < MaxCrashes
    /\ up' = FALSE
    /\ crashes' = crashes + 1
    /\ entries' = [i \in 1..MaxSchedules |-> None]
    /\ lost' = lost \cup {req[r].run : r \in {p \in Reqs : req[p].pc \in {"deliver", "delivered", "refused"}}}
    /\ req' = [r \in Reqs |-> Done]
    /\ raced' = {}
    /\ UNCHANGED <<rows, history, sent, now>>

Start ==
    /\ ~up
    /\ up' = TRUE
    /\ entries' = [i \in 1..MaxSchedules |-> IF i \in Ids /\ Live(i) /\ rows[i].status = "active" THEN rows[i].cron ELSE None]
    /\ req' = [r \in Reqs |-> New]
    /\ UNCHANGED <<rows, history, sent, lost, raced, crashes, now>>

Tick == now < MaxTime /\ now' = now + 1 /\ UNCHANGED <<rows, entries, history, req, up, sent, lost, raced, crashes>>

Next ==
    \/ \E r \in Reqs, s \in Inputs : CreateSchedule(r, s)
    \/ \E r \in Reqs, i \in Ids, s \in Inputs : UpdateRead(r, i, s)
    \/ \E r \in Reqs : UpdateSave(r) \/ UnregisterSchedule(r) \/ RegisterSchedule(r) \/ RecordRun(r)
    \/ \E r \in Reqs, i \in Ids : DeleteSchedule(r, i) \/ CronJob(r, i) \/ RunScheduleNow(r, i)
    \/ \E r \in Reqs, ok \in BOOLEAN : deliver(r, ok)
    \/ Crash
    \/ Start
    \/ Tick

Spec == Init /\ [][Next]_vars

-----------------------------------------------------------------------------
\* The cron entries follow the rows: once no request is at work on a
\* schedule, it is registered exactly when it is active, and under the
\* expression of its row, also after a crash between the save and the
\* registration; only two requests changing the same schedule at once can
\* leave an active one without an entry.  And the history tells the truth of
\* each run that was not cut short: a success was delivered, a failure not.
SchedulesAreKept ==
    /\ up => \A i \in Ids \ raced : Others(None, i) = {} =>
        entries[i] = IF Live(i) /\ rows[i].status = "active" THEN rows[i].cron ELSE None
    /\ \A h \in Runs \ lost : history[h].status \in {"success", "failed"} => (history[h].status = "success") = (h \in sent)
    /\ \A h \in Runs : history[h].status = "pending" =>
        h \in lost \/ \E r \in Reqs : req[r].pc \in {"deliver", "delivered", "refused"} /\ req[r].run = h

-----------------------------------------------------------------------------
(***************************************************************************)
(* Exports of a user's data (backend/services/data_export_service.go,      *)
(* backend/handlers/gdpr.go): a request creates a job and a goroutine      *)
(* works on it: it reads the user's tables one after the other, writes an  *)
(* encrypted file, completes the job and mails a link that is good until   *)
(* the job expires.  A record is its version number; a file is named after *)
(* its job's token and holds what was gathered for it, whatever the        *)
(* format and the encryption.                                              *)
(***************************************************************************)
CONSTANTS
    Tables,            \* the sequence gatherUserData reads; the user's row is the first
    Lifetime,          \* of a download link
    MaxJobs, MaxVersion, ExportMaxTime

VARIABLES
    data,              \* table -> version of the user's records
    exists,            \* the user's row is there
    jobs,              \* export_jobs: [status, file, expires, requested]
    work,              \* job -> [pc, gathered]: its processExport
    files,             \* job -> contents of its file, or None
    mailed,            \* jobs whose link was mailed
    exportNow,
    served             \* history: the last download [job, contents], or None

exportVars == <<data, exists, jobs, work, files, mailed, exportNow, served>>

Jobs == DOMAIN jobs

ExportTypeOK ==
    /\ \A j \in Jobs : /\ jobs[j].status \in {"pending", "processing", "completed", "failed"}
                       /\ work[j].pc \in {"begin", "gather", "write", "complete", "mail", "ended", "lost"}
    /\ mailed \subseteq Jobs

ExportInit ==
    /\ data = [t \in Range(Tables) |-> 0] /\ exists = TRUE
    /\ jobs = <<>> /\ work = <<>> /\ files = <<>>
    /\ mailed = {} /\ exportNow = 0 /\ served = None

\* RequestDataExport, StartExportJob
StartExportJob ==
    /\ Len(jobs) < MaxJobs /\ exists
    /\ jobs' = Append(jobs, [status |-> "pending", file |-> None, expires |-> exportNow + Lifetime, requested |-> data])
    /\ work' = Append(work, [pc |-> "begin", gathered |-> <<>>])
    /\ files' = Append(files, None)
    /\ UNCHANGED <<data, exists, mailed, exportNow, served>>

\* processExport, up to its first query
Begin(j) ==
    /\ work[j].pc = "begin"
    /\ jobs' = [jobs EXCEPT ![j].status = "processing"]
    /\ work' = [work EXCEPT ![j].pc = "gather"]
    /\ UNCHANGED <<data, exists, files, mailed, exportNow, served>>

\* gatherUserData, one table; the user's row must still be there
Gather(j) ==
    LET got == work[j].gathered IN
    /\ work[j].pc = "gather"
    /\ got # <<>> \/ exists
    /\ work' = [work EXCEPT ![j] = [pc |-> IF Len(got) + 1 = Len(Tables) THEN "write" ELSE "gather",
                                    gathered |-> Append(got, data[Tables[Len(got) + 1]])]]
    /\ UNCHANGED <<data, exists, jobs, files, mailed, exportNow, served>>

\* serialize, encrypt and write the file
WriteFile(j) ==
    /\ work[j].pc = "write"
    /\ files' = [files EXCEPT ![j] = work[j].gathered]
    /\ work' = [work EXCEPT ![j].pc = "complete"]
    /\ UNCHANGED <<data, exists, jobs, mailed, exportNow, served>>

Complete(j) ==
    /\ work[j].pc = "complete"
    /\ jobs' = [jobs EXCEPT ![j].status = "completed", ![j].file = j]
    /\ work' = [work EXCEPT ![j].pc = "mail"]
    /\ UNCHANGED <<data, exists, files, mailed, exportNow, served>>

\* A failed mail is only logged.
Mail(j, linked) ==
    /\ work[j].pc = "mail"
    /\ mailed' = IF linked THEN mailed \cup {j} ELSE mailed
    /\ work' = [work EXCEPT ![j].pc = "ended"]
    /\ UNCHANGED <<data, exists, jobs, files, exportNow, served>>

\* A query, the file or the update fails.
failJob(j) ==
    /\ work[j].pc \in {"gather", "write", "complete"}
    /\ jobs' = [jobs EXCEPT ![j].status = "failed"]
    /\ work' = [work EXCEPT ![j].pc = "ended"]
    /\ UNCHANGED <<data, exists, files, mailed, exportNow, served>>

\* The process stops: nothing takes up the jobs it was working on.
ExportCrash ==
    /\ \E j \in Jobs : work[j].pc \notin {"ended", "lost"}
    /\ work' = [j \in Jobs |-> IF work[j].pc = "ended" THEN work[j] ELSE [work[j] EXCEPT !.pc = "lost"]]
    /\ UNCHANGED <<data, exists, jobs, files, mailed, exportNow, served>>

-----------------------------------------------------------------------------
\* The row with the token
JobOf(token) == token

MayDownload(j) == exportNow <= jobs[j].expires /\ jobs[j].status = "completed"

\* DownloadExport, GetDecryptedExport
DownloadExport(token) ==
    /\ MayDownload(JobOf(token))
    /\ served' = [job |-> token, contents |-> files[jobs[JobOf(token)].file], at |-> exportNow]
    /\ UNCHANGED <<data, exists, jobs, work, files, mailed, exportNow>>

\* The rest of the program changes the user's records and closes the account.
Change(t) == data[t] < MaxVersion /\ data' = [data EXCEPT ![t] = data[t] + 1]
             /\ UNCHANGED <<exists, jobs, work, files, mailed, exportNow, served>>

CloseAccount == exists /\ exists' = FALSE /\ UNCHANGED <<data, jobs, work, files, mailed, exportNow, served>>

ExportTick == exportNow < ExportMaxTime /\ exportNow' = exportNow + 1 /\ UNCHANGED <<data, exists, jobs, work, files, mailed, served>>

ExportNext ==
    \/ StartExportJob
    \/ \E j \in Jobs : \/ Begin(j) \/ Gather(j) \/ WriteFile(j) \/ Complete(j) \/ failJob(j)
                       \/ \E linked \in BOOLEAN : Mail(j, linked)
                       \/ DownloadExport(j)
    \/ \E t \in DOMAIN data : Change(t)
    \/ ExportCrash \/ CloseAccount \/ ExportTick

ExportSpec == ExportInit /\ [][ExportNext]_exportVars

-----------------------------------------------------------------------------
\* A download is complete and true: it has every table, none older than the
\* request of that very job, it is served before the link lapses, and the
\* user is only mailed links of jobs whose file is there, whatever failed,
\* whatever crashed and whichever of several jobs finished first.
ExportsAreFaithful ==
    /\ served # None =>
        /\ Len(served.contents) = Len(Tables)
        /\ \A k \in DOMAIN Tables : served.contents[k] >= jobs[served.job].requested[Tables[k]]
        /\ served.at <= jobs[served.job].expires
    /\ \A j \in mailed : jobs[j].status = "completed" /\ files[jobs[j].file] # None
    /\ \A j \in Jobs : jobs[j].status = "completed" => files[jobs[j].file] # None
=============================================================================
