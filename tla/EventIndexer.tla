---------------------------- MODULE EventIndexer ----------------------------
(***************************************************************************)
(* The blockchain event indexer, backend/services/event_indexer.go: one    *)
(* poller goroutine that fetches contract events from the RPC node, stores *)
(* them and puts them on a bounded channel, and a pool of workers that     *)
(* run the registered handlers with retries.                               *)
(*                                                                         *)
(* Events are numbered in the order of the chain; an event is its number.  *)
(* Rows and the checkpoint live in the database and survive a crash; the   *)
(* channel, the poller and the workers do not.  A poll whose RPC request   *)
(* fails changes nothing and is left out.  main starts one indexer in each *)
(* process and nothing starts it again after Stop.                         *)
(***************************************************************************)
EXTENDS Integers, Sequences, FiniteSets, SequencesExt

CONSTANTS
    Chain,          \* the ledger of every event, in the order of the chain
    Handlers,       \* events for which RegisterHandler has registered a handler
    Workers,        \* worker goroutines
    None,           \* no event
    Limit,          \* events in one RPC answer (100)
    QueueSize,      \* capacity of the channel (1000)
    MaxRetries,     \* maxRetries (5)
    MaxLedger,      \* bound: the last ledger to close
    MaxFaults       \* bound: crashes and failing database writes

Events == DOMAIN Chain

ASSUME IndexerAssumption ==
    /\ Chain \in Seq(Nat \ {0})
    /\ \A e, f \in Events : e < f => Chain[e] <= Chain[f]
    /\ Handlers \subseteq Events /\ None \notin Events
    /\ Limit \in Nat \ {0} /\ QueueSize \in Nat \ {0} /\ MaxRetries \in Nat
    /\ MaxLedger \in Nat /\ MaxFaults \in Nat

VARIABLES
    tip,            \* the latest ledger of the network
    rows,           \* IndexedEvent.Status; "absent" before the row is created
    checkpoint,     \* EventCheckpoint.LastLedger
    phase,          \* of the process: running, context cancelled, channel closed, down
    poller,         \* the poller and its local variables
    queue,          \* eventQueue
    workers,        \* the event each worker holds, its tries and their outcome
    handled,        \* history: times the handler of an event has succeeded
    orphans,        \* history: pending events nobody holds any more
    cut,            \* history: events an RPC answer was too short for
    dropped,        \* history: events whose row could not be created
    faults          \* crashes and failing database writes so far

dbVars == <<rows, checkpoint>>
memVars == <<phase, poller, queue, workers>>
histVars == <<handled, orphans, cut, dropped, faults>>
vars == <<tip, dbVars, memVars, histVars>>

Idle == [ev |-> None, tries |-> 0, outcome |-> "run"]
PollerAt(pc) == [pc |-> pc, page |-> <<>>, from |-> 0, last |-> 0, latest |-> 0]

Fault == faults < MaxFaults /\ faults' = faults + 1

Larger(x, y) == IF x > y THEN x ELSE y

-----------------------------------------------------------------------------
\* The RPC node, as fetchEvents uses it: the first Limit events at or after the
\* start ledger, and the latest ledger.  Visible events have consecutive numbers.
Visible(from) == {e \in Events : Chain[e] >= from /\ Chain[e] <= tip}

FetchEvents(from) ==
    LET seen == Visible(from)
        n == IF Cardinality(seen) > Limit THEN Limit ELSE Cardinality(seen)
    IN  [k \in 1..n |-> Min(seen) + k - 1]

Poll ==
    LET page == FetchEvents(checkpoint)
    IN /\ poller.pc = "wait" /\ phase = "running"
       /\ poller' = [pc |-> "save", page |-> page, from |-> checkpoint,
                     last |-> checkpoint, latest |-> tip]
       /\ cut' = IF Len(page) = Limit THEN cut \cup (Visible(checkpoint) \ ToSet(page)) ELSE cut
       /\ UNCHANGED <<tip, dbVars, phase, queue, workers, handled, orphans, dropped, faults>>

IsDuplicate(e) == rows[e] # "absent"

NextOfPage == poller' = [poller EXCEPT !.page = Tail(@)]

SkipDuplicate ==
    /\ poller.pc = "save" /\ poller.page # <<>>
    /\ IsDuplicate(Head(poller.page))
    /\ NextOfPage
    /\ UNCHANGED <<tip, dbVars, phase, queue, workers, histVars>>

\* Create fails: the event is logged and passed over.
CreateFails ==
    /\ poller.pc = "save" /\ poller.page # <<>>
    /\ ~IsDuplicate(Head(poller.page))
    /\ NextOfPage
    /\ dropped' = dropped \cup {Head(poller.page)}
    /\ Fault
    /\ UNCHANGED <<tip, dbVars, phase, queue, workers, handled, orphans, cut>>

Create ==
    /\ poller.pc = "save" /\ poller.page # <<>>
    /\ ~IsDuplicate(Head(poller.page))
    /\ rows' = [rows EXCEPT ![Head(poller.page)] = "pending"]
    /\ poller' = [poller EXCEPT !.pc = "enqueue"]
    /\ UNCHANGED <<tip, checkpoint, phase, queue, workers, histVars>>

QueueHasRoom == Len(queue) < QueueSize

\* The poller waits here while the channel is full.
Enqueue ==
    LET e == Head(poller.page)
    IN /\ poller.pc = "enqueue" /\ phase # "closed"
       /\ QueueHasRoom
       /\ queue' = Append(queue, e)
       /\ poller' = [poller EXCEPT !.pc = "save", !.page = Tail(@),
                                   !.last = Larger(@, Chain[e])]
       /\ UNCHANGED <<tip, dbVars, phase, workers, histVars>>

TargetLedger_Now == Larger(poller.last, tip)

TargetLedger == Larger(poller.last, poller.latest)

\* The page is done; an update that fails is logged and forgotten.
UpdateCheckpoint(ok) ==
    /\ poller.pc = "save" /\ poller.page = <<>>
    /\ checkpoint' = IF TargetLedger > poller.from /\ ok THEN TargetLedger ELSE checkpoint
    /\ poller' = PollerAt("wait")
    /\ IF ok THEN UNCHANGED faults ELSE TargetLedger > poller.from /\ Fault
    /\ UNCHANGED <<tip, rows, phase, queue, workers, handled, orphans, cut, dropped>>

PollerReturns ==
    /\ phase \in {"cancelled", "closed"} /\ poller.pc \in {"wait", "enqueue"}
    /\ orphans' = IF poller.pc = "enqueue" THEN orphans \cup {Head(poller.page)} ELSE orphans
    /\ poller' = PollerAt("off")
    /\ UNCHANGED <<tip, dbVars, phase, queue, workers, handled, cut, dropped, faults>>

-----------------------------------------------------------------------------
\* A worker receives an event; without a handler it is done with at once.
Receive(w) ==
    /\ workers[w].ev = None /\ queue # <<>>
    /\ workers' = [workers EXCEPT ![w] =
          [ev |-> Head(queue), tries |-> 0,
           outcome |-> IF Head(queue) \in Handlers THEN "run" ELSE "ok"]]
    /\ queue' = Tail(queue)
    /\ UNCHANGED <<tip, dbVars, phase, poller, histVars>>

HandlerSucceeds(w) ==
    /\ workers[w].ev # None /\ workers[w].outcome = "run"
    /\ handled' = [handled EXCEPT ![workers[w].ev] = @ + 1]
    /\ workers' = [workers EXCEPT ![w].outcome = "ok"]
    /\ UNCHANGED <<tip, dbVars, phase, poller, queue, orphans, cut, dropped, faults>>

RetriesLeft(w) == workers[w].tries < MaxRetries

HandlerFails_Forever(w) ==
    /\ workers[w].ev # None /\ workers[w].outcome = "run"
    /\ workers' = [workers EXCEPT ![w].tries = (@ + 1) % (MaxRetries + 1)]
    /\ UNCHANGED <<tip, dbVars, phase, poller, queue, histVars>>

\* The worker tries again, after a pause, or gives up.
HandlerFails(w) ==
    /\ workers[w].ev # None /\ workers[w].outcome = "run"
    /\ workers' = IF RetriesLeft(w) THEN [workers EXCEPT ![w].tries = @ + 1]
                                   ELSE [workers EXCEPT ![w].outcome = "err"]
    /\ UNCHANGED <<tip, dbVars, phase, poller, queue, histVars>>

StatusFor(outcome) == IF outcome = "ok" THEN "processed" ELSE "failed"

\* markProcessed and markFailed; a failing update leaves the row pending.
Mark(w, ok) ==
    LET e == workers[w].ev
    IN /\ e # None /\ workers[w].outcome # "run"
       /\ IF ok THEN /\ rows' = [rows EXCEPT ![e] = StatusFor(workers[w].outcome)]
                     /\ UNCHANGED <<orphans, faults>>
                ELSE /\ orphans' = orphans \cup {e}
                     /\ Fault
                     /\ UNCHANGED rows
       /\ workers' = [workers EXCEPT ![w] = Idle]
       /\ UNCHANGED <<tip, checkpoint, phase, poller, queue, handled, cut, dropped>>

-----------------------------------------------------------------------------
CloseLedger ==
    /\ tip < MaxLedger
    /\ tip' = tip + 1
    /\ UNCHANGED <<dbVars, memVars, histVars>>

\* Stop cancels the context and then closes the channel.
StopCancels ==
    /\ phase = "running"
    /\ phase' = "cancelled"
    /\ UNCHANGED <<tip, dbVars, poller, queue, workers, histVars>>

StopCloses ==
    /\ phase = "cancelled"
    /\ phase' = "closed"
    /\ UNCHANGED <<tip, dbVars, poller, queue, workers, histVars>>

\* What is in memory is gone; pending rows have nobody left to process them.
ProcessDies ==
    /\ phase' = "down"
    /\ poller' = PollerAt("off") /\ queue' = <<>> /\ workers' = [w \in Workers |-> Idle]
    /\ orphans' = orphans \cup {e \in Events : rows[e] = "pending"}
    /\ UNCHANGED <<tip, dbVars, handled, cut, dropped>>

\* select may choose the send although the channel is closed, and panics.
SendOnClosedChannel ==
    /\ phase = "closed" /\ poller.pc = "enqueue"
    /\ ProcessDies
    /\ UNCHANGED faults

Crash ==
    /\ phase # "down"
    /\ Fault
    /\ ProcessDies

\* A new process: NewEventIndexer and Start.
Start ==
    /\ phase = "down"
    /\ phase' = "running" /\ poller' = PollerAt("wait")
    /\ UNCHANGED <<tip, dbVars, queue, workers, histVars>>

PollerStep ==
    \/ SkipDuplicate \/ CreateFails \/ Create \/ Enqueue \/ PollerReturns
    \/ \E ok \in BOOLEAN : UpdateCheckpoint(ok)

WorkerStep(w) ==
    \/ Receive(w) \/ HandlerSucceeds(w) \/ HandlerFails(w)
    \/ \E ok \in BOOLEAN : Mark(w, ok)

Init ==
    /\ tip = 0 /\ checkpoint = 1
    /\ rows = [e \in Events |-> "absent"]
    /\ phase = "running" /\ poller = PollerAt("wait") /\ queue = <<>>
    /\ workers = [w \in Workers |-> Idle]
    /\ handled = [e \in Events |-> 0]
    /\ orphans = {} /\ cut = {} /\ dropped = {} /\ faults = 0

Next ==
    \/ CloseLedger \/ Poll \/ PollerStep
    \/ \E w \in Workers : WorkerStep(w)
    \/ StopCancels \/ StopCloses \/ SendOnClosedChannel \/ Crash \/ Start

Spec == Init /\ [][Next]_vars

\* Goroutines that can run do, and the ticker polls again and again; that the
\* RPC node answers some of the requests is assumed of it.  Nothing makes the
\* process stop, crash or start.
Fairness ==
    /\ SF_vars(Poll) /\ WF_vars(PollerStep)
    /\ WF_vars(\E w \in Workers : WorkerStep(w))

FairSpec == Spec /\ Fairness

-----------------------------------------------------------------------------
TypeOK ==
    /\ tip \in 0..MaxLedger /\ checkpoint \in Nat /\ faults \in 0..MaxFaults
    /\ rows \in [Events -> {"absent", "pending", "processed", "failed"}]
    /\ phase \in {"running", "cancelled", "closed", "down"}
    /\ poller \in [pc : {"off", "wait", "save", "enqueue"}, page : Seq(Events),
                   from : Nat, last : Nat, latest : Nat]
    /\ queue \in Seq(Events)
    /\ workers \in [Workers -> [ev : Events \cup {None}, tries : 0..MaxRetries,
                                outcome : {"run", "ok", "err"}]]
    /\ handled \in [Events -> Nat]
    /\ orphans \subseteq Events /\ cut \subseteq Events /\ dropped \subseteq Events

\* The poller starts again at the ledger of its checkpoint, so it meets events
\* it has stored; whatever the polls, faults and restarts, a handler succeeds
\* at most once for an event.
HandledAtMostOnce == \A e \in Events : handled[e] <= 1

\* A row says what became of its event: processed only after its handler has
\* succeeded (if it has one), failed only if it never did.
StatusTellsOutcome == \A e \in Handlers :
    /\ rows[e] = "processed" => handled[e] = 1
    /\ rows[e] \in {"absent", "failed"} => handled[e] = 0

Holders(e) ==
    Cardinality({i \in DOMAIN queue : queue[i] = e}) + Cardinality({w \in Workers : workers[w].ev = e})
        + (IF poller.pc = "enqueue" /\ Head(poller.page) = e THEN 1 ELSE 0)

\* A pending event is in one place, the poller's hand, the channel or one
\* worker's, or it is orphaned; a settled one is nowhere.
PendingIsHeldOnce == \A e \in Events :
    Holders(e) = IF rows[e] = "pending" /\ e \notin orphans THEN 1 ELSE 0

\* The checkpoint passes an event that is not stored only if an answer was too
\* short for it or its insert failed: ledgers closed while a page was being
\* stored are not passed over.
GapsAreExplained == \A e \in Events :
    Chain[e] < checkpoint /\ rows[e] = "absent" => e \in cut \cup dropped

\* In the end every stored event is processed, marked failed or orphaned: the
\* retries are finite, and no worker waits for ever.
StoredEventsSettle == <>[](\A e \in Events : rows[e] = "pending" => e \in orphans)

\* The poller catches up again and again: every event of a closed ledger is
\* stored, was cut off or dropped, or the process has stopped.  A full channel
\* holds the poller up only for a while.
EventsAreStored == []<>(\A e \in Events :
    Chain[e] <= tip => rows[e] # "absent" \/ e \in cut \cup dropped \/ phase # "running")
=============================================================================
