---------------------------- MODULE CacheManager ----------------------------
(***************************************************************************)
(* The two-level cache, backend/utils/cache_manager.go, and the HTTP       *)
(* middleware that fills and invalidates it, backend/middleware/cache.go:  *)
(* several server instances, each with its in-process L1, share Redis as   *)
(* L2 and as the home of the regeneration lock and of the tag index.       *)
(*                                                                         *)
(* One key is modelled.  Its value is the version of the data it was       *)
(* computed from.  Every call to Redis, every access to an L1 and every    *)
(* use of the database by a request is a step of its own; a Get inside the *)
(* waiting loop is one step.  Entries and the lock may expire at any time. *)
(* Compression and metrics are left out.                                   *)
(***************************************************************************)
EXTENDS Integers, FiniteSets

CONSTANTS
    Inst,           \* server instances
    Reqs,           \* requests
    InstOf,         \* the instance that serves a request
    Workloads,      \* what the requests do: load, page, tag or pattern each
    None,
    MaxFaults       \* bound: failing Redis calls and loader panics

VARIABLES
    db,             \* version of the data in the database
    l1,             \* CacheManager.l1 of each instance
    l2,             \* the value of the key in Redis
    lock,           \* the token under "lock:" and the key
    tagged,         \* whether the tag's set holds the key
    flight,         \* singleflightGroup.m: the request whose call is under way
    req,            \* the requests and their local variables
    torn,           \* history: a lock expired between the two calls that release it
    staleSet,       \* history: a version was stored that was no longer current
    lateTag,        \* history: a version was tagged that was no longer current
    poisoned,       \* history: instances with a flight that never ends
    faults

storeVars == <<l1, l2, tagged>>
lockVars == <<lock, flight>>
histVars == <<torn, staleSet, lateTag, poisoned, faults>>
vars == <<db, storeVars, lockVars, req, histVars>>

NoEntry == [val |-> None, live |-> FALSE]
Fresh(v) == [val |-> v, live |-> TRUE]

At(r, pc) == req[r].pc = pc
Me(r) == InstOf[r]
Goto(r, pc) == req' = [req EXCEPT ![r].pc = pc]

\* The request is answered with v; its other variables are gone.
Return(r, v) == req' = [req EXCEPT ![r] = [req[r] EXCEPT !.pc = "done", !.val = v, !.under = "no",
                                                        !.leader = None, !.stale = FALSE,
                                                        !.late = FALSE]]

\* The function of a flight has returned v.
Land(r, v) == req' = [req EXCEPT ![r].pc = "unmap", ![r].val = v]

RedisFails == faults < MaxFaults /\ faults' = faults + 1

\* Storing a version that a write has replaced meanwhile.
NoteStale(v) == staleSet' = (staleSet \/ v # db)

-----------------------------------------------------------------------------
Start(r) ==
    /\ At(r, "new")
    /\ req' = [req EXCEPT ![r].pc = IF req[r].op \in {"load", "page"} THEN "get1" ELSE "commit",
                          ![r].stale = l1[Me(r)].val # None /\ ~l1[Me(r)].live]
    /\ UNCHANGED <<db, storeVars, lockVars, histVars>>

\* Get: a live L1 entry is returned, an expired one is deleted.
GetL1(r) ==
    LET e == l1[Me(r)]
    IN /\ At(r, "get1")
       /\ IF e.live THEN Return(r, e.val) ELSE Goto(r, "get2")
       /\ l1' = IF e.live THEN l1 ELSE [l1 EXCEPT ![Me(r)] = NoEntry]
       /\ UNCHANGED <<db, l2, tagged, lockVars, histVars>>

OnMiss(r) == IF req[r].op = "load" THEN "do" ELSE "handler"

\* A Redis error is a miss too.
GetL2(r) ==
    /\ At(r, "get2")
    /\ \/ /\ l2 # None
          /\ req' = [req EXCEPT ![r].pc = "fill", ![r].val = l2]
          /\ UNCHANGED faults
       \/ l2 = None /\ Goto(r, OnMiss(r)) /\ UNCHANGED faults
       \/ RedisFails /\ Goto(r, OnMiss(r))
    /\ UNCHANGED <<db, storeVars, lockVars, torn, staleSet, lateTag, poisoned>>

Fill(r) ==
    /\ At(r, "fill")
    /\ l1' = [l1 EXCEPT ![Me(r)] = Fresh(req[r].val)]
    /\ NoteStale(req[r].val)
    /\ Goto(r, "done")
    /\ UNCHANGED <<db, l2, tagged, lockVars, torn, lateTag, poisoned, faults>>

-----------------------------------------------------------------------------
\* singleflightGroup.Do: lead the call or wait for the one under way.
NoFlight(r) == flight[Me(r)] = None

Lead(r) ==
    /\ At(r, "do") /\ NoFlight(r)
    /\ flight' = [flight EXCEPT ![Me(r)] = r]
    /\ Goto(r, "setnx")
    /\ UNCHANGED <<db, storeVars, lock, histVars>>

Join(r) ==
    /\ At(r, "do") /\ ~NoFlight(r)
    /\ req' = [req EXCEPT ![r].pc = "join", ![r].leader = flight[Me(r)]]
    /\ UNCHANGED <<db, storeVars, lockVars, histVars>>

Share(r) ==
    /\ At(r, "join") /\ req[req[r].leader].pc \in {"unmap", "done"}
    /\ Return(r, req[req[r].leader].val)
    /\ UNCHANGED <<db, storeVars, lockVars, histVars>>

\* The entry of the map is deleted after the waiters were woken.
Unmap(r) ==
    /\ At(r, "unmap")
    /\ flight' = [flight EXCEPT ![Me(r)] = None]
    /\ Return(r, req[r].val)
    /\ UNCHANGED <<db, storeVars, lock, histVars>>

LockFree == lock = None

\* SETNX; if Redis fails the value is loaded without the lock.
SetNX(r) ==
    /\ At(r, "setnx")
    /\ \/ /\ LockFree
          /\ lock' = r
          /\ req' = [req EXCEPT ![r].pc = "load", ![r].under = "held"]
          /\ UNCHANGED faults
       \/ ~LockFree /\ Goto(r, "poll") /\ UNCHANGED <<lock, faults>>
       \/ RedisFails /\ Goto(r, "load") /\ UNCHANGED lock
    /\ UNCHANGED <<db, storeVars, flight, torn, staleSet, lateTag, poisoned>>

AfterLoad(r) == IF req[r].under # "no" THEN "relget" ELSE "unmap"

Load(r) ==
    /\ At(r, "load")
    /\ req' = [req EXCEPT ![r].pc = "set1", ![r].val = db]
    /\ UNCHANGED <<db, storeVars, lockVars, histVars>>

LoaderFails(r) ==
    /\ At(r, "load")
    /\ Goto(r, AfterLoad(r))
    /\ UNCHANGED <<db, storeVars, lockVars, histVars>>

\* The panic leaves Do before wg.Done and delete: the deferred release of the
\* lock runs, but the flight stays in the map.
LoaderPanics(r) ==
    /\ At(r, "load")
    /\ RedisFails
    /\ lock' = IF lock = r THEN None ELSE lock
    /\ Goto(r, "panicked")
    /\ poisoned' = poisoned \cup {Me(r)}
    /\ UNCHANGED <<db, storeVars, flight, torn, staleSet, lateTag>>

\* Set writes L1, then Redis; GetOrLoad ignores its error.
SetL1(r) ==
    /\ At(r, "set1")
    /\ l1' = [l1 EXCEPT ![Me(r)] = Fresh(req[r].val)]
    /\ NoteStale(req[r].val)
    /\ Goto(r, "set2")
    /\ UNCHANGED <<db, l2, tagged, lockVars, torn, lateTag, poisoned, faults>>

SetL2(r) ==
    /\ At(r, "set2")
    /\ \/ l2' = req[r].val /\ NoteStale(req[r].val) /\ UNCHANGED faults
          /\ Goto(r, IF req[r].op = "page" THEN "sadd" ELSE AfterLoad(r))
       \/ RedisFails /\ UNCHANGED <<l2, staleSet>>
          /\ IF req[r].op = "page" THEN Return(r, None) ELSE Goto(r, AfterLoad(r))
    /\ UNCHANGED <<db, l1, tagged, lockVars, torn, lateTag, poisoned>>

\* releaseLock: GET compares the token, DEL deletes whatever is there then.
OwnToken_Any(r) == lock # None

OwnToken(r) == lock = r

ReleaseGet(r) ==
    /\ At(r, "relget")
    /\ \/ Goto(r, IF OwnToken(r) THEN "reldel" ELSE "unmap") /\ UNCHANGED faults
       \/ RedisFails /\ Goto(r, "unmap")
    /\ UNCHANGED <<db, storeVars, lockVars, torn, staleSet, lateTag, poisoned>>

ReleaseDel(r) ==
    /\ At(r, "reldel")
    /\ \/ lock' = None /\ UNCHANGED faults
       \/ RedisFails /\ UNCHANGED lock
    /\ Goto(r, "unmap")
    /\ UNCHANGED <<db, storeVars, flight, torn, staleSet, lateTag, poisoned>>

\* The loser of the race looks again and again, deleting an expired entry.
PollHit(r) ==
    LET e == l1[Me(r)]
    IN /\ At(r, "poll") /\ (e.live \/ l2 # None)
       /\ Land(r, IF e.live THEN e.val ELSE l2)
       /\ l1' = IF e.live THEN l1 ELSE [l1 EXCEPT ![Me(r)] = Fresh(l2)]
       /\ IF e.live THEN UNCHANGED staleSet ELSE NoteStale(l2)
       /\ UNCHANGED <<db, l2, tagged, lockVars, torn, lateTag, poisoned, faults>>

PollMiss(r) ==
    /\ At(r, "poll") /\ ~l1[Me(r)].live /\ l2 = None
    /\ l1[Me(r)] # NoEntry
    /\ l1' = [l1 EXCEPT ![Me(r)] = NoEntry]
    /\ UNCHANGED <<db, l2, tagged, lockVars, req, histVars>>

TimedOut_Retries(r) ==
    /\ At(r, "poll")
    /\ Goto(r, "setnx")
    /\ UNCHANGED <<db, storeVars, lockVars, histVars>>

\* The deadline has passed: whatever L1 holds, expired or not, or a miss.
TimedOut(r) ==
    /\ At(r, "poll")
    /\ req' = [req EXCEPT ![r].pc = "unmap", ![r].val = l1[Me(r)].val, ![r].late = TRUE]
    /\ UNCHANGED <<db, storeVars, lockVars, histVars>>

-----------------------------------------------------------------------------
\* HTTPCache runs the handler, which reads the database, and caches its answer
\* unless it is an error; SetWithTags adds the key to the tag's set last.
Handler(r) ==
    /\ At(r, "handler")
    /\ \/ req' = [req EXCEPT ![r].pc = "set1", ![r].val = db]
       \/ Goto(r, "done")
    /\ UNCHANGED <<db, storeVars, lockVars, histVars>>

SAdd(r) ==
    /\ At(r, "sadd")
    /\ \/ tagged' = TRUE /\ UNCHANGED faults
       \/ RedisFails /\ UNCHANGED tagged
    /\ lateTag' = (lateTag \/ req[r].val # db)
    /\ Return(r, None)
    /\ UNCHANGED <<db, l1, l2, lockVars, torn, staleSet, poisoned>>

\* A mutating request commits; the middleware invalidates afterwards.
Commit(r) ==
    /\ At(r, "commit")
    /\ db' = db + 1
    /\ Goto(r, IF req[r].op = "tag" THEN "smembers" ELSE "del1")
    /\ UNCHANGED <<storeVars, lockVars, histVars>>

SMembers(r) ==
    /\ At(r, "smembers")
    /\ \/ Goto(r, IF tagged THEN "del1" ELSE "deltag") /\ UNCHANGED faults
       \/ RedisFails /\ Goto(r, "done")
    /\ UNCHANGED <<db, storeVars, lockVars, torn, staleSet, lateTag, poisoned>>

\* Delete, and Invalidate for a pattern that the key matches: L1, then Redis.
DeleteL1(r) == l1' = [l1 EXCEPT ![Me(r)] = NoEntry]

ClearL1(r) ==
    /\ At(r, "del1")
    /\ DeleteL1(r)
    /\ Goto(r, "del2")
    /\ UNCHANGED <<db, l2, tagged, lockVars, histVars>>

ClearL2(r) ==
    /\ At(r, "del2")
    /\ \/ l2' = None /\ Goto(r, IF req[r].op = "tag" THEN "deltag" ELSE "done") /\ UNCHANGED faults
       \/ RedisFails /\ Goto(r, "done") /\ UNCHANGED l2
    /\ UNCHANGED <<db, l1, tagged, lockVars, torn, staleSet, lateTag, poisoned>>

DelTag(r) ==
    /\ At(r, "deltag")
    /\ \/ tagged' = FALSE /\ UNCHANGED faults
       \/ RedisFails /\ UNCHANGED tagged
    /\ Goto(r, "done")
    /\ UNCHANGED <<db, l1, l2, lockVars, torn, staleSet, lateTag, poisoned>>

-----------------------------------------------------------------------------
ExpireL1(i) ==
    /\ l1[i].live
    /\ l1' = [l1 EXCEPT ![i].live = FALSE]
    /\ UNCHANGED <<db, l2, tagged, lockVars, req, histVars>>

ExpireL2 ==
    /\ l2 # None /\ l2' = None
    /\ UNCHANGED <<db, l1, tagged, lockVars, req, histVars>>

ExpireLock ==
    /\ lock # None /\ lock' = None
    /\ torn' = (torn \/ At(lock, "reldel"))
    /\ req' = [req EXCEPT ![lock].under = IF @ = "held" THEN "expired" ELSE @]
    /\ UNCHANGED <<db, storeVars, flight, staleSet, lateTag, poisoned, faults>>

ReadStep(r) ==
    \/ GetL1(r) \/ GetL2(r) \/ Fill(r) \/ Lead(r) \/ Join(r) \/ Share(r) \/ Unmap(r)
    \/ SetNX(r) \/ Load(r) \/ LoaderFails(r) \/ LoaderPanics(r) \/ SetL1(r) \/ SetL2(r)
    \/ ReleaseGet(r) \/ ReleaseDel(r) \/ PollHit(r) \/ TimedOut(r) \/ Handler(r) \/ SAdd(r)

WriteStep(r) ==
    Commit(r) \/ SMembers(r) \/ ClearL1(r) \/ ClearL2(r) \/ DelTag(r)

Init ==
    /\ db = 0 /\ l1 = [i \in Inst |-> NoEntry] /\ l2 = None /\ tagged = FALSE
    /\ lock = None /\ flight = [i \in Inst |-> None]
    /\ \E ops \in Workloads :
          req = [r \in Reqs |-> [pc |-> "new", op |-> ops[r], val |-> None, under |-> "no",
                                 leader |-> None, stale |-> FALSE, late |-> FALSE]]
    /\ torn = FALSE /\ staleSet = FALSE /\ lateTag = FALSE /\ poisoned = {} /\ faults = 0

Next ==
    \/ \E r \in Reqs : Start(r) \/ ReadStep(r) \/ PollMiss(r) \/ WriteStep(r)
    \/ \E i \in Inst : ExpireL1(i)
    \/ ExpireL2 \/ ExpireLock

Spec == Init /\ [][Next]_vars

\* Started requests run on: the calls they make return, and the deadline of the
\* waiting loop passes.
Fairness == WF_vars(\E r \in Reqs : ReadStep(r) \/ WriteStep(r))

FairSpec == Spec /\ Fairness

-----------------------------------------------------------------------------
Versions == 0..Cardinality(Reqs)

TypeOK ==
    /\ db \in Versions
    /\ l1 \in [Inst -> [val : Versions, live : BOOLEAN] \cup {NoEntry}]
    /\ l2 \in Versions \cup {None}
    /\ lock \in Reqs \cup {None} /\ flight \in [Inst -> Reqs \cup {None}]
    /\ tagged \in BOOLEAN /\ torn \in BOOLEAN /\ staleSet \in BOOLEAN /\ lateTag \in BOOLEAN
    /\ poisoned \subseteq Inst /\ faults \in 0..MaxFaults
    /\ \A r \in Reqs : req[r].val \in Versions \cup {None}

InFlight(r) == req[r].op = "load"
               /\ req[r].pc \in {"setnx", "poll", "load", "set1", "set2", "relget", "reldel", "unmap"}

\* Singleflight: the requests of an instance share one regeneration; the map
\* entry is the request that does it, also while a waiter arrives late.
OneFlightPerInstance == \A r, s \in Reqs :
    InFlight(r) /\ InFlight(s) /\ Me(r) = Me(s) => r = s

Holds(r) == req[r].under = "held" /\ req[r].pc \in {"load", "set1", "set2", "relget"}

\* The lock: of two requests that regenerate at the same time one has outlived
\* its lock, or a Redis call failed, or a loader panicked.  A request whose lock
\* expired does not release its successor's, unless it did between the GET and
\* the DEL of the release.
LockExcludes == faults = 0 /\ ~torn => \A r, s \in Reqs : Holds(r) /\ Holds(s) => r = s

Quiet == \A r \in Reqs : req[r].pc \in {"new", "done"}

\* Instances that no invalidation reaches keep what they have; this is about
\* the writers' own.
Writers(kind) == {r \in Reqs : req[r].op = kind}

Current(kind) == Quiet /\ faults = 0 /\ ~staleSet =>
    /\ l2 \in {None, db}
    /\ \A i \in Inst : (\A r \in Writers(kind) : Me(r) = i) => l1[i].val \in {None, db}

\* Invalidation by pattern: once the requests are through, Redis and the
\* instance that served the writes hold nothing older than the last write,
\* unless a reader stored what it had read before the write.
PatternInvalidationClears == Writers("tag") = {} => Current("pattern")

\* Every request ends: waiters are woken, the lock is waited for until the
\* deadline only.  A loader that panicked leaves its instance's waiters behind.
RequestsEnd == <>[](\A r \in Reqs : req[r].pc \in {"new", "done"} \/ Me(r) \in poisoned)

\* InvalidateTag "deletes every key previously associated with tag via
\* SetWithTags": an entry that was associated before the last write began does
\* not outlive its invalidation.
TagInvalidationClears ==
    Writers("pattern") = {} /\ Writers("load") = {} /\ ~lateTag => Current("tag")

\* Waiters that time out "fall back to a stale L1 entry if one exists": one
\* that found an expired entry in L1 when it began does not end with a miss.
StaleEntryServed == \A r \in Reqs :
    req[r].late /\ req[r].stale => req[r].val # None
=============================================================================
