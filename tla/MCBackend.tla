----------------------------- MODULE MCBackend -----------------------------
(***************************************************************************)
(* Small instances of the event indexer and of the two-level cache for     *)
(* TLC.  They share no state, so each is explored while the other is in    *)
(* its initial state.                                                      *)
(***************************************************************************)
EXTENDS EventIndexer, TLC

CONSTANTS
    Inst, Reqs, InstOf, Workloads,
    i1, i2, r1, r2, r3

ASSUME CacheAssumption ==
    /\ IsFiniteSet(Reqs) /\ None \notin Reqs
    /\ InstOf \in [Reqs -> Inst]
    /\ Workloads \subseteq [Reqs -> {"load", "page", "tag", "pattern"}]

VARIABLES db, l1, l2, lock, tagged, flight, req, torn, staleSet, lateTag,
          poisoned, cFaults

\* Two requests are served by one instance and one by another.
MCInstOf == r1 :> i1 @@ r2 :> i1 @@ r3 :> i2

MCWorkloads == {r1 :> "load" @@ r2 :> "load" @@ r3 :> "load",
                r1 :> "load" @@ r2 :> "pattern" @@ r3 :> "page",
                r1 :> "tag" @@ r2 :> "page" @@ r3 :> "tag"}

C == INSTANCE CacheManager WITH faults <- cFaults

cacheVars == <<db, l1, l2, lock, tagged, flight, req, torn, staleSet, lateTag,
               poisoned, cFaults>>
allVars == <<vars, cacheVars>>

\* A ledger with one event and one with two.
MCChain == <<1, 2, 2>>

IndexerIdle == tip = 0 /\ phase = "running" /\ poller = PollerAt("wait") /\ faults = 0
CacheIdle == \A r \in Reqs : req[r].pc = "new" /\ req[r].op = "load"

BackendInit == Init /\ C!Init

BackendNext ==
    \/ CacheIdle /\ UNCHANGED cacheVars /\ Next
    \/ IndexerIdle /\ UNCHANGED vars /\ C!Next

BackendFairness ==
    /\ SF_allVars(CacheIdle /\ UNCHANGED cacheVars /\ Poll)
    /\ WF_allVars(CacheIdle /\ UNCHANGED cacheVars /\ PollerStep)
    /\ WF_allVars(CacheIdle /\ UNCHANGED cacheVars /\ \E w \in Workers : WorkerStep(w))
    /\ WF_allVars(IndexerIdle /\ UNCHANGED vars /\ \E r \in Reqs : C!ReadStep(r) \/ C!WriteStep(r))

BackendSpec == BackendInit /\ [][BackendNext]_allVars /\ BackendFairness

-----------------------------------------------------------------------------
\* Every event is handled at most once, its status tells what came of it, it
\* is held once while it is pending, and only the known causes lose one.
EventsAreAccountedFor ==
    TypeOK /\ HandledAtMostOnce /\ StatusTellsOutcome /\ PendingIsHeldOnce /\ GapsAreExplained

\* One request of an instance loads a key, the lock excludes the instances,
\* and an invalidation by pattern leaves no older entry.
CacheIsSound ==
    C!TypeOK /\ C!OneFlightPerInstance /\ C!LockExcludes /\ C!PatternInvalidationClears

\* Every stored event settles, and the ledgers' events keep being stored.
EventsSettle == StoredEventsSettle /\ EventsAreStored

\* Every request of the cache is answered.
CacheRequestsEnd == C!RequestsEnd
=============================================================================
