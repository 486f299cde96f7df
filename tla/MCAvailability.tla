--------------------------- MODULE MCAvailability ---------------------------
(***************************************************************************)
(* Small instances, for TLC, of emergency control and of what keeps the    *)
(* backend answering: its search with and without Elasticsearch, its event *)
(* streams and its replicas. They share no state, and each is explored     *)
(* while the others are in their initial states.                           *)
(***************************************************************************)
EXTENDS EmergencyControl

CONSTANTS
    HubConns, HubTopics, HubSendCap, HubBroadcastCap, HubMaxSeq, RepReplicas, RepLagThreshold,
    RepMaxTime, RepMaxWrites, RepMaxReads,
    Components,        \* the components explored
    a1, a2, f, g       \* addresses, and functions of a contract

VARIABLES
    focus,             \* the component that moves
    findAssets, findClient, findAvailable, findLastProbe, findNow, findReqs, findAnalytics,
    findProbes, findEvents,
    findIndexAssets, findIndex, findIndexer, findHeld, findSince,
    hubSub, hubReader, hubWriter, hubExpiry, hubSubscribers, hubRegister, hubUnregister,
    hubBroadcast, hubSeq, hubDelivered, hubMissed, hubCrashed,
    repLog, repReplica, repNode, repNext, repNow, repMeasured, repRead

MCScopes == {AllScope, TradingScope, [kind |-> "Function", arg |-> f],
             [kind |-> "Function", arg |-> g]}

MCSignerLists == {<<a1, a2>>, <<a2, a2>>}

\* The pause calls and the recovery calls share only the admin and the clock:
\* each is explored while the other is in its initial state.
EmergencyNext ==
    \/ \E c \in Addr : Initialize(c)
    \/ \E secs \in CloseSecs : CloseLedger(secs)
    \/ PauseNext /\ signers = <<>> /\ whitelist = {} /\ nonce = 0
    \/ /\ RecoveryNext
       /\ \A a \in AssetIds : history[a] = <<>> /\ price[a] = 0

MCAssets == {[kind |-> "a", verified |-> TRUE, price |-> 2, deleted |-> FALSE]}

\* By kind; by price and verification; and one that no asset matches.
MCFilters ==
    {[kinds |-> {"a"}, verified |-> None, minPrice |-> None, maxPrice |-> None],
     [kinds |-> {}, verified |-> TRUE, minPrice |-> 1, maxPrice |-> None],
     [kinds |-> {}, verified |-> None, minPrice |-> 2, maxPrice |-> 1]}

MCReplicas == <<"r1", "r2">>

Find == INSTANCE SearchService WITH
    Reqs <- 1..2, Kinds <- {"a"}, NewAssets <- MCAssets, Filters <- MCFilters, Pages <- {1, 2},
    Limits <- {1}, probeInterval <- 2, RingSize <- 1, MaxAssets <- 2, MaxTime <- 2,
    MaxEvents <- 2, Contents <- {"x", "y"}, BatchSize <- 1,
    assets <- findAssets, client <- findClient, available <- findAvailable,
    lastProbe <- findLastProbe, now <- findNow, reqs <- findReqs, analytics <- findAnalytics,
    probes <- findProbes, events <- findEvents, indexAssets <- findIndexAssets,
    index <- findIndex, indexer <- findIndexer, held <- findHeld, since <- findSince

Hub == INSTANCE WebSocketHub WITH
    Conns <- HubConns, Topics <- HubTopics, SendCap <- HubSendCap,
    BroadcastCap <- HubBroadcastCap, MaxSeq <- HubMaxSeq,
    sub <- hubSub, reader <- hubReader, writer <- hubWriter, expiry <- hubExpiry,
    subscribers <- hubSubscribers, register <- hubRegister, unregister <- hubUnregister,
    broadcast <- hubBroadcast, seq <- hubSeq, delivered <- hubDelivered, missed <- hubMissed,
    crashed <- hubCrashed

Rep == INSTANCE ReplicaRouter WITH
    Replicas <- RepReplicas, lagThreshold <- RepLagThreshold, MaxTime <- RepMaxTime,
    MaxWrites <- RepMaxWrites, MaxReads <- RepMaxReads,
    log <- repLog, replica <- repReplica, node <- repNode, next <- repNext, now <- repNow,
    measured <- repMeasured, read <- repRead

findVars == <<findAssets, findClient, findAvailable, findLastProbe, findNow, findReqs,
    findAnalytics, findProbes, findEvents>>
findIndexVars == <<findIndexAssets, findIndex, findIndexer, findHeld, findSince>>
hubVars == <<hubSub, hubReader, hubWriter, hubExpiry, hubSubscribers, hubRegister,
    hubUnregister, hubBroadcast, hubSeq, hubDelivered, hubMissed, hubCrashed>>
repVars == <<repLog, repReplica, repNode, repNext, repNow, repMeasured, repRead>>

all == <<focus, vars, findVars, findIndexVars, hubVars, repVars>>

AvailabilityInit ==
    /\ focus \in Components
    /\ Init
    /\ Find!Init
    /\ Find!IndexInit
    /\ Hub!Init
    /\ Rep!Init
    /\ focus # "search" => ~findClient

\* The component k moves, the others stay in their initial states.
Alone(k) ==
    /\ focus = k /\ UNCHANGED focus
    /\ IF k = "emergency" THEN TRUE ELSE UNCHANGED vars
    /\ IF k = "search" THEN TRUE ELSE UNCHANGED findVars
    /\ IF k = "index" THEN TRUE ELSE UNCHANGED findIndexVars
    /\ IF k = "streams" THEN TRUE ELSE UNCHANGED hubVars
    /\ IF k = "replicas" THEN TRUE ELSE UNCHANGED repVars

AvailabilityNext ==
    \/ Alone("emergency") /\ EmergencyNext
    \/ Alone("search") /\ Find!Next
    \/ Alone("index") /\ Find!IndexNext
    \/ Alone("streams") /\ Hub!Next
    \/ Alone("replicas") /\ Rep!Next

AvailabilitySpec == AvailabilityInit /\ [][AvailabilityNext]_all

ASSUME ReplicaAssumption ==
    None \notin Int /\ RepReplicas \in Seq(STRING) /\ RepLagThreshold \in Int

-----------------------------------------------------------------------------
\* A search gives exactly the matches of its page, from a database or an
\* index rebuilt completely; Elasticsearch is probed at most as often as
\* promised, and the latest searches are on record.
SearchIsExact ==
    Find!ProbesAreSpaced /\ Find!PagesAreExact /\ Find!RingHoldsLatest /\ Find!RebuildIsComplete

\* A subscriber that is too slow is disconnected, never skipped.
SlowAreDisconnected == Hub!SlowAreDisconnected

\* A replica that is read from is not older than allowed.
ReadsAreFresh == Rep!ReadsAreFresh
=============================================================================
