---------------------------- MODULE SearchService ----------------------------
(***************************************************************************)
(* Asset search (backend/services/search_service.go, backend/handlers/search *)
(* .go): Elasticsearch answers while it is available and the database      *)
(* answers otherwise.  A failing request marks Elasticsearch unavailable;  *)
(* later requests probe it, at most one in probeInterval.                  *)
(***************************************************************************)
EXTENDS Rows, FiniteSetsExt, SequencesExt, Functions

CONSTANTS
    None, Reqs,
    Kinds,             \* asset types
    NewAssets,         \* rows [kind, verified, price, deleted] an asset may begin as
    Filters,           \* [kinds, verified, minPrice, maxPrice]; None: not given
    Pages, Limits,
    probeInterval,
    RingSize,          \* search events kept in memory (1000)
    MaxAssets, MaxTime, MaxEvents

VARIABLES
    assets,            \* the table: rows [kind, verified, price, deleted], in order of creation
    client,            \* an Elasticsearch client was configured
    available, lastProbe,
    now,
    reqs,              \* what each request does
    analytics,         \* SearchHandler.analytics
    probes, events     \* history: probe times and all events

vars == <<assets, client, available, lastProbe, now, reqs, analytics, probes, events>>

TypeOK ==
    /\ Len(assets) <= MaxAssets
    /\ client \in BOOLEAN /\ available \in BOOLEAN
    /\ available => client
    /\ lastProbe \in (0 - probeInterval)..now
    /\ \A r \in Reqs : reqs[r].pc \in {"new", "ready", "lock", "probe", "es", "count", "find", "done"}

\* NewESSearchBackend: a failing Info leaves the client for later probes.
Init ==
    /\ assets = <<>>
    /\ client \in BOOLEAN /\ available \in {FALSE, client}
    /\ lastProbe = IF client /\ ~available THEN 0 ELSE 0 - probeInterval
    /\ now = 0
    /\ reqs = [r \in Reqs |-> New]
    /\ analytics = <<>> /\ events = <<>> /\ probes = <<>>

-----------------------------------------------------------------------------
Validate(f) ==
    /\ f.minPrice # None => f.minPrice >= 0
    /\ f.maxPrice # None => f.maxPrice >= 0
    /\ f.minPrice # None /\ f.maxPrice # None => f.minPrice <= f.maxPrice

Priced(f) == f.minPrice # None \/ f.maxPrice # None

\* normalizePagination
normalizePagination(l) == IF l < 1 \/ l > 100 THEN 10 ELSE l

\* The filters of DBSearchBackend.Search; a price filter asks for an active
\* listing in the range.
Matches(t, f) ==
    {i \in DOMAIN t :
        /\ ~t[i].deleted
        /\ f.kinds # {} => t[i].kind \in f.kinds
        /\ f.verified # None => t[i].verified = f.verified
        /\ Priced(f) => t[i].price # None
        /\ f.minPrice # None /\ t[i].price # None => t[i].price >= f.minPrice
        /\ f.maxPrice # None /\ t[i].price # None => t[i].price <= f.maxPrice}

\* ORDER BY created_at DESC with OFFSET and LIMIT
Offset(page, limit) == (page - 1) * limit

PageOf(ids, page, limit) ==
    LET sorted == SetToSortSeq(ids, >) IN
    SubSeq(sorted, Offset(page, limit) + 1, Min({Len(sorted), Offset(page, limit) + limit}))

\* The facets count the whole table: buildFacets does not use the request.
buildFacets(t) == [k \in Kinds |-> Cardinality({i \in DOMAIN t : ~t[i].deleted /\ t[i].kind = k})]

-----------------------------------------------------------------------------
\* Prices and metadata are only in the database.
Search(r, f, page, l) ==
    /\ reqs[r] = New
    /\ reqs' = [reqs EXCEPT ![r] =
           IF ~Validate(f) THEN Done
           ELSE [pc |-> IF Priced(f) THEN "count" ELSE "ready", filter |-> f, page |-> page,
                 limit |-> normalizePagination(l), total |-> 0, table |-> <<>>, ids |-> None,
                 facets |-> None]]
    /\ UNCHANGED <<assets, client, available, lastProbe, now, analytics, probes, events>>

Goto(r, p) == reqs' = [reqs EXCEPT ![r].pc = p]

\* elasticsearchReady, under the read lock
elasticsearchReady(r) ==
    /\ reqs[r].pc = "ready"
    /\ Goto(r, CASE ~client -> "count"
                 [] client /\ available -> "es"
                 [] client /\ ~available /\ now - lastProbe < probeInterval -> "count"
                 [] OTHER -> "lock")
    /\ UNCHANGED <<assets, client, available, lastProbe, now, analytics, probes, events>>

\* Under the lock: the time of the last probe is looked at again.
MayProbe_Unchecked == TRUE

MayProbe == now - lastProbe >= probeInterval

ProbeLock(r) ==
    /\ reqs[r].pc = "lock"
    /\ \/ available /\ Goto(r, "es") /\ UNCHANGED <<lastProbe, probes>>
       \/ ~available /\ ~MayProbe /\ Goto(r, "count") /\ UNCHANGED <<lastProbe, probes>>
       \/ /\ ~available /\ MayProbe /\ Goto(r, "probe")
          /\ lastProbe' = now /\ probes' = Append(probes, now)
    /\ UNCHANGED <<assets, client, available, now, analytics, events>>

Probe(r, ok) ==
    /\ reqs[r].pc = "probe"
    /\ available' = (available \/ ok)
    /\ Goto(r, IF ok THEN "es" ELSE "count")
    /\ UNCHANGED <<assets, client, lastProbe, now, analytics, probes, events>>

\* recordAnalytics: the oldest event leaves a full ring.
Pushed(ring, e) == IF Len(ring) >= RingSize THEN Append(Tail(ring), e) ELSE Append(ring, e)

\* The backend's own copy of the event may get lost; the search has succeeded.
recordAnalytics(r, total) ==
    LET e == [req |-> r, total |-> total] IN
    /\ analytics' = Pushed(analytics, e)
    /\ events' = Append(events, e)

\* An answer of Elasticsearch, whatever its index holds
ESSearch(r, total) ==
    /\ reqs[r].pc = "es"
    /\ Len(events) < MaxEvents
    /\ reqs' = [reqs EXCEPT ![r] = Done]
    /\ recordAnalytics(r, total)
    /\ UNCHANGED <<assets, client, available, lastProbe, now, probes>>

\* A failing request marks Elasticsearch unavailable; an answer that cannot
\* be decoded does not.  The database answers in both cases.
ESFails(r, invalid) ==
    /\ reqs[r].pc = "es"
    /\ available' = (available /\ invalid)
    /\ lastProbe' = IF invalid THEN lastProbe ELSE now
    /\ Goto(r, "count")
    /\ UNCHANGED <<assets, client, now, analytics, probes, events>>

\* DBSearchBackend.Search: the count, then the page and the facets, in
\* queries of their own; a failing query fails the search.
DBCount(r) ==
    /\ reqs[r].pc = "count"
    /\ reqs' = [reqs EXCEPT ![r].pc = "find", ![r].table = assets,
                            ![r].total = Cardinality(Matches(assets, reqs[r].filter))]
    /\ UNCHANGED <<assets, client, available, lastProbe, now, analytics, probes, events>>

DBFind(r) ==
    LET q == reqs[r] IN
    /\ q.pc = "find"
    /\ Len(events) < MaxEvents
    /\ reqs' = [reqs EXCEPT ![r].pc = "done",
                            ![r].table = IF assets = @ THEN @ ELSE None,
                            ![r].ids = PageOf(Matches(assets, q.filter), q.page, q.limit),
                            ![r].facets = buildFacets(assets)]
    /\ recordAnalytics(r, q.total)
    /\ UNCHANGED <<assets, client, available, lastProbe, now, probes>>

DBFails(r) ==
    /\ reqs[r].pc \in {"count", "find"}
    /\ reqs' = [reqs EXCEPT ![r] = Done]
    /\ UNCHANGED <<assets, client, available, lastProbe, now, analytics, probes, events>>

-----------------------------------------------------------------------------
\* The asset handlers
CreateAsset(row) ==
    /\ Len(assets) < MaxAssets
    /\ assets' = Append(assets, row)
    /\ UNCHANGED <<client, available, lastProbe, now, reqs, analytics, probes, events>>

DeleteAsset(i) ==
    /\ i \in DOMAIN assets /\ ~assets[i].deleted
    /\ assets' = [assets EXCEPT ![i].deleted = TRUE]
    /\ UNCHANGED <<client, available, lastProbe, now, reqs, analytics, probes, events>>

Tick == now < MaxTime /\ now' = now + 1
        /\ UNCHANGED <<assets, client, available, lastProbe, reqs, analytics, probes, events>>

Next ==
    \/ \E r \in Reqs :
        \/ \E f \in Filters, p \in Pages, l \in Limits : Search(r, f, p, l)
        \/ elasticsearchReady(r) \/ ProbeLock(r) \/ \E b \in BOOLEAN : Probe(r, b) \/ ESFails(r, b)
        \/ \E n \in 0..Len(assets) : ESSearch(r, n)
        \/ DBCount(r) \/ DBFind(r) \/ DBFails(r)
    \/ \E row \in NewAssets : CreateAsset(row)
    \/ \E i \in 1..MaxAssets : DeleteAsset(i)
    \/ Tick

-----------------------------------------------------------------------------
\* However many requests meet an unavailable Elasticsearch at once, two
\* probes are at least probeInterval apart: the second one to get the lock
\* of elasticsearchReady sees that the first has probed.
ProbesAreSpaced == \A k \in 1..(Len(probes) - 1) : probes[k + 1] - probes[k] >= probeInterval

\* A page of a search the database answered holds the matches with that
\* rank, newest first, and the total it reports is not exceeded by them,
\* unless the table changed between the two queries; the facets count at
\* least every match.
PagesAreExact ==
    \A r \in Reqs :
        reqs[r].pc = "done" /\ reqs[r] # Done /\ reqs[r].table # None =>
            LET q == reqs[r]
                m == Matches(q.table, q.filter)
                Rank(i) == Cardinality({j \in m : j >= i})
            IN  /\ Range(q.ids) = {i \in m : Rank(i) > (q.page - 1) * q.limit /\ Rank(i) <= q.page * q.limit}
                /\ q.total = Cardinality(m)
                /\ q.total <= FoldFunction(+, 0, q.facets)

\* The ring of events holds the latest RingSize of them, in order.
RingHoldsLatest ==
    analytics = SubSeq(events, Max({1, Len(events) - RingSize + 1}), Len(events))

-----------------------------------------------------------------------------
(***************************************************************************)
(* The Elasticsearch index of the assets (IndexAsset, DeleteAssetFromIndex *)
(* and ReindexAll of backend/services/search_service.go, and the rebuild   *)
(* of elasticsearch_indexer.go, which reads the table in batches while     *)
(* assets come and go).                                                    *)
(***************************************************************************)
CONSTANTS Contents, BatchSize

VARIABLES
    indexAssets,       \* the table: rows [content, deleted] in order of creation
    index,             \* Elasticsearch: asset id -> the indexed row, or None
    indexer,           \* ReindexAllAssets: [pc, last, batch]
    held,              \* rows callers of IndexAsset hold: <<id, row>>
    since              \* history: assets unchanged since the rebuild began

indexVars == <<indexAssets, index, indexer, held, since>>

IndexTypeOK ==
    /\ Len(indexAssets) <= MaxAssets
    /\ DOMAIN index = 1..MaxAssets
    /\ indexer.pc \in {"idle", "read", "bulk", "done"}
    /\ indexer.last \in 0..MaxAssets /\ Len(indexer.batch) <= BatchSize

IndexInit ==
    /\ indexAssets = <<>> /\ index = [i \in 1..MaxAssets |-> None]
    /\ indexer = [pc |-> "idle", last |-> 0, batch |-> <<>>]
    /\ held = None /\ since = {}

Live(i) == i \in DOMAIN indexAssets /\ ~indexAssets[i].deleted

\* The asset handlers; nothing tells the index.
IndexableAsset(c) ==
    /\ Len(indexAssets) < MaxAssets
    /\ indexAssets' = Append(indexAssets, [content |-> c, deleted |-> FALSE])
    /\ UNCHANGED <<index, indexer, held, since>>

UpdateAsset(i, row) ==
    /\ Live(i) /\ row # indexAssets[i]
    /\ indexAssets' = [indexAssets EXCEPT ![i] = row]
    /\ since' = since \ {i}
    /\ UNCHANGED <<index, indexer, held>>

\* IndexAsset writes the row its caller read before.
Hold(i) ==
    /\ held = None /\ Live(i)
    /\ held' = <<i, indexAssets[i]>>
    /\ UNCHANGED <<indexAssets, index, indexer, since>>

IndexAsset(ok) ==
    /\ held # None
    /\ index' = IF ok THEN [index EXCEPT ![held[1]] = held[2]] ELSE index
    /\ held' = None
    /\ UNCHANGED <<indexAssets, indexer, since>>

\* DeleteAssetFromIndex, for an asset that has been deleted
DeleteAssetFromIndex(i) ==
    /\ index[i] # None /\ indexAssets[i].deleted
    /\ index' = [index EXCEPT ![i] = None]
    /\ UNCHANGED <<indexAssets, indexer, held, since>>

\* ReindexAll drops the index and creates it again, empty.
ReindexAll ==
    /\ indexer.pc \in {"idle", "done"} /\ \E i \in DOMAIN index : index[i] # None
    /\ index' = [i \in DOMAIN index |-> None]
    /\ indexer' = [indexer EXCEPT !.pc = "idle"]
    /\ UNCHANGED <<indexAssets, held, since>>

\* ReindexAllAssets does the same, then FindInBatches reads the rows after
\* the last one read and IndexAssetsBulk writes them.
ReindexAllAssets ==
    /\ indexer.pc = "idle"
    /\ index' = [i \in DOMAIN index |-> None]
    /\ indexer' = [pc |-> "read", last |-> 0, batch |-> <<>>]
    /\ since' = {i \in DOMAIN indexAssets : held = None \/ i # held[1]}
    /\ UNCHANGED <<indexAssets, held>>

FindBatch ==
    LET ids == SetToSortSeq({i \in DOMAIN indexAssets : i > indexer.last /\ Live(i)}, <)
        batch == SubSeq(ids, 1, Min({BatchSize, Len(ids)}))
    IN  /\ indexer.pc = "read"
        /\ indexer' = IF batch = <<>> THEN [indexer EXCEPT !.pc = "done"]
                      ELSE [pc |-> "bulk", last |-> Last(batch),
                            batch |-> [k \in DOMAIN batch |-> <<batch[k], indexAssets[batch[k]]>>]]
        /\ UNCHANGED <<indexAssets, index, held, since>>

\* The documents of a batch; a short batch is the last one.
Written(b) == Range(b)

IndexAssetsBulk(ok) ==
    LET docs == Written(indexer.batch) IN
    /\ indexer.pc = "bulk"
    /\ index' = IF ok THEN [i \in DOMAIN index |->
                               IF \E w \in docs : w[1] = i THEN (CHOOSE w \in docs : w[1] = i)[2]
                               ELSE index[i]]
                ELSE index
    /\ indexer' = [pc |-> CASE ~ok -> "idle"
                            [] ok /\ Len(indexer.batch) < BatchSize -> "done"
                            [] OTHER -> "read",
                   last |-> indexer.last, batch |-> <<>>]
    /\ UNCHANGED <<indexAssets, held, since>>

IndexNext ==
    \/ \E c \in Contents : IndexableAsset(c)
    \/ \E i \in 1..MaxAssets :
        \/ \E c \in Contents, d \in BOOLEAN : UpdateAsset(i, [content |-> c, deleted |-> d])
        \/ Hold(i)
        \/ DeleteAssetFromIndex(i)
    \/ ReindexAll \/ ReindexAllAssets \/ FindBatch
    \/ \E ok \in BOOLEAN : IndexAsset(ok) \/ IndexAssetsBulk(ok)

-----------------------------------------------------------------------------
\* After a rebuild that ended well the index holds, as it is in the table,
\* every asset that was there when it began and that no one has changed
\* since or held then: neither the batches of FindInBatches nor a late
\* IndexAsset leave it out or replace it.
RebuildIsComplete ==
    indexer.pc = "done" => \A i \in since : Live(i) => index[i] = indexAssets[i]
=============================================================================
