---------------------------- MODULE AssetHandler ----------------------------
(***************************************************************************)
(* The asset endpoints (backend/handlers/assets.go, with the versions of   *)
(* backend/services/metadata_service.go): tokenization, the cached reads,  *)
(* sale and transfer records, and the metadata with its history.           *)
(*                                                                         *)
(* contract_id is unique and TokenizeAsset leaves it empty: one asset.  In *)
(* the same way every listing is "listing_1" and every transfer carries    *)
(* the placeholder hash, so there is one of each.                          *)
(***************************************************************************)
EXTENDS Rows, FiniteSetsExt

CONSTANTS Reqs, None,
    Uris,              \* metadata URIs
    CacheTTL,          \* of the Redis keys
    MaxVersions, MaxTime

VARIABLES
    now,
    asset,             \* the row [uri, immutable, verified], or None
    versions,          \* rows [version, uri]
    listed, transferred,       \* whether the one listing, the one transfer exists
    detail, list,      \* the Redis keys: [value, until], or None
    req,
    seen,              \* history: seen[v]: when the row was last v; -1 never
    had,               \* history: the URIs the row has had
    raced              \* history: a save, a version or a cached answer out of date

vars == <<now, asset, versions, listed, transferred, detail, list, req, seen, had, raced>>

NoUri == ""

Row(uri, immutable, verified) == [uri |-> uri, immutable |-> immutable, verified |-> verified]

AllRows == {Row(u, i, v) : u \in Uris \cup {NoUri}, i, v \in BOOLEAN}

TypeOK ==
    /\ now \in 0..MaxTime
    /\ asset \in AllRows \cup {None}
    /\ Len(versions) <= MaxVersions
    /\ \A e \in {detail, list} : e = None \/ (e.value \in AllRows \cup {None} /\ e.until \in Nat)

\* No asset yet, or one that is minted and has no metadata.
Init ==
    /\ now = 0 /\ asset \in {None, Row(NoUri, FALSE, TRUE)} /\ versions = <<>>
    /\ listed = FALSE /\ transferred = FALSE
    /\ detail = None /\ list = None
    /\ req = [r \in Reqs |-> New]
    /\ seen = [v \in AllRows |-> -1] /\ raced = {}
    /\ had = IF asset = None THEN {} ELSE {NoUri}

Goto(r, q) == req' = [req EXCEPT ![r] = q]

\* The row becomes v; the old one is current no more.
Write(v) ==
    /\ asset' = v
    /\ seen' = IF asset = None THEN seen ELSE [seen EXCEPT ![asset] = now]
    /\ had' = had \cup {v.uri}

Lapsed(e) == IF e = None THEN TRUE ELSE e.until <= now

-----------------------------------------------------------------------------
TokenizeAsset(r) ==
    /\ req[r] = New /\ asset = None
    /\ Write(Row(NoUri, FALSE, FALSE))
    /\ list' = None
    /\ Goto(r, [pc |-> "mint"])
    /\ UNCHANGED <<now, versions, listed, transferred, detail, raced>>

\* An update of the one column; no key is deleted again.
Mint(r, ok) ==
    /\ req[r].pc = "mint"
    /\ IF ok THEN Write([asset EXCEPT !.verified = TRUE]) ELSE UNCHANGED <<asset, seen, had>>
    /\ Goto(r, Done)
    /\ UNCHANGED <<now, versions, listed, transferred, detail, list, raced>>

\* A cached first page answers every request, whatever page it asks for.
ListAssets(r) ==
    /\ req[r] = New /\ Lapsed(list)
    /\ Goto(r, [pc |-> "list", value |-> asset])
    /\ UNCHANGED <<now, asset, versions, listed, transferred, detail, list, seen, had, raced>>

GetAsset(r) ==
    /\ req[r] = New /\ Lapsed(detail) /\ asset # None
    /\ Goto(r, [pc |-> "detail", value |-> asset])
    /\ UNCHANGED <<now, asset, versions, listed, transferred, detail, list, seen, had, raced>>

Cached(value) == [value |-> value, until |-> now + CacheTTL]

Fill(r) ==
    LET q == req[r] IN
    /\ q.pc \in {"list", "detail"}
    /\ IF q.pc = "list" THEN list' = Cached(q.value) /\ UNCHANGED detail
       ELSE detail' = Cached(q.value) /\ UNCHANGED list
    /\ raced' = IF q.value # asset THEN raced \cup {q.pc} ELSE raced
    /\ Goto(r, Done)
    /\ UNCHANGED <<now, asset, versions, listed, transferred, seen, had>>

\* Listings and transfers delete the key of the detail, which they do not
\* change.  A transfer that a workflow holds is recorded there.
ListAssetForSale(r) ==
    /\ req[r] = New /\ asset # None /\ ~listed
    /\ listed' = TRUE /\ detail' = None
    /\ Goto(r, Done)
    /\ UNCHANGED <<now, asset, versions, transferred, list, seen, had, raced>>

TransferAsset(r) ==
    /\ req[r] = New /\ asset # None /\ ~transferred
    /\ transferred' = TRUE /\ detail' = None
    /\ Goto(r, Done)
    /\ UNCHANGED <<now, asset, versions, listed, list, seen, had, raced>>

-----------------------------------------------------------------------------
MayEdit(row) == ~row.immutable

UpdateMetadata(r, uri) ==
    /\ req[r] = New /\ asset # None /\ MayEdit(asset)
    /\ Goto(r, [pc |-> "latest", op |-> "update", row |-> asset, uri |-> uri, next |-> 0])
    /\ UNCHANGED <<now, asset, versions, listed, transferred, detail, list, seen, had, raced>>

\* GetVersion comes before the snapshot of what is reverted.
RevertMetadataVersion(r, k) ==
    /\ req[r] = New /\ asset # None /\ MayEdit(asset)
    /\ Goto(r, [pc |-> "latest", op |-> "revert", row |-> asset, uri |-> versions[k].uri, next |-> 0])
    /\ UNCHANGED <<now, asset, versions, listed, transferred, detail, list, seen, had, raced>>

MakeMetadataImmutable(r) ==
    /\ req[r] = New /\ asset # None /\ asset.uri # NoUri
    /\ Goto(r, [pc |-> "save", op |-> "freeze", row |-> asset, uri |-> asset.uri, next |-> 0])
    /\ UNCHANGED <<now, asset, versions, listed, transferred, detail, list, seen, had, raced>>

Numbers == {versions[k].version : k \in DOMAIN versions}

NextVersion_Count(n) == IF n = {} THEN 1 ELSE Max(n)

NextVersion(n) == IF n = {} THEN 1 ELSE Max(n) + 1

\* RecordVersion: the latest number is read before the row is written.
RecordRead(r) ==
    /\ req[r].pc = "latest"
    /\ Goto(r, [req[r] EXCEPT !.pc = "record", !.next = NextVersion(Numbers)])
    /\ UNCHANGED <<now, asset, versions, listed, transferred, detail, list, seen, had, raced>>

RecordVersion(r) ==
    LET q == req[r] IN
    /\ q.pc = "record" /\ Len(versions) < MaxVersions
    /\ versions' = Append(versions, [version |-> q.next, uri |-> q.row.uri])
    /\ raced' = IF q.next # NextVersion(Numbers) THEN raced \cup {"version"} ELSE raced
    /\ Goto(r, [q EXCEPT !.pc = "save"])
    /\ UNCHANGED <<now, asset, listed, transferred, detail, list, seen, had>>

\* A version that cannot be stored stops a revert, not an update.
RecordFails(r) ==
    LET q == req[r] IN
    /\ q.pc = "record"
    /\ raced' = raced \cup {"lost"}
    /\ Goto(r, IF q.op = "update" THEN [q EXCEPT !.pc = "save"] ELSE Done)
    /\ UNCHANGED <<now, asset, versions, listed, transferred, detail, list, seen, had>>

Edited(q) == [q.row EXCEPT !.uri = q.uri, !.immutable = @ \/ q.op = "freeze"]

\* The whole row as it was read.
SaveAsset(r) ==
    LET q == req[r] IN
    /\ q.pc = "save"
    /\ Write(Edited(q))
    /\ raced' = IF asset # q.row THEN raced \cup {"row"} ELSE raced
    /\ Goto(r, Done)
    /\ UNCHANGED <<now, versions, listed, transferred, detail, list>>

Tick == now < MaxTime /\ now' = now + 1
        /\ UNCHANGED <<asset, versions, listed, transferred, detail, list, req, seen, had, raced>>

Next ==
    \/ \E r \in Reqs :
        \/ TokenizeAsset(r) \/ \E ok \in BOOLEAN : Mint(r, ok)
        \/ ListAssets(r) \/ GetAsset(r) \/ Fill(r)
        \/ ListAssetForSale(r) \/ TransferAsset(r)
        \/ \E uri \in Uris : UpdateMetadata(r, uri)
        \/ \E k \in DOMAIN versions : RevertMetadataVersion(r, k)
        \/ MakeMetadataImmutable(r)
        \/ RecordRead(r) \/ RecordVersion(r) \/ RecordFails(r) \/ SaveAsset(r)
    \/ Tick

Spec == Init /\ [][Next]_vars

-----------------------------------------------------------------------------
Recent(e) == Lapsed(e) \/ e.value = asset \/ (e.value # None /\ e.until <= seen[e.value] + CacheTTL)

\* Unless two requests overlap, the history is complete: every URI the asset
\* has had is its URI or that of a version, the versions are numbered without
\* gap or repetition, and an immutable asset keeps its last URI.  What the
\* detail key answers was true at most CacheTTL ago, although no change of the
\* row deletes the key.
MetadataIsKept ==
    /\ raced \cap {"row", "lost"} = {} /\ asset # None =>
        had \subseteq {asset.uri} \cup {versions[k].uri : k \in DOMAIN versions}
    /\ "version" \notin raced => \A k \in DOMAIN versions : versions[k].version = k
    /\ "row" \notin raced => \A v \in AllRows : v.immutable /\ seen[v] >= 0 => asset.immutable /\ asset.uri = v.uri
    /\ "detail" \notin raced => Recent(detail)
=============================================================================
