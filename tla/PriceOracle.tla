---------------------------- MODULE PriceOracle ----------------------------
(***************************************************************************)
(* Prices of assets (backend/services/price_oracle_service.go, called by   *)
(* backend/handlers/assets.go): a request asks the providers one after the *)
(* other, the configured one first, until one has a positive price that is *)
(* fresh.  An answer takes time to come, and each request has a service of *)
(* its own; the gauge of stale feeds is shared.                            *)
(***************************************************************************)
EXTENDS Rows

CONSTANTS
    None, Reqs,
    Primary,           \* PRICE_ORACLE_PROVIDER, not always a known provider
    Prices,            \* what providers answer, also zero
    maxAge,
    MaxTime

Known == {"chainlink", "band", "custom"}

VARIABLES
    reqs,              \* [pc, tried, feed, at]
    gauge,             \* OracleStaleFeeds of the symbol
    now,
    outcome,           \* history: the last request to end failed
    refused            \* history: request -> the providers it went past

vars == <<reqs, gauge, now, outcome, refused>>

TypeOK ==
    /\ \A r \in Reqs : reqs[r].pc \in {"new", "fetch", "done"}
    /\ gauge \in {0, 1} /\ outcome \in {0, 1}

Init ==
    /\ reqs = [r \in Reqs |-> New]
    /\ gauge = 0 /\ now = 0 /\ outcome = 0
    /\ refused = [r \in Reqs |-> {}]

fallbackOrder ==
    CASE Primary = "chainlink" -> <<"chainlink", "band", "custom">>
      [] Primary = "band"      -> <<"band", "chainlink", "custom">>
      [] Primary = "custom"    -> <<"custom", "chainlink", "band">>
      [] OTHER                 -> <<Primary, "chainlink", "band", "custom">>

\* A timestamp that is missing, and any of chainlink's, is the time of the answer.
Stamp(p, t) == IF p = "chainlink" \/ t = None THEN now ELSE t

IsStale_NoFuture(t) == now - t > maxAge

\* A price from the future is stale too.
IsStale(t) == t > now \/ now - t > maxAge

Accepted(price, t) == price > 0 /\ ~IsStale(t)

\* GetOraclePrice, GetAssetOraclePrice, FetchPriceStrict
FetchPrice(r) ==
    /\ reqs[r] = New
    /\ reqs' = [reqs EXCEPT ![r] = [pc |-> "fetch", tried |-> 0]]
    /\ UNCHANGED <<gauge, now, outcome, refused>>

Provider(r) == fallbackOrder[reqs[r].tried + 1]

\* A price is accepted: the request ends and clears the gauge.
Answer(r, price, t) ==
    /\ reqs[r].pc = "fetch" /\ reqs[r].tried < Len(fallbackOrder)
    /\ Provider(r) \in Known
    /\ Accepted(price, Stamp(Provider(r), t))
    /\ reqs' = [reqs EXCEPT ![r] = [pc |-> "done", price |-> price, at |-> now,
                                    stamp |-> Stamp(Provider(r), t), from |-> Provider(r)]]
    /\ gauge' = 0 /\ outcome' = 0
    /\ UNCHANGED <<now, refused>>

\* A price that is not positive is passed over; one that is stale is
\* reported as well.
Refuse(r, price, t) ==
    /\ reqs[r].pc = "fetch" /\ reqs[r].tried < Len(fallbackOrder)
    /\ Provider(r) \in Known
    /\ ~Accepted(price, Stamp(Provider(r), t))
    /\ reqs' = [reqs EXCEPT ![r].tried = @ + 1]
    /\ gauge' = IF price > 0 THEN 1 ELSE gauge
    /\ refused' = [refused EXCEPT ![r] = @ \cup {Provider(r)}]
    /\ UNCHANGED <<now, outcome>>

\* The provider is not known, not configured, not reached or not understood.
Fail(r) ==
    /\ reqs[r].pc = "fetch" /\ reqs[r].tried < Len(fallbackOrder)
    /\ reqs' = [reqs EXCEPT ![r].tried = @ + 1]
    /\ refused' = [refused EXCEPT ![r] = @ \cup {Provider(r)}]
    /\ UNCHANGED <<gauge, now, outcome>>

NoneLeft(r) == reqs[r].tried = Len(fallbackOrder)

GiveUp(r) ==
    /\ reqs[r].pc = "fetch" /\ NoneLeft(r)
    /\ reqs' = [reqs EXCEPT ![r] = [pc |-> "done", price |-> None, at |-> now]]
    /\ gauge' = 1 /\ outcome' = 1
    /\ UNCHANGED <<now, refused>>

Tick == now < MaxTime /\ now' = now + 1 /\ UNCHANGED <<reqs, gauge, outcome, refused>>

Next ==
    \/ \E r \in Reqs : \/ FetchPrice(r) \/ Fail(r) \/ GiveUp(r)
                       \/ \E p \in Prices, t \in (0..(MaxTime + 1)) \cup {None} : Answer(r, p, t) \/ Refuse(r, p, t)
    \/ Tick

-----------------------------------------------------------------------------
\* A quoted price is positive, was no older than maxAge and not from the
\* future when it was accepted, and every provider before its own was asked
\* first; a request fails only after every provider was; and once no request
\* is under way the gauge says whether the last one to end failed.
PricesAreFresh ==
    /\ \A r \in Reqs : reqs[r].pc = "done" =>
        IF reqs[r].price = None THEN refused[r] = {fallbackOrder[k] : k \in 1..Len(fallbackOrder)}
        ELSE /\ reqs[r].price > 0
             /\ reqs[r].stamp \in (reqs[r].at - maxAge)..reqs[r].at
             /\ \E k \in 1..Len(fallbackOrder) :
                    /\ reqs[r].from = fallbackOrder[k]
                    /\ refused[r] = {fallbackOrder[j] : j \in 1..(k - 1)}
    /\ (\A r \in Reqs : reqs[r].pc # "fetch") => gauge = outcome

Spec == Init /\ [][Next]_vars
=============================================================================
