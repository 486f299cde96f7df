----------------------------- MODULE FeeService -----------------------------
(***************************************************************************)
(* Fee rules (backend/services/fee_service.go, backend/handlers/           *)
(* fee_admin.go): configuration with an audit log, and the fee a           *)
(* transaction pays.  A change reads the rule before the transaction that  *)
(* saves it and writes the log, so two changes may overlap.                *)
(***************************************************************************)
EXTENDS Rows, FiniteSetsExt, Functions

CONSTANTS
    Reqs, None,
    Configs,           \* inputs [base, min, max, tiers, active, from, until]; a tier [volume, discount]
    Amounts, Volumes, BpsUnit,
    MaxConfigs, MaxTime

VARIABLES
    configs,           \* rows of fee_configs, of one fee type
    log,               \* fee_audit_logs [config, action, prev, new]
    req,
    raced,             \* history: configs changed by two overlapping requests
    quote,             \* the last answer of CalculateFee, or None
    now

vars == <<configs, log, req, raced, quote, now>>

Ids == DOMAIN configs

Tier == [volume : Int, discount : Int]
ConfigRow == [base : Int, min : Int, max : Int, tiers : SUBSET Tier, active : BOOLEAN,
              from : Int, until : Int \cup {None}]

TypeOK ==
    /\ \A i \in Ids : configs[i].min <= configs[i].base /\ configs[i].base <= configs[i].max
    /\ raced \subseteq Ids
    /\ now \in 0..MaxTime

Init ==
    /\ configs = <<>>
    /\ log = <<>>
    /\ req = [r \in Reqs |-> New]
    /\ raced = {}
    /\ quote = None
    /\ now = 0

validateConfig(c) == 0 <= c.min /\ c.min <= c.base /\ c.base <= c.max

Entry(i, action, prev, new) == [config |-> i, action |-> action, prev |-> prev, new |-> new]

CreateFeeConfig(r, c) ==
    LET i == Len(configs) + 1 IN
    /\ req[r] = New
    /\ i <= MaxConfigs
    /\ validateConfig(c)
    /\ c.active
    /\ configs' = Append(configs, c)
    /\ log' = Append(log, Entry(i, "created", None, c))
    /\ req' = [req EXCEPT ![r] = Done]
    /\ UNCHANGED <<raced, quote, now>>

UpdateRead(r, i, c) ==
    /\ req[r] = New
    /\ validateConfig(c)
    /\ req' = [req EXCEPT ![r] = [pc |-> "updated", id |-> i, prev |-> configs[i], new |-> c]]
    /\ UNCHANGED <<configs, log, raced, quote, now>>

DeactivateRead(r, i) ==
    /\ req[r] = New
    /\ req' = [req EXCEPT ![r] = [pc |-> "deactivated", id |-> i, prev |-> configs[i],
                                  new |-> [configs[i] EXCEPT !.active = FALSE]]]
    /\ UNCHANGED <<configs, log, raced, quote, now>>

\* An update saves the whole row, a deactivation one column of it.
SavedRow(q) == IF q.pc = "updated" THEN q.new ELSE [configs[q.id] EXCEPT !.active = FALSE]

Logged(q) == Entry(q.id, q.pc, q.prev, q.new)

Commit(r) ==
    LET q == req[r] IN
    /\ q.pc \in {"updated", "deactivated"}
    /\ configs' = [configs EXCEPT ![q.id] = SavedRow(q)]
    /\ log' = Append(log, Logged(q))
    /\ raced' = IF configs[q.id] # q.prev THEN raced \cup {q.id} ELSE raced
    /\ req' = [req EXCEPT ![r] = Done]
    /\ UNCHANGED <<quote, now>>

InForce(i) ==
    /\ configs[i].active
    /\ configs[i].from <= now
    /\ configs[i].until = None \/ configs[i].until > now

\* The rule that came into force last, the older row of two.
GetActiveFeeConfig ==
    LET latest == {i \in Ids : InForce(i) /\ \A j \in Ids : InForce(j) => configs[j].from <= configs[i].from}
    IN  {i \in latest : \A j \in latest : i <= j}

Reached(c, volume) == {t \in c.tiers : t.volume <= volume}

\* The discount of the highest tier reached, down to the floor.
applyTierDiscount(c, volume) ==
    IF Reached(c, volume) = {} THEN c.base
    ELSE LET top == CHOOSE t \in Reached(c, volume) : \A u \in Reached(c, volume) : u.volume <= t.volume
         IN  Max({c.base - top.discount, c.min})

CalculateFee(amount, volume) ==
    /\ \E i \in GetActiveFeeConfig :
        LET bps == applyTierDiscount(configs[i], volume)
            fee == (amount * bps) \div BpsUnit
        IN  quote' = [config |-> configs[i], amount |-> amount, bps |-> bps, fee |-> fee, net |-> amount - fee]
    /\ UNCHANGED <<configs, log, req, raced, now>>

Tick == now < MaxTime /\ now' = now + 1 /\ UNCHANGED <<configs, log, req, raced, quote>>

Next ==
    \/ \E r \in Reqs, c \in Configs : CreateFeeConfig(r, c)
    \/ \E r \in Reqs, i \in Ids, c \in Configs : UpdateRead(r, i, c)
    \/ \E r \in Reqs, i \in Ids : DeactivateRead(r, i)
    \/ \E r \in Reqs : Commit(r)
    \/ \E a \in Amounts, v \in Volumes : CalculateFee(a, v)
    \/ Tick

-----------------------------------------------------------------------------
EntriesOf(i) == {k \in DOMAIN log : log[k].config = i}

\* k is the next entry after j.
FollowsUpon(i, j, k) == j < k /\ \A m \in EntriesOf(i) : m <= j \/ k <= m

\* "FeeAuditLog records every change made to a FeeConfig": the entries of a
\* rule lead from its creation to its present row, each taking up where the
\* one before it ended, unless two administrators changed it at once; and a
\* quote is at least the rule's floor, at most its base unless a tier is a
\* surcharge, and takes from the amount no more than there is unless the rule
\* asks for more than the whole of it.
FeesAreAuditable ==
    /\ \A i \in Ids \ raced :
        /\ \E k \in EntriesOf(i) : (\A j \in EntriesOf(i) : j <= k) /\ log[k].new = configs[i]
        /\ \A j, k \in EntriesOf(i) : FollowsUpon(i, j, k) => log[k].prev = log[j].new
    /\ quote # None =>
        /\ quote.bps >= quote.config.min /\ quote.fee >= 0
        /\ (\A t \in quote.config.tiers : t.discount >= 0) => quote.bps <= quote.config.base
        /\ quote.bps <= BpsUnit => quote.net >= 0

Spec == Init /\ [][Next]_vars

-----------------------------------------------------------------------------
(***************************************************************************)
(* Distribution of collected fees (backend/services/                       *)
(* fee_distribution_service.go, backend/handlers/                          *)
(* fee_distribution_admin.go): the rule, and runs that split a period's    *)
(* fees between platform, liquidity providers and token holders.           *)
(***************************************************************************)
CONSTANTS
    DistReqs,
    Providers, Holders,
    Shares,            \* inputs [platform, lp, holders] in parts of feeDistributionBpsDenominator
    feeDistributionBpsDenominator,
    Collected,
    MaxShare, DistMaxTime, MaxRuns, MaxFees

VARIABLES
    rules,             \* rows [shares, active]
    fees,              \* fees[t]: the completed fee_transactions of time t, summed
    lpTokens, balances,
    runs,              \* rows [from, to, total, parts], the allocations and the holdings found
    distReq,
    distNow

distVars == <<rules, fees, lpTokens, balances, runs, distReq, distNow>>

Active == {i \in DOMAIN rules : rules[i].active}

DistTypeOK ==
    /\ \A i \in DOMAIN rules : rules[i].active \in BOOLEAN
    /\ Cardinality(Active) <= 1

DistInit ==
    /\ rules = <<>>
    /\ fees = [t \in 0..DistMaxTime |-> 0]
    /\ lpTokens = [p \in Providers |-> 1]
    /\ balances = [h \in Holders |-> 0]
    /\ runs = <<>>
    /\ distReq = [r \in DistReqs |-> New]
    /\ distNow = 0

\* A new row is active by default, and the index lets one active row exist.
CreateRule(s) ==
    /\ s.platform + s.lp + s.holders = feeDistributionBpsDenominator
    /\ Active = {}
    /\ rules' = Append(rules, [shares |-> s, active |-> TRUE])
    /\ UNCHANGED <<fees, lpTokens, balances, runs, distReq, distNow>>

ActivateRule(i) ==
    /\ rules' = [j \in DOMAIN rules |-> [rules[j] EXCEPT !.active = (j = i)]]
    /\ UNCHANGED <<fees, lpTokens, balances, runs, distReq, distNow>>

\* Fees and holdings, written elsewhere.
CollectFee(a) ==
    /\ fees[distNow] + a <= MaxFees
    /\ fees' = [fees EXCEPT ![distNow] = @ + a]
    /\ UNCHANGED <<rules, lpTokens, balances, runs, distReq, distNow>>

MoveShares(p, h, a, b) ==
    /\ lpTokens' = [lpTokens EXCEPT ![p] = a]
    /\ balances' = [balances EXCEPT ![h] = b]
    /\ UNCHANGED <<rules, fees, runs, distReq, distNow>>

TotalOf(from, to) == SumFunctionOnSet(fees, {t \in 0..DistMaxTime : from <= t /\ t < to})

\* The rule and the total are read before the transaction that allocates.
RunDistribution(r, from, to) ==
    /\ distReq[r] = New
    /\ from < to
    /\ \E i \in Active :
        distReq' = [distReq EXCEPT ![r] = [pc |-> "allocate", shares |-> rules[i].shares, from |-> from, to |-> to,
                                   total |-> TotalOf(from, to)]]
    /\ UNCHANGED <<rules, fees, lpTokens, balances, runs, distNow>>

\* Pro rata, rounded down; nothing at all if nobody holds a share.
buildProRataAllocations(total, shares) ==
    [a \in DOMAIN shares |-> IF SumFunction(shares) = 0 THEN 0 ELSE (total * shares[a]) \div SumFunction(shares)]

PlatformAmount(q) == (q.total * q.shares.platform) \div feeDistributionBpsDenominator

LPAmount(q) == (q.total * q.shares.lp) \div feeDistributionBpsDenominator

HolderAmount_Share(q) == (q.total * q.shares.holders) \div feeDistributionBpsDenominator

\* The remainder, so that rounding loses nothing between the three.
HolderAmount(q) == q.total - PlatformAmount(q) - LPAmount(q)

Allocate(r) ==
    /\ distReq[r].pc = "allocate"
    /\ Len(runs) < MaxRuns
    /\ runs' = Append(runs, [from |-> distReq[r].from, to |-> distReq[r].to, total |-> distReq[r].total,
                             parts |-> <<PlatformAmount(distReq[r]), LPAmount(distReq[r]), HolderAmount(distReq[r])>>,
                             toLP |-> buildProRataAllocations(LPAmount(distReq[r]), lpTokens),
                             toHolders |-> buildProRataAllocations(HolderAmount(distReq[r]), balances),
                             lp |-> SumFunction(lpTokens), holders |-> SumFunction(balances)])
    /\ distReq' = [distReq EXCEPT ![r] = Done]
    /\ UNCHANGED <<rules, fees, lpTokens, balances, distNow>>

\* The transaction is rolled back, its run too: the update that marks the run
\* failed finds no row.
AllocateFails(r) ==
    /\ distReq[r].pc = "allocate"
    /\ distReq[r].total > 0
    /\ distReq' = [distReq EXCEPT ![r] = Done]
    /\ UNCHANGED <<rules, fees, lpTokens, balances, runs, distNow>>

DistTick == distNow < DistMaxTime /\ distNow' = distNow + 1 /\ UNCHANGED <<rules, fees, lpTokens, balances, runs, distReq>>

DistNext ==
    \/ \E s \in Shares : CreateRule(s)
    \/ \E i \in DOMAIN rules : ActivateRule(i)
    \/ \E a \in Collected : CollectFee(a)
    \/ \E p \in Providers, h \in Holders, a, b \in 0..MaxShare : MoveShares(p, h, a, b)
    \/ \E r \in DistReqs, a, b \in 0..DistMaxTime : RunDistribution(r, a, b)
    \/ \E r \in DistReqs : Allocate(r) \/ AllocateFails(r)
    \/ DistTick

-----------------------------------------------------------------------------
\* A run pays out what the period brought in: the three parts add up to the
\* total, no class is paid more than its part, and what a class is not paid
\* is less than one unit for each of its members, unless it has no holding;
\* however holdings move while the run is under way.
RunsConserveFees ==
    \A i \in DOMAIN runs :
        LET run == runs[i]
            lp  == SumFunction(run.toLP)
            th  == SumFunction(run.toHolders)
        IN  /\ run.parts[1] + run.parts[2] + run.parts[3] = run.total
            /\ lp <= run.parts[2] /\ (run.lp > 0 => run.parts[2] - lp < Cardinality(Providers))
            /\ th <= run.parts[3] /\ (run.holders > 0 => run.parts[3] - th < Cardinality(Holders))

DistSpec == DistInit /\ [][DistNext]_distVars
=============================================================================
