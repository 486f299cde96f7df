-------------------------- MODULE ReferralService ---------------------------
(***************************************************************************)
(* The referral program (backend/services/referral_service.go, backend/    *)
(* handlers/referral.go): codes, the link of a referee to a referrer with  *)
(* its fraud checks, and the rewards.                                      *)
(***************************************************************************)
EXTENDS Rows, FiniteSetsExt

CONSTANTS
    Reqs, Users, IPs, None,
    MaxUses,           \* of a code; 0 is unlimited
    Tiers,             \* referralTiers, highest first: [min, commission]
    refereeBonusUSD

VARIABLES
    codes,             \* codes[u]: the uses of the code of u, or None
    referrals,         \* referrals[u]: [referrer, status, amount, ip] of referee u, or None
    rewards,           \* rows [referee, user, amount, type]
    req,
    raced              \* history: codes and referees whose requests overlapped

vars == <<codes, referrals, rewards, req, raced>>

Referral == [referrer : Users, status : {"pending", "rewarded", "rejected"}, amount : Int, ip : IPs]

Referees == {u \in Users : referrals[u] # None}

TypeOK ==
    /\ \A u \in Users : (u \in Referees => referrals[u] \in Referral) /\ (codes[u] = None \/ codes[u] \in Nat)

Init ==
    /\ codes = [u \in Users |-> None]
    /\ referrals = [u \in Users |-> None]
    /\ rewards = <<>>
    /\ req = [r \in Reqs |-> New]
    /\ raced = {}

\* The user's row is unique: a second creation fails five times and no more.
GetOrCreateCode(u) ==
    /\ codes[u] = None
    /\ codes' = [codes EXCEPT ![u] = 0]
    /\ UNCHANGED <<referrals, rewards, req, raced>>

MayUse(u, owner) ==
    /\ codes[owner] # None
    /\ MaxUses > 0 => codes[owner] < MaxUses
    /\ owner # u

ipCollision(owner, ip) == \E u \in Referees : referrals[u].referrer = owner /\ referrals[u].ip = ip

ApplyCheck(r, u, owner, ip) ==
    /\ req[r] = New
    /\ MayUse(u, owner)
    /\ referrals[u] = None
    /\ req' = [req EXCEPT ![r] = [pc |-> "apply", user |-> u, uses |-> codes[owner],
                  row |-> [referrer |-> owner, status |-> IF ipCollision(owner, ip) THEN "rejected" ELSE "pending",
                           amount |-> 0, ip |-> ip]]]
    /\ UNCHANGED <<codes, referrals, rewards, raced>>

\* The unique index on referee_id.
IsUnique(u) == referrals[u] = None

ApplyReferral(r) ==
    LET q == req[r] IN
    /\ q.pc = "apply"
    /\ IF IsUnique(q.user)
       THEN /\ referrals' = [referrals EXCEPT ![q.user] = q.row]
            /\ codes' = [codes EXCEPT ![q.row.referrer] = @ + 1]
            /\ raced' = IF codes[q.row.referrer] # q.uses THEN raced \cup {q.row.referrer} ELSE raced
       ELSE UNCHANGED <<codes, referrals, raced>>
    /\ req' = [req EXCEPT ![r] = Done]
    /\ UNCHANGED rewards

Rewarded(owner) == {u \in Referees : referrals[u].referrer = owner /\ referrals[u].status = "rewarded"}

\* The first tier whose threshold the referrer has reached.
tierFor(owner) == Tiers[Min({k \in DOMAIN Tiers : Cardinality(Rewarded(owner)) >= Tiers[k].min})]

Unrewarded(u) == referrals[u].status = "pending"

QualifyRead(r, u) ==
    /\ req[r] = New
    /\ Unrewarded(u)
    /\ req' = [req EXCEPT ![r] = [pc |-> "qualify", user |-> u, row |-> referrals[u],
                                  commission |-> tierFor(referrals[u].referrer).commission]]
    /\ UNCHANGED <<codes, referrals, rewards, raced>>

Reward(referee, user, amount, type) == [referee |-> referee, user |-> user, amount |-> amount, type |-> type]

QualifyReferral(r) ==
    LET q == req[r] IN
    /\ q.pc = "qualify"
    /\ referrals' = [referrals EXCEPT ![q.user] = [q.row EXCEPT !.status = "rewarded", !.amount = q.commission]]
    /\ rewards' = rewards \o <<Reward(q.user, q.row.referrer, q.commission, "referrer_commission"),
                               Reward(q.user, q.user, refereeBonusUSD, "referee_bonus")>>
    /\ raced' = IF referrals[q.user] # q.row THEN raced \cup {q.user} ELSE raced
    /\ req' = [req EXCEPT ![r] = Done]
    /\ UNCHANGED codes

Next ==
    \/ \E u \in Users : GetOrCreateCode(u)
    \/ \E r \in Reqs, u, owner \in Users, ip \in IPs : ApplyCheck(r, u, owner, ip)
    \/ \E r \in Reqs : ApplyReferral(r) \/ QualifyReferral(r)
    \/ \E r \in Reqs, u \in Referees : QualifyRead(r, u)

Spec == Init /\ [][Next]_vars

-----------------------------------------------------------------------------
Commissions(u) == {k \in DOMAIN rewards : rewards[k].referee = u /\ rewards[k].type = "referrer_commission"}

Bonuses(u) == {k \in DOMAIN rewards : rewards[k].referee = u /\ rewards[k].type = "referee_bonus"}

\* Nobody refers himself; a code counts exactly the referrals made with it,
\* whatever overlaps, and exceeds its limit only if two applications overlap;
\* a rejected or pending referral has earned nobody anything, a rewarded one
\* has paid both sides, and paid them once unless two qualifications overlap.
RewardsFollowReferrals ==
    /\ \A u \in Referees : referrals[u].referrer # u
    /\ \A u \in Users : codes[u] # None =>
        /\ codes[u] = Cardinality({v \in Referees : referrals[v].referrer = u})
        /\ MaxUses > 0 /\ u \notin raced => codes[u] <= MaxUses
    /\ \A u \in Referees :
        /\ Cardinality(Commissions(u)) = Cardinality(Bonuses(u))
        /\ referrals[u].status = "rewarded" <=> Commissions(u) # {}
        /\ Cardinality(Commissions(u)) > 1 => u \in raced
        /\ \A k \in Commissions(u) : rewards[k].user = referrals[u].referrer

\* "It is idempotent: already rewarded referrals are returned unchanged": a
\* referral pays its commission at most once.
QualifyIsIdempotent == \A u \in Referees : Cardinality(Commissions(u)) <= 1

-----------------------------------------------------------------------------
(***************************************************************************)
(* The off-chain staking endpoints (backend/handlers/staking.go): stake,   *)
(* unstake, claim and the distribution of rewards, for one asset.  Each    *)
(* request reads positions and later saves whole rows.                     *)
(***************************************************************************)
CONSTANTS
    Stakers, Amounts, Aprs,
    BpsUnit, Year,     \* 10000 and 31536000 in the code
    MaxTime, MaxPositions, MaxStake

VARIABLES
    positions,         \* rows [user, staked, accrued, claimed, since, active]
    paid,              \* the sum of the claim rows of each position
    stakeReq,          \* the rows a request has read and those it will write
    now,
    lost               \* history: positions saved over a change of another request

stakeVars == <<positions, paid, stakeReq, now, lost>>

Ids == DOMAIN positions

StakeTypeOK ==
    /\ Len(paid) = Len(positions)
    /\ \A i \in Ids : positions[i].user \in Stakers /\ positions[i].since \in 0..now
    /\ lost \subseteq Ids

StakeInit ==
    /\ positions = <<>>
    /\ paid = <<>>
    /\ stakeReq = [r \in Reqs |-> New]
    /\ now = 0
    /\ lost = {}

NewPosition(u, a) ==
    [user |-> u, staked |-> a, accrued |-> 0, claimed |-> 0, since |-> now, active |-> TRUE]

\* What the request will write: a new row, rows to save, an amount claimed.
Prepare(r, new, save, claim) ==
    /\ stakeReq[r] = New
    /\ stakeReq' = [stakeReq EXCEPT ![r] = [pc |-> "commit", new |-> new, save |-> save, claim |-> claim,
                                  read |-> [i \in DOMAIN save |-> positions[i]]]]
    /\ UNCHANGED <<positions, paid, now, lost>>

ToppedUp(p, a) == [p EXCEPT !.staked = @ + a]

\* Tops up the first active position of the user, or opens one.
Stake(r, u, a) ==
    LET open == {i \in Ids : positions[i].user = u /\ positions[i].active}
        id == Min(open)
    IN  \/ open = {} /\ Prepare(r, <<NewPosition(u, a)>>, <<>>, 0)
        \/ /\ open # {}
           /\ positions[id].staked + a <= MaxStake
           /\ Prepare(r, <<>>, [i \in {id} |-> ToppedUp(positions[i], a)], 0)

WithinStake(id, a) == a <= positions[id].staked

\* A position with nothing left in it is closed.
Withdrawn(p, a) ==
    IF p.staked = a THEN [p EXCEPT !.staked = 0, !.active = FALSE] ELSE [p EXCEPT !.staked = @ - a]

Unstake(r, id, a) ==
    /\ positions[id].active
    /\ WithinStake(id, a)
    /\ Prepare(r, <<>>, [i \in {id} |-> Withdrawn(positions[i], a)], 0)

Claimed(p, pending) == [p EXCEPT !.claimed = @ + pending]

ClaimRewards(r, id) ==
    LET pending == positions[id].accrued - positions[id].claimed
    IN  /\ pending > 0
        /\ Prepare(r, <<>>, [i \in {id} |-> Claimed(positions[i], pending)], pending)

\* Integer arithmetic, from left to right.
StakeReward(p, apr) == (((p.staked * apr) \div BpsUnit) * (now - p.since)) \div Year

Credited(p, apr) == [p EXCEPT !.since = now, !.accrued = @ + StakeReward(p, apr)]

DistributeRewards(r, apr) ==
    LET credited == {i \in Ids : positions[i].active /\ StakeReward(positions[i], apr) > 0}
    IN  /\ credited # {}
        /\ Prepare(r, <<>>, [i \in credited |-> Credited(positions[i], apr)], 0)

\* The write of a request: one statement, or one transaction.
Commit(r) ==
    /\ stakeReq[r].pc = "commit"
    /\ Len(positions) + Len(stakeReq[r].new) <= MaxPositions
    /\ positions' = Saved(positions, stakeReq[r].save) \o stakeReq[r].new
    /\ paid' = [i \in Ids |-> paid[i] + IF i \in DOMAIN stakeReq[r].save THEN stakeReq[r].claim ELSE 0]
                  \o [i \in DOMAIN stakeReq[r].new |-> 0]
    /\ lost' = lost \cup Stale(positions, stakeReq[r].read)
    /\ stakeReq' = [stakeReq EXCEPT ![r] = Done]
    /\ UNCHANGED now

\* A database error: the statement or transaction leaves nothing behind.
Abort(r) ==
    /\ stakeReq[r].pc = "commit"
    /\ stakeReq' = [stakeReq EXCEPT ![r] = Done]
    /\ UNCHANGED <<positions, paid, now, lost>>

Tick ==
    /\ now < MaxTime
    /\ now' = now + 1
    /\ UNCHANGED <<positions, paid, stakeReq, lost>>

StakeNext ==
    \/ \E r \in Reqs, u \in Stakers, a \in Amounts : Stake(r, u, a)
    \/ \E r \in Reqs, i \in Ids, a \in Amounts : Unstake(r, i, a)
    \/ \E r \in Reqs, i \in Ids : ClaimRewards(r, i)
    \/ \E r \in Reqs, apr \in Aprs : DistributeRewards(r, apr)
    \/ \E r \in Reqs : Commit(r) \/ Abort(r)
    \/ Tick

StakeSpec == StakeInit /\ [][StakeNext]_stakeVars

-----------------------------------------------------------------------------
\* A stored position is consistent in itself whatever was lost, the claims
\* paid cover what the row counts as claimed, and they differ only for a
\* position on which a save has overwritten another request's.
ClaimsAreCounted ==
    \A i \in Ids : LET p == positions[i] IN
        /\ 0 <= p.claimed /\ p.claimed <= p.accrued
        /\ p.staked >= 0 /\ (p.active <=> p.staked > 0)
        /\ paid[i] >= p.claimed
        /\ i \notin lost => paid[i] = p.claimed
=============================================================================
