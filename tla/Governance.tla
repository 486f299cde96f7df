----------------------------- MODULE Governance -----------------------------
(***************************************************************************)
(* Token-weighted governance, contracts/src/governance.rs: proposals,      *)
(* votes, delegation, balance snapshots and proposal templates, together   *)
(* with the governance token whose balances it reads.                      *)
(*                                                                         *)
(* The token is an environment: TokenTransfer moves balances the way       *)
(* AssetToken::transfer does, without the guards that may refuse one.      *)
(* Descriptions, the proposer and the recorded depositor are stored and    *)
(* never read; they are left out.                                          *)
(***************************************************************************)
EXTENDS Integers, FiniteSets, Functions

CONSTANTS
    Addr,           \* account addresses
    None,           \* an absent storage entry
    AssetIds,       \* asset ids proposals name; 0 is the neutral sentinel
    Quorums,        \* quorum thresholds initialize may be given
    Deposits,       \* deposit amounts initialize may be given
    Durations,      \* voting periods and snapshot lifetimes
    Limits,         \* delegation limits an admin may set
    Supply,         \* initial token balances
    TransferAmounts, \* amounts a token transfer may move
    TemplateParams, \* parameters tried with each template: records of
                    \* template, version, param_u64, param_i128, target
    MaxI128,        \* largest value of an i128 (a scaled-down 2^127 - 1)
    MaxU64,         \* largest value of a u64 (a scaled-down 2^64 - 1)
    MaxTime,        \* bound: ledger timestamps
    MaxProposals,   \* bound: proposals ever created
    MaxSnapshots    \* bound: balance snapshots ever taken

ProposalIds == 1..MaxProposals
SnapshotIds == 1..MaxSnapshots

Templates == {"FeeChange", "ParameterUpdate", "ContractUpgrade", "TreasurySpend",
              "QuorumChange", "AddAsset", "RemoveAsset", "PauseToggle",
              "DelegationLimitChange", "TextProposal"}

ASSUME GovernanceAssumption ==
    /\ None \notin Addr
    /\ AssetIds \subseteq Nat /\ 0 \in AssetIds
    /\ Quorums \subseteq Int /\ Deposits \subseteq Int
    /\ MaxU64 \in Nat /\ MaxI128 \in Nat
    /\ MaxTime \in 0..MaxU64
    /\ Durations \subseteq 0..MaxU64
    /\ Limits \subseteq Nat
    /\ Supply \in [Addr -> Nat]
    /\ TransferAmounts \subseteq Nat
    /\ MaxProposals \in Nat /\ MaxSnapshots \in Nat
    /\ TemplateParams \subseteq [template: Templates, version: Nat, param_u64: Nat,
                                 param_i128: Int, target: Addr \cup {None}]

VARIABLES
    admin,          \* GovDataKey::Admin, None before initialize
    quorum,         \* GovDataKey::Quorum
    deposit,        \* GovDataKey::DepositAmount
    proposals,      \* GovDataKey::Proposal(id); status "Absent" before it is created
    nextId,         \* GovDataKey::NextProposalId
    voted,          \* the voters with a GovDataKey::Voted(id, voter) entry
    weights,        \* GovDataKey::Snapshot(id, voter), 0 when absent
    approved,       \* the asset ids with a GovDataKey::Approved entry
    delegate,       \* GovDataKey::Delegate(delegator)
    delegatorsOf,   \* GovDataKey::DelegatorsOf(delegatee), kept as a set
    limit,          \* GovDataKey::DelegationLimit
    snapshots,      \* GovDataKey::BalanceSnapshot and SnapshotExpiry
    nextSnapshot,   \* GovDataKey::NextSnapshotId
    templateVersion, \* GovDataKey::TemplateVersion(template)
    balance,        \* the token contract's balances
    now             \* env.ledger().timestamp()

configVars == <<admin, quorum, deposit, limit, templateVersion>>
voteVars == <<proposals, nextId, voted, weights, approved>>
delegationVars == <<delegate, delegatorsOf>>
snapshotVars == <<snapshots, nextSnapshot>>
vars == <<configVars, voteVars, delegationVars, snapshotVars, balance, now>>

NoProposal == [asset_id |-> 0, votes_for |-> 0, votes_against |-> 0, quorum_threshold |-> 0,
               end_time |-> 0, status |-> "Absent", template |-> None]

NoSnapshot == [taker |-> None, balance |-> 0, expiry |-> 0]

-----------------------------------------------------------------------------
Initialize(caller, q, dep) ==
    /\ admin = None
    /\ admin' = caller
    /\ quorum' = q
    /\ deposit' = dep
    /\ UNCHANGED <<limit, templateVersion, voteVars, delegationVars, snapshotVars, balance, now>>

EndTimeFits_Unchecked(duration) == TRUE

EndTimeFits(duration) == now + duration <= MaxU64

\* create_proposal; template is the metadata create_proposal_from_template
\* attaches, None without one.
CreateProposal(proposer, asset, duration, template) ==
    /\ admin # None
    /\ balance[proposer] >= deposit
    /\ nextId \in ProposalIds
    /\ EndTimeFits(duration)
    /\ proposals' = [proposals EXCEPT ![nextId] =
                       [asset_id |-> asset, votes_for |-> 0, votes_against |-> 0,
                        quorum_threshold |-> quorum, end_time |-> now + duration,
                        status |-> "Active", template |-> template]]
    /\ nextId' = nextId + 1
    /\ weights' = [weights EXCEPT ![nextId] = [@ EXCEPT ![proposer] = balance[proposer]]]
    /\ UNCHANGED <<configVars, voted, approved, delegationVars, snapshotVars, balance, now>>

Bounds(u64_min, u64_max, i128_min, i128_max, requires_target) ==
    [u64 |-> u64_min..u64_max, i128 |-> i128_min..i128_max, requires_target |-> requires_target]

TemplateBounds(template) ==
    CASE template = "FeeChange"                    -> Bounds(0, 1000, 0, 0, FALSE)
      [] template = "ParameterUpdate"              -> Bounds(0, MaxU64, 0, MaxI128, FALSE)
      [] template = "ContractUpgrade"              -> Bounds(0, MaxU64, 0, 0, TRUE)
      [] template = "TreasurySpend"                -> Bounds(0, MaxU64, 1, MaxI128, TRUE)
      [] template = "QuorumChange"                 -> Bounds(0, MaxU64, 1, MaxI128, FALSE)
      [] template \in {"AddAsset", "RemoveAsset"}  -> Bounds(1, MaxU64, 0, 0, FALSE)
      [] template = "PauseToggle"                  -> Bounds(0, MaxU64, 0, 1, FALSE)
      [] template = "DelegationLimitChange"        -> Bounds(1, 10000, 0, 0, FALSE)
      [] template = "TextProposal"                 -> Bounds(0, 0, 0, 0, FALSE)

ParamsWithinBounds(bounds, p) ==
    /\ p.param_u64 \in bounds.u64
    /\ p.param_i128 \in bounds.i128
    /\ bounds.requires_target => p.target # None

TemplateAsset(p) ==
    IF p.template \in {"AddAsset", "RemoveAsset"} THEN p.param_u64 ELSE 0

CreateProposalFromTemplate(proposer, p, duration) ==
    /\ p.version = templateVersion[p.template]
    /\ ParamsWithinBounds(TemplateBounds(p.template), p)
    /\ CreateProposal(proposer, TemplateAsset(p), duration, p.template)

RegisterTemplateVersion(caller, template, version) ==
    /\ caller = admin
    /\ version > 0
    /\ templateVersion' = [templateVersion EXCEPT ![template] = version]
    /\ UNCHANGED <<admin, quorum, deposit, limit, voteVars, delegationVars, snapshotVars,
                   balance, now>>

-----------------------------------------------------------------------------
\* What vote and vote_with_snapshot share: the checks on the proposal, and the
\* votes, the Voted mark and the weight they record.
OpenForVoting(voter, id) ==
    /\ id \in ProposalIds
    /\ proposals[id].status = "Active"
    /\ now < proposals[id].end_time
    /\ voter \notin voted[id]

RecordVote_Unmarked(voter, id, yes, weight) ==
    LET side == IF yes THEN proposals[id].votes_for ELSE proposals[id].votes_against
    IN  /\ side + weight <= MaxI128
        /\ proposals' = [proposals EXCEPT ![id] =
                           IF yes THEN [@ EXCEPT !.votes_for = side + weight]
                                  ELSE [@ EXCEPT !.votes_against = side + weight]]
        /\ weights' = [weights EXCEPT ![id] = [@ EXCEPT ![voter] = weight]]
        /\ UNCHANGED voted

RecordVote(voter, id, yes, weight) ==
    LET side == IF yes THEN proposals[id].votes_for ELSE proposals[id].votes_against
    IN  /\ side + weight <= MaxI128
        /\ proposals' = [proposals EXCEPT ![id] =
                           IF yes THEN [@ EXCEPT !.votes_for = side + weight]
                                  ELSE [@ EXCEPT !.votes_against = side + weight]]
        /\ weights' = [weights EXCEPT ![id] = [@ EXCEPT ![voter] = weight]]
        /\ voted' = [voted EXCEPT ![id] = @ \cup {voter}]

\* The voter's balance and those of everyone who delegated to the voter, as
\* they are when the vote is cast.
VotingPower(voter) ==
    balance[voter] + SumFunctionOnSet(balance, delegatorsOf[voter])

Vote(voter, id, yes) ==
    /\ OpenForVoting(voter, id)
    /\ delegate[voter] = None
    /\ balance[voter] > 0
    /\ RecordVote(voter, id, yes, VotingPower(voter))
    /\ UNCHANGED <<configVars, nextId, approved, delegationVars, snapshotVars, balance, now>>

CreateSnapshot(taker, ttl) ==
    /\ admin # None
    /\ nextSnapshot \in SnapshotIds
    /\ now + ttl <= MaxU64
    /\ snapshots' = [snapshots EXCEPT ![nextSnapshot] =
                       [taker |-> taker, balance |-> balance[taker], expiry |-> now + ttl]]
    /\ nextSnapshot' = nextSnapshot + 1
    /\ UNCHANGED <<configVars, voteVars, delegationVars, balance, now>>

VoteWithSnapshot(voter, id, sid, yes) ==
    /\ sid \in 1..(nextSnapshot - 1)
    /\ now <= snapshots[sid].expiry
    /\ snapshots[sid].taker = voter
    /\ snapshots[sid].balance > 0
    /\ OpenForVoting(voter, id)
    /\ RecordVote(voter, id, yes, snapshots[sid].balance)
    /\ UNCHANGED <<configVars, nextId, approved, delegationVars, snapshotVars, balance, now>>

Passes_Majority(p) == p.votes_for > p.votes_against

Passes(p) ==
    /\ p.votes_for + p.votes_against >= p.quorum_threshold
    /\ p.votes_for > p.votes_against

VotingEnded(id) == now >= proposals[id].end_time

\* total_votes is a checked i128 addition: when it overflows, the call panics.
TallyExecute(id) ==
    /\ id \in ProposalIds
    /\ proposals[id].status = "Active"
    /\ VotingEnded(id)
    /\ proposals[id].votes_for + proposals[id].votes_against <= MaxI128
    /\ proposals' = [proposals EXCEPT ![id].status =
                       IF Passes(proposals[id]) THEN "Passed" ELSE "Rejected"]
    /\ approved' = IF Passes(proposals[id]) THEN approved \cup {proposals[id].asset_id}
                                            ELSE approved
    /\ UNCHANGED <<configVars, nextId, voted, weights, delegationVars, snapshotVars, balance, now>>

-----------------------------------------------------------------------------
SetDelegationLimit(caller, newLimit) ==
    /\ caller = admin
    /\ limit' = newLimit
    /\ UNCHANGED <<admin, quorum, deposit, templateVersion, voteVars, delegationVars,
                   snapshotVars, balance, now>>

Undelegated_Unchecked(delegatee) == TRUE

Undelegated(delegatee) == delegate[delegatee] = None

Delegate(delegator, delegatee) ==
    /\ delegator # delegatee
    /\ Undelegated(delegatee)
    /\ delegate[delegator] = None
    /\ Cardinality(delegatorsOf[delegatee]) < limit
    /\ delegate' = [delegate EXCEPT ![delegator] = delegatee]
    /\ delegatorsOf' = [delegatorsOf EXCEPT ![delegatee] = @ \cup {delegator}]
    /\ UNCHANGED <<configVars, voteVars, snapshotVars, balance, now>>

RevokeDelegationInternal(delegator) ==
    /\ delegate[delegator] # None
    /\ delegatorsOf' = [delegatorsOf EXCEPT ![delegate[delegator]] = @ \ {delegator}]
    /\ delegate' = [delegate EXCEPT ![delegator] = None]
    /\ UNCHANGED <<configVars, voteVars, snapshotVars, balance, now>>

RevokeDelegation(delegator) == RevokeDelegationInternal(delegator)

RevokeDelegationAdmin(caller, delegator) ==
    /\ caller = admin
    /\ RevokeDelegationInternal(delegator)

-----------------------------------------------------------------------------
\* Environment: the governance token moves between holders.
TokenTransfer(from, to, amount) ==
    /\ from # to
    /\ amount \in 1..balance[from]
    /\ balance' = [balance EXCEPT ![from] = @ - amount, ![to] = @ + amount]
    /\ UNCHANGED <<configVars, voteVars, delegationVars, snapshotVars, now>>

Tick ==
    /\ now < MaxTime
    /\ now' = now + 1
    /\ UNCHANGED <<configVars, voteVars, delegationVars, snapshotVars, balance>>

Init ==
    /\ admin = None
    /\ quorum = 0 /\ deposit = 0
    /\ proposals = [id \in ProposalIds |-> NoProposal]
    /\ nextId = 1
    /\ voted = [id \in ProposalIds |-> {}]
    /\ weights = [id \in ProposalIds |-> [a \in Addr |-> 0]]
    /\ approved = {}
    /\ delegate = [a \in Addr |-> None]
    /\ delegatorsOf = [a \in Addr |-> {}]
    /\ limit = 20
    /\ snapshots = [sid \in SnapshotIds |-> NoSnapshot]
    /\ nextSnapshot = 1
    /\ templateVersion = [t \in Templates |-> 1]
    /\ balance = Supply
    /\ now = 0

Next ==
    \/ \E a \in Addr, q \in Quorums, dep \in Deposits : Initialize(a, q, dep)
    \/ \E a \in Addr, asset \in AssetIds, d \in Durations : CreateProposal(a, asset, d, None)
    \/ \E a \in Addr, p \in TemplateParams, d \in Durations : CreateProposalFromTemplate(a, p, d)
    \/ \E a \in Addr, p \in TemplateParams : RegisterTemplateVersion(a, p.template, p.version)
    \/ \E a \in Addr, id \in ProposalIds, yes \in BOOLEAN : Vote(a, id, yes)
    \/ \E a \in Addr, id \in ProposalIds, sid \in SnapshotIds, yes \in BOOLEAN :
          VoteWithSnapshot(a, id, sid, yes)
    \/ \E a \in Addr, d \in Durations : CreateSnapshot(a, d)
    \/ \E id \in ProposalIds : TallyExecute(id)
    \/ \E a \in Addr, n \in Limits : SetDelegationLimit(a, n)
    \/ \E a, b \in Addr : Delegate(a, b) \/ RevokeDelegationAdmin(a, b)
    \/ \E a \in Addr : RevokeDelegation(a)
    \/ \E a, b \in Addr, n \in TransferAmounts : TokenTransfer(a, b, n)
    \/ Tick

Spec == Init /\ [][Next]_vars

-----------------------------------------------------------------------------
Proposal == [asset_id: Nat, votes_for: Int, votes_against: Int, quorum_threshold: Int,
             end_time: 0..MaxU64, status: {"Absent", "Active", "Passed", "Rejected"},
             template: Templates \cup {None}]

\* Every storage entry has the type the contract reads it back as.
TypeOK ==
    /\ admin \in Addr \cup {None}
    /\ quorum \in Int /\ deposit \in Int
    /\ proposals \in [ProposalIds -> Proposal]
    /\ nextId \in 1..(MaxProposals + 1)
    /\ voted \in [ProposalIds -> SUBSET Addr]
    /\ weights \in [ProposalIds -> [Addr -> Int]]
    /\ approved \subseteq Nat
    /\ delegate \in [Addr -> Addr \cup {None}]
    /\ delegatorsOf \in [Addr -> SUBSET Addr]
    /\ limit \in Nat
    /\ snapshots \in [SnapshotIds -> [taker: Addr \cup {None}, balance: Nat, expiry: 0..MaxU64]]
    /\ nextSnapshot \in 1..(MaxSnapshots + 1)
    /\ templateVersion \in [Templates -> Nat]
    /\ balance \in [Addr -> Nat]
    /\ now \in 0..MaxTime

\* Delegate and DelegatorsOf are two indexes of one relation: whoever votes for
\* a delegator is exactly whom the delegator named, after any order of
\* delegations, revocations and admin removals.
DelegationIndexesAgree ==
    \A a, b \in Addr : a \in delegatorsOf[b] <=> delegate[a] = b

\* Delegations never form a circle: in every group of holders someone votes for
\* themselves or delegates outside the group.
NoDelegationCycles ==
    \A S \in SUBSET Addr : S # {} => \E a \in S : delegate[a] \notin S

\* The tally of a proposal is the sum of the weights recorded for its voters,
\* whichever way they voted and whatever moved since.
TallyIsRecordedWeights ==
    \A id \in ProposalIds :
        proposals[id].votes_for + proposals[id].votes_against
            = SumFunctionOnSet(weights[id], voted[id])

\* An asset is approved only by a finalized proposal that met its own quorum
\* with a strict majority, even when the quorum or the balances changed since.
ApprovalBackedByVote ==
    /\ \A id \in ProposalIds : proposals[id].status = "Passed" =>
         /\ proposals[id].votes_for > proposals[id].votes_against
         /\ proposals[id].votes_for + proposals[id].votes_against
              >= proposals[id].quorum_threshold
    /\ \A asset \in approved :
         \E id \in ProposalIds : /\ proposals[id].status = "Passed"
                                 /\ proposals[id].asset_id = asset

\* Once tally_execute finalized a proposal, no vote reaches it any more, and no
\* proposal is finalized while its voting period is open.
FinalizedIsFrozenStep ==
    \A id \in ProposalIds :
        /\ proposals[id].status \in {"Passed", "Rejected"} =>
             proposals'[id] = proposals[id] /\ voted'[id] = voted[id]
        /\ proposals[id].status = "Active" /\ proposals'[id].status # "Active" =>
             now >= proposals[id].end_time

FinalizedIsFrozen == [][FinalizedIsFrozenStep]_vars

-----------------------------------------------------------------------------
\* create_proposal promises that "voting weight is locked to the creation
\* ledger": no token is then counted twice, so the votes cast on a proposal
\* never exceed the supply.
VotesWithinSupply ==
    \A id \in ProposalIds :
        proposals[id].votes_for + proposals[id].votes_against
            <= SumFunction(Supply)
=============================================================================
