--------------------------- MODULE Workflows_proofs --------------------------
(***************************************************************************)
(* Proofs about governance and the workflows that MCWorkflows puts         *)
(* together with it, for every value of their constants.                   *)
(*                                                                         *)
(* A voter's power and a tally are sums over sets of addresses; what is    *)
(* used of them is in Sums.                                                *)
(***************************************************************************)
EXTENDS MCWorkflows, Sums, FunctionTheorems, SequenceTheorems

-----------------------------------------------------------------------------
(* Delegation                                                              *)

DelegationTyped ==
    /\ delegate \in [Addr -> Addr \cup {None}]
    /\ delegatorsOf \in [Addr -> SUBSET Addr]

DelegationInv == DelegationTyped /\ DelegationIndexesAgree /\ NoDelegationCycles

\* A new delegation keeps both indexes together, and its delegatee, who has
\* delegated to nobody, keeps every group open.
LEMMA DelegateStep ==
    ASSUME DelegationInv, NEW a \in Addr, NEW b \in Addr, Delegate(a, b)
    PROVE  DelegationInv'
  <1> USE GovernanceAssumption
  <1>0. /\ a # b /\ delegate[a] = None /\ delegate[b] = None
        /\ delegate' = [delegate EXCEPT ![a] = b]
        /\ delegatorsOf' = [delegatorsOf EXCEPT ![b] = @ \cup {a}]
    BY DEF Delegate, Undelegated
  <1>1. DelegationTyped'
    BY <1>0 DEF DelegationInv, DelegationTyped
  <1>2. DelegationIndexesAgree'
    <2> SUFFICES ASSUME NEW x \in Addr, NEW y \in Addr
                 PROVE  x \in delegatorsOf'[y] <=> delegate'[x] = y
      BY DEF DelegationIndexesAgree
    <2>1. x \in delegatorsOf[y] <=> delegate[x] = y
      BY DEF DelegationInv, DelegationIndexesAgree
    <2>2. delegatorsOf'[y] = IF y = b THEN delegatorsOf[b] \cup {a} ELSE delegatorsOf[y]
      BY <1>0 DEF DelegationInv, DelegationTyped
    <2>3. delegate'[x] = IF x = a THEN b ELSE delegate[x]
      BY <1>0 DEF DelegationInv, DelegationTyped
    <2> QED BY <1>0, <2>1, <2>2, <2>3
  <1>3. NoDelegationCycles'
    <2> SUFFICES ASSUME NEW S \in SUBSET Addr, S # {}
                 PROVE  \E x \in S : delegate'[x] \notin S
      BY DEF NoDelegationCycles
    <2>1. \A x \in Addr : delegate'[x] = IF x = a THEN b ELSE delegate[x]
      BY <1>0 DEF DelegationInv, DelegationTyped
    <2>2. CASE b \in S
      <3>1. delegate'[b] = None
        BY <1>0, <2>1
      <3> QED BY <2>2, <3>1
    <2>3. CASE b \notin S /\ a \in S
      BY <2>1, <2>3
    <2>4. CASE a \notin S
      <3>1. PICK x \in S : delegate[x] \notin S
        BY DEF DelegationInv, NoDelegationCycles
      <3> QED BY <2>1, <2>4, <3>1
    <2> QED BY <2>2, <2>3, <2>4
  <1> QED BY <1>1, <1>2, <1>3 DEF DelegationInv

\* A revocation removes the delegator from exactly the list it is on.
LEMMA RevokeStep ==
    ASSUME DelegationInv, NEW a \in Addr, RevokeDelegationInternal(a)
    PROVE  DelegationInv'
  <1> USE GovernanceAssumption
  <1>0. /\ delegate[a] \in Addr
        /\ delegate' = [delegate EXCEPT ![a] = None]
        /\ delegatorsOf' = [delegatorsOf EXCEPT ![delegate[a]] = @ \ {a}]
    BY DEF RevokeDelegationInternal, DelegationInv, DelegationTyped
  <1>1. DelegationTyped'
    BY <1>0 DEF DelegationInv, DelegationTyped
  <1>2. DelegationIndexesAgree'
    <2> SUFFICES ASSUME NEW x \in Addr, NEW y \in Addr
                 PROVE  x \in delegatorsOf'[y] <=> delegate'[x] = y
      BY DEF DelegationIndexesAgree
    <2>1. x \in delegatorsOf[y] <=> delegate[x] = y
      BY DEF DelegationInv, DelegationIndexesAgree
    <2>2. delegatorsOf'[y] = IF y = delegate[a] THEN delegatorsOf[y] \ {a} ELSE delegatorsOf[y]
      BY <1>0 DEF DelegationInv, DelegationTyped
    <2>3. delegate'[x] = IF x = a THEN None ELSE delegate[x]
      BY <1>0 DEF DelegationInv, DelegationTyped
    <2> QED BY <2>1, <2>2, <2>3
  <1>3. NoDelegationCycles'
    <2> SUFFICES ASSUME NEW S \in SUBSET Addr, S # {}
                 PROVE  \E x \in S : delegate'[x] \notin S
      BY DEF NoDelegationCycles
    <2>1. PICK x \in S : delegate[x] \notin S
      BY DEF DelegationInv, NoDelegationCycles
    <2>2. delegate'[x] = IF x = a THEN None ELSE delegate[x]
      BY <1>0 DEF DelegationInv, DelegationTyped
    <2> QED BY <2>1, <2>2
  <1> QED BY <1>1, <1>2, <1>3 DEF DelegationInv

\* No other call touches a delegation.
LEMMA NextDelegationInv == DelegationInv /\ [Next]_vars => DelegationInv'
  <1> SUFFICES ASSUME DelegationInv, [Next]_vars PROVE DelegationInv'
    OBVIOUS
  <1>1. ASSUME UNCHANGED delegationVars PROVE DelegationInv'
    BY <1>1 DEF DelegationInv, DelegationTyped, DelegationIndexesAgree, NoDelegationCycles,
                delegationVars
  <1>2. \/ \E a, b \in Addr : Delegate(a, b)
        \/ \E a \in Addr : RevokeDelegationInternal(a)
        \/ UNCHANGED delegationVars
    BY DEF Next, vars, Initialize, CreateProposal, CreateProposalFromTemplate,
           RegisterTemplateVersion, Vote, VoteWithSnapshot, CreateSnapshot, TallyExecute,
           SetDelegationLimit, RevokeDelegation, RevokeDelegationAdmin, TokenTransfer, Tick
  <1> QED BY <1>1, <1>2, DelegateStep, RevokeStep

\* The invariant of delegate, revoke_delegation and revoke_delegation_admin.
THEOREM GovernanceDelegation == Spec => []DelegationInv
  <1>1. Init => DelegationInv
    BY GovernanceAssumption
    DEF Init, DelegationInv, DelegationTyped, DelegationIndexesAgree, NoDelegationCycles
  <1> QED BY <1>1, NextDelegationInv, PTL DEF Spec

(***************************************************************************)
(* For any holders, Delegate and DelegatorsOf describe the same relation.  *)
(***************************************************************************)
THEOREM GovernanceIndexesAgree == Spec => []DelegationIndexesAgree
  <1>1. DelegationInv => DelegationIndexesAgree
    BY DEF DelegationInv
  <1> QED BY <1>1, GovernanceDelegation, PTL

(***************************************************************************)
(* For any holders, delegations never form a circle.                       *)
(***************************************************************************)
THEOREM GovernanceNoCycles == Spec => []NoDelegationCycles
  <1>1. DelegationInv => NoDelegationCycles
    BY DEF DelegationInv
  <1> QED BY <1>1, GovernanceDelegation, PTL

-----------------------------------------------------------------------------
(* Votes and approvals                                                     *)

Fields == {"asset_id", "votes_for", "votes_against", "quorum_threshold", "end_time",
           "status", "template"}

\* What the approvals rest on: nothing of a vote count but that it is there.
ProposalsShaped ==
    /\ proposals = [id \in ProposalIds |-> proposals[id]]
    /\ \A id \in ProposalIds : Fields \subseteq DOMAIN proposals[id]
    /\ voted = [id \in ProposalIds |-> voted[id]]
    /\ nextId \in Nat
    /\ \A id \in ProposalIds : id >= nextId => proposals[id].status = "Absent"

ApprovalInv == ProposalsShaped /\ ApprovalBackedByVote

\* A new proposal takes an id no finalized proposal has.
LEMMA CreateStep ==
    ASSUME ApprovalInv, NEW a \in Addr, NEW asset, NEW d \in Durations, NEW t,
           CreateProposal(a, asset, d, t)
    PROVE  ApprovalInv' /\ FinalizedIsFrozenStep
  <1> DEFINE p == [asset_id |-> asset, votes_for |-> 0, votes_against |-> 0,
                   quorum_threshold |-> quorum, end_time |-> now + d,
                   status |-> "Active", template |-> t]
  <1>0. /\ nextId \in ProposalIds
        /\ proposals' = [proposals EXCEPT ![nextId] = p]
        /\ nextId' = nextId + 1
        /\ UNCHANGED <<voted, approved>>
    BY DEF CreateProposal
  <1>1. p.status = "Active" /\ Fields \subseteq DOMAIN p
    BY DEF Fields
  <1> HIDE DEF p
  <1>2. \A id \in ProposalIds : proposals'[id] = IF id = nextId THEN p ELSE proposals[id]
    BY <1>0 DEF ApprovalInv, ProposalsShaped
  <1>3. proposals[nextId].status = "Absent" /\ nextId \in Nat
    BY <1>0 DEF ApprovalInv, ProposalsShaped, ProposalIds
  <1>4. ProposalsShaped'
    <2>1. \A id \in ProposalIds : Fields \subseteq DOMAIN proposals'[id]
      BY <1>1, <1>2 DEF ApprovalInv, ProposalsShaped
    <2>2. ASSUME NEW id \in ProposalIds, id >= nextId' PROVE proposals'[id].status = "Absent"
      <3>1. id # nextId /\ id >= nextId
        BY <1>0, <1>3, <2>2 DEF ProposalIds
      <3> QED BY <1>2, <3>1 DEF ApprovalInv, ProposalsShaped
    <2>3. proposals' = [id \in ProposalIds |-> proposals'[id]]
      BY <1>0 DEF ApprovalInv, ProposalsShaped
    <2>4. voted' = [id \in ProposalIds |-> voted'[id]] /\ nextId' \in Nat
      BY <1>0, <1>3 DEF ApprovalInv, ProposalsShaped
    <2> QED BY <2>1, <2>2, <2>3, <2>4 DEF ProposalsShaped
  <1>5. ApprovalBackedByVote'
    BY <1>0, <1>1, <1>2, <1>3 DEF ApprovalInv, ApprovalBackedByVote
  <1>6. FinalizedIsFrozenStep
    BY <1>0, <1>1, <1>2, <1>3 DEF FinalizedIsFrozenStep
  <1> QED BY <1>4, <1>5, <1>6 DEF ApprovalInv

\* A vote reaches only an active proposal.
LEMMA VoteStep ==
    ASSUME ApprovalInv, NEW a \in Addr, NEW id \in ProposalIds, NEW yes, NEW w,
           OpenForVoting(a, id), RecordVote(a, id, yes, w), UNCHANGED <<nextId, approved>>
    PROVE  ApprovalInv' /\ FinalizedIsFrozenStep
  <1> DEFINE p == IF yes THEN [proposals[id] EXCEPT !.votes_for = proposals[id].votes_for + w]
                  ELSE [proposals[id] EXCEPT !.votes_against = proposals[id].votes_against + w]
  <1>0. /\ proposals' = [proposals EXCEPT ![id] = p]
        /\ voted' = [voted EXCEPT ![id] = @ \cup {a}]
        /\ proposals[id].status = "Active"
    BY DEF RecordVote, OpenForVoting
  <1>1. Fields \subseteq DOMAIN proposals[id]
    BY DEF ApprovalInv, ProposalsShaped
  <1>2. p.status = proposals[id].status /\ DOMAIN p = DOMAIN proposals[id]
    BY <1>1 DEF Fields
  <1> HIDE DEF p
  <1>3. \A i \in ProposalIds : /\ proposals'[i] = IF i = id THEN p ELSE proposals[i]
                               /\ i # id => voted'[i] = voted[i]
    BY <1>0 DEF ApprovalInv, ProposalsShaped
  <1>4. ProposalsShaped'
    BY <1>0, <1>1, <1>2, <1>3 DEF ApprovalInv, ProposalsShaped
  <1>5. ApprovalBackedByVote'
    BY <1>0, <1>2, <1>3 DEF ApprovalInv, ApprovalBackedByVote
  <1>6. FinalizedIsFrozenStep
    BY <1>0, <1>2, <1>3 DEF FinalizedIsFrozenStep
  <1> QED BY <1>4, <1>5, <1>6 DEF ApprovalInv

\* A tally approves the asset of the proposal it passes.
LEMMA TallyStep ==
    ASSUME ApprovalInv, NEW id \in ProposalIds, TallyExecute(id)
    PROVE  ApprovalInv' /\ FinalizedIsFrozenStep
  <1> DEFINE st == IF Passes(proposals[id]) THEN "Passed" ELSE "Rejected"
             p == [proposals[id] EXCEPT !.status = st]
  <1>0. /\ proposals' = [proposals EXCEPT ![id] = p]
        /\ approved' = IF Passes(proposals[id]) THEN approved \cup {proposals[id].asset_id}
                                                ELSE approved
        /\ proposals[id].status = "Active"
        /\ now >= proposals[id].end_time
        /\ UNCHANGED <<voted, nextId>>
    BY DEF TallyExecute, VotingEnded
  <1>1. Fields \subseteq DOMAIN proposals[id]
    BY DEF ApprovalInv, ProposalsShaped
  <1>2. /\ p.status = st /\ DOMAIN p = DOMAIN proposals[id]
        /\ p.votes_for = proposals[id].votes_for
        /\ p.votes_against = proposals[id].votes_against
        /\ p.quorum_threshold = proposals[id].quorum_threshold
        /\ p.asset_id = proposals[id].asset_id
    BY <1>1 DEF Fields
  <1>3. st = "Passed" <=> Passes(proposals[id])
    OBVIOUS
  <1>4. st \in {"Passed", "Rejected"}
    OBVIOUS
  <1> HIDE DEF p, st
  <1>5. \A i \in ProposalIds : proposals'[i] = IF i = id THEN p ELSE proposals[i]
    BY <1>0 DEF ApprovalInv, ProposalsShaped
  <1>6. ProposalsShaped'
    BY <1>0, <1>1, <1>2, <1>5 DEF ApprovalInv, ProposalsShaped
  <1>7. ApprovalBackedByVote'
    BY <1>0, <1>2, <1>3, <1>5 DEF ApprovalInv, ApprovalBackedByVote, Passes
  <1>8. FinalizedIsFrozenStep
    BY <1>0, <1>2, <1>4, <1>5 DEF FinalizedIsFrozenStep
  <1> QED BY <1>6, <1>7, <1>8 DEF ApprovalInv

\* No other call touches a proposal or an approval.
LEMMA NextApproval ==
    ASSUME ApprovalInv, [Next]_vars
    PROVE  ApprovalInv' /\ FinalizedIsFrozenStep
  <1>1. ASSUME UNCHANGED <<proposals, nextId, voted, approved>>
        PROVE  ApprovalInv' /\ FinalizedIsFrozenStep
    <2>1. ApprovalInv'
      BY <1>1 DEF ApprovalInv, ProposalsShaped, ApprovalBackedByVote
    <2>2. FinalizedIsFrozenStep
      BY <1>1 DEF FinalizedIsFrozenStep
    <2> QED BY <2>1, <2>2
  <1>2. \/ \E a \in Addr, d \in Durations : \E asset, t : CreateProposal(a, asset, d, t)
        \/ \E a \in Addr, id \in ProposalIds : \E yes, w :
              /\ OpenForVoting(a, id) /\ RecordVote(a, id, yes, w)
              /\ UNCHANGED <<nextId, approved>>
        \/ \E id \in ProposalIds : TallyExecute(id)
        \/ UNCHANGED <<proposals, nextId, voted, approved>>
    <2> USE DEF vars, voteVars
    <2>1. ASSUME NEW a \in Addr, NEW x \in AssetIds, NEW d \in Durations,
                 CreateProposal(a, x, d, None)
          PROVE  \E b \in Addr, e \in Durations : \E asset, t : CreateProposal(b, asset, e, t)
      BY <2>1
    <2>2. ASSUME NEW a \in Addr, NEW p \in TemplateParams, NEW d \in Durations,
                 CreateProposalFromTemplate(a, p, d)
          PROVE  \E b \in Addr, e \in Durations : \E asset, t : CreateProposal(b, asset, e, t)
      BY <2>2 DEF CreateProposalFromTemplate
    <2>3. ASSUME NEW a \in Addr, NEW id \in ProposalIds, NEW yes \in BOOLEAN, Vote(a, id, yes)
          PROVE  \E w : OpenForVoting(a, id) /\ RecordVote(a, id, yes, w)
                        /\ UNCHANGED <<nextId, approved>>
      BY <2>3 DEF Vote
    <2>4. ASSUME NEW a \in Addr, NEW id \in ProposalIds, NEW sid \in SnapshotIds,
                 NEW yes \in BOOLEAN, VoteWithSnapshot(a, id, sid, yes)
          PROVE  \E w : OpenForVoting(a, id) /\ RecordVote(a, id, yes, w)
                        /\ UNCHANGED <<nextId, approved>>
      BY <2>4 DEF VoteWithSnapshot
    <2>5. \/ \E a \in Addr, x \in AssetIds, d \in Durations : CreateProposal(a, x, d, None)
          \/ \E a \in Addr, p \in TemplateParams, d \in Durations :
                CreateProposalFromTemplate(a, p, d)
          \/ \E a \in Addr, id \in ProposalIds, yes \in BOOLEAN : Vote(a, id, yes)
          \/ \E a \in Addr, id \in ProposalIds, sid \in SnapshotIds, yes \in BOOLEAN :
                VoteWithSnapshot(a, id, sid, yes)
          \/ \E id \in ProposalIds : TallyExecute(id)
          \/ UNCHANGED <<proposals, nextId, voted, approved>>
      BY DEF Next, Initialize, RegisterTemplateVersion, CreateSnapshot, SetDelegationLimit,
             Delegate, RevokeDelegation, RevokeDelegationAdmin, RevokeDelegationInternal,
             TokenTransfer, Tick
    <2> QED BY <2>1, <2>2, <2>3, <2>4, <2>5
  <1> QED BY <1>1, <1>2, CreateStep, VoteStep, TallyStep

\* The invariant of create_proposal, the two vote calls and tally_execute.
THEOREM GovernanceApprovalInv == Spec => []ApprovalInv
  <1>1. Init => ApprovalInv
    BY DEF Init, ApprovalInv, ProposalsShaped, ApprovalBackedByVote, NoProposal, Fields
  <1>2. ApprovalInv /\ [Next]_vars => ApprovalInv'
    BY NextApproval
  <1> QED BY <1>1, <1>2, PTL DEF Spec

(***************************************************************************)
(* For any vote, an approved asset has a finalized proposal behind it that *)
(* met its quorum with a strict majority.                                  *)
(***************************************************************************)
THEOREM GovernanceApprovalBacked == Spec => []ApprovalBackedByVote
  <1>1. ApprovalInv => ApprovalBackedByVote
    BY DEF ApprovalInv
  <1> QED BY <1>1, GovernanceApprovalInv, PTL

(***************************************************************************)
(* For any vote, a finalized proposal never changes, and it is finalized   *)
(* only after its voting period.                                           *)
(***************************************************************************)
THEOREM GovernanceFinalizedIsFrozen == Spec => FinalizedIsFrozen
  <1>1. ApprovalInv /\ [Next]_vars => [FinalizedIsFrozenStep]_vars
    BY NextApproval
  <1> QED BY <1>1, GovernanceApprovalInv, PTL DEF Spec, FinalizedIsFrozen

-----------------------------------------------------------------------------
(* Types and tallies                                                       *)

\* The contract keeps a list of a holder's delegators and an entry for each
\* voter, so both sets are finite; a proposal is created without voters.
VotesInv ==
    /\ TypeOK
    /\ \A a \in Addr : IsFiniteSet(delegatorsOf[a])
    /\ \A id \in ProposalIds : IsFiniteSet(voted[id])
    /\ \A id \in ProposalIds : id >= nextId => voted[id] = {}
    /\ TallyIsRecordedWeights

\* What a vote counts is a number of tokens.
LEMMA VotingPowerType ==
    ASSUME VotesInv, NEW voter \in Addr
    PROVE  VotingPower(voter) \in Nat
  <1>1. /\ IsFiniteSet(delegatorsOf[voter])
        /\ \A d \in delegatorsOf[voter] : balance[d] \in Nat
        /\ balance[voter] \in Nat
    BY DEF VotesInv, TypeOK
  <1>2. SumFunctionOnSet(balance, delegatorsOf[voter]) \in Nat
    BY <1>1, SumNat
  <1> QED BY <1>1, <1>2 DEF VotingPower

\* A new proposal is tallied over no voter.
LEMMA CreateVotes ==
    ASSUME VotesInv, NEW a \in Addr, NEW asset \in Nat, NEW d \in Durations,
           NEW t \in Templates \cup {None}, CreateProposal(a, asset, d, t)
    PROVE  VotesInv'
  <1> USE GovernanceAssumption
  <1> DEFINE p == [asset_id |-> asset, votes_for |-> 0, votes_against |-> 0,
                   quorum_threshold |-> quorum, end_time |-> now + d,
                   status |-> "Active", template |-> t]
  <1>0. /\ nextId \in ProposalIds
        /\ now + d <= MaxU64
        /\ proposals' = [proposals EXCEPT ![nextId] = p]
        /\ nextId' = nextId + 1
        /\ weights' = [weights EXCEPT ![nextId] = [@ EXCEPT ![a] = balance[a]]]
        /\ UNCHANGED <<configVars, voted, approved, delegationVars, snapshotVars, balance, now>>
    BY DEF CreateProposal, EndTimeFits
  <1>1. p \in Proposal /\ p.votes_for = 0 /\ p.votes_against = 0
    <2>1. now + d \in 0..MaxU64
      BY <1>0 DEF VotesInv, TypeOK
    <2> QED BY <2>1 DEF VotesInv, TypeOK, Proposal
  <1> HIDE DEF p
  <1>2. \A id \in ProposalIds : /\ proposals'[id] = IF id = nextId THEN p ELSE proposals[id]
                                /\ id # nextId => weights'[id] = weights[id]
    BY <1>0 DEF VotesInv, TypeOK
  <1>3. nextId \in Nat /\ nextId' \in 1..(MaxProposals + 1) /\ voted[nextId] = {}
    BY <1>0 DEF VotesInv, TypeOK, ProposalIds
  <1>4. TypeOK'
    <2>1. proposals' \in [ProposalIds -> Proposal]
      BY <1>0, <1>1 DEF VotesInv, TypeOK
    <2>2. weights' \in [ProposalIds -> [Addr -> Int]]
      BY <1>0 DEF VotesInv, TypeOK
    <2> QED BY <1>0, <1>3, <2>1, <2>2
            DEF VotesInv, TypeOK, configVars, delegationVars, snapshotVars
  <1>5. TallyIsRecordedWeights'
    <2> SUFFICES ASSUME NEW id \in ProposalIds
                 PROVE  proposals'[id].votes_for + proposals'[id].votes_against
                          = SumFunctionOnSet(weights'[id], voted'[id])
      BY DEF TallyIsRecordedWeights
    <2>1. CASE id = nextId
      <3>1. voted'[id] = {}
        BY <1>0, <1>3, <2>1
      <3>2. SumFunctionOnSet(weights'[id], voted'[id]) = 0
        BY <3>1, SumEmpty
      <3> QED BY <1>1, <1>2, <2>1, <3>2
    <2>2. CASE id # nextId
      BY <1>0, <1>2, <2>2 DEF VotesInv, TallyIsRecordedWeights
    <2> QED BY <2>1, <2>2
  <1>6. \A id \in ProposalIds : id >= nextId' => voted'[id] = {}
    BY <1>0, <1>3 DEF VotesInv, ProposalIds
  <1> QED BY <1>0, <1>4, <1>5, <1>6 DEF VotesInv, delegationVars

\* A vote adds its weight to one side and records it for a new voter.
LEMMA RecordVotes ==
    ASSUME VotesInv, NEW a \in Addr, NEW id \in ProposalIds, NEW yes \in BOOLEAN, NEW w \in Int,
           OpenForVoting(a, id), RecordVote(a, id, yes, w),
           UNCHANGED <<configVars, nextId, approved, delegationVars, snapshotVars, balance, now>>,
           \A i \in ProposalIds : i >= nextId => proposals[i].status = "Absent"
    PROVE  VotesInv'
  <1> DEFINE p == IF yes THEN [proposals[id] EXCEPT !.votes_for = proposals[id].votes_for + w]
                  ELSE [proposals[id] EXCEPT !.votes_against = proposals[id].votes_against + w]
             f == [weights[id] EXCEPT ![a] = w]
  <1>0. /\ proposals' = [proposals EXCEPT ![id] = p]
        /\ weights' = [weights EXCEPT ![id] = f]
        /\ voted' = [voted EXCEPT ![id] = @ \cup {a}]
        /\ proposals[id].status = "Active"
        /\ a \notin voted[id]
    BY DEF RecordVote, OpenForVoting
  <1>1. proposals[id] \in Proposal /\ weights[id] \in [Addr -> Int] /\ voted[id] \in SUBSET Addr
    BY DEF VotesInv, TypeOK
  <1>2. /\ p \in Proposal
        /\ p.votes_for + p.votes_against = proposals[id].votes_for + proposals[id].votes_against + w
    BY <1>1 DEF Proposal
  <1>3. f \in [Addr -> Int] /\ f[a] = w /\ \A b \in voted[id] : f[b] = weights[id][b]
    BY <1>0, <1>1
  <1> HIDE DEF p, f
  <1>4. \A i \in ProposalIds : /\ proposals'[i] = IF i = id THEN p ELSE proposals[i]
                               /\ weights'[i] = IF i = id THEN f ELSE weights[i]
                               /\ voted'[i] = IF i = id THEN voted[i] \cup {a} ELSE voted[i]
    BY <1>0 DEF VotesInv, TypeOK
  <1>5. TypeOK'
    <2>1. proposals' \in [ProposalIds -> Proposal]
      BY <1>0, <1>2 DEF VotesInv, TypeOK
    <2>2. weights' \in [ProposalIds -> [Addr -> Int]] /\ voted' \in [ProposalIds -> SUBSET Addr]
      BY <1>0, <1>3 DEF VotesInv, TypeOK
    <2> QED BY <2>1, <2>2 DEF VotesInv, TypeOK, configVars, delegationVars, snapshotVars
  <1>6. IsFiniteSet(voted[id])
    BY DEF VotesInv
  <1>7. TallyIsRecordedWeights'
    <2> SUFFICES ASSUME NEW i \in ProposalIds
                 PROVE  proposals'[i].votes_for + proposals'[i].votes_against
                          = SumFunctionOnSet(weights'[i], voted'[i])
      BY DEF TallyIsRecordedWeights
    <2>1. CASE i # id
      BY <1>4, <2>1 DEF VotesInv, TallyIsRecordedWeights
    <2>2. CASE i = id
      <3>1. SumFunctionOnSet(f, voted[id]) = SumFunctionOnSet(weights[id], voted[id])
        BY <1>3, <1>6, SumSame
      <3>2. \A b \in voted[id] \cup {a} : f[b] \in Int
        BY <1>1, <1>3
      <3>3. SumFunctionOnSet(f, voted[id] \cup {a}) = SumFunctionOnSet(f, voted[id]) + f[a]
        BY <1>0, <1>6, <3>2, SumAdd
      <3>4. SumFunctionOnSet(weights[id], voted[id])
              = proposals[id].votes_for + proposals[id].votes_against
        BY DEF VotesInv, TallyIsRecordedWeights
      <3>5. /\ proposals'[i] = p
            /\ SumFunctionOnSet(weights'[i], voted'[i]) = SumFunctionOnSet(f, voted[id] \cup {a})
        BY <1>4, <2>2
      <3>6. p.votes_for + p.votes_against = SumFunctionOnSet(f, voted[id]) + f[a]
        BY <1>2, <1>3, <3>1, <3>4
      <3> QED BY <3>3, <3>5, <3>6
    <2> QED BY <2>1, <2>2
  <1>8. \A i \in ProposalIds : IsFiniteSet(voted'[i])
    <2>1. IsFiniteSet(voted[id] \cup {a})
      BY <1>6, FS_AddElement
    <2>2. \A i \in ProposalIds : IsFiniteSet(voted[i])
      BY DEF VotesInv
    <2>3. ASSUME NEW i \in ProposalIds PROVE IsFiniteSet(voted'[i])
      <3>1. CASE i = id
        BY <1>4, <2>1, <3>1
      <3>2. CASE i # id
        BY <1>4, <2>2, <3>2
      <3> QED BY <3>1, <3>2
    <2> QED BY <2>3
  <1>9. \A i \in ProposalIds : i >= nextId' => voted'[i] = {}
    BY <1>0, <1>4 DEF VotesInv
  <1> QED BY <1>5, <1>7, <1>8, <1>9 DEF VotesInv, delegationVars

\* A tally changes no count.
LEMMA TallyVotes ==
    ASSUME VotesInv, NEW id \in ProposalIds, TallyExecute(id)
    PROVE  VotesInv'
  <1> DEFINE st == IF Passes(proposals[id]) THEN "Passed" ELSE "Rejected"
             p == [proposals[id] EXCEPT !.status = st]
  <1>0. /\ proposals' = [proposals EXCEPT ![id] = p]
        /\ approved' \subseteq approved \cup {proposals[id].asset_id}
        /\ UNCHANGED <<configVars, nextId, voted, weights, delegationVars, snapshotVars, balance, now>>
    BY DEF TallyExecute
  <1>1. proposals[id] \in Proposal
    BY DEF VotesInv, TypeOK
  <1>2. st \in {"Passed", "Rejected"}
    OBVIOUS
  <1> HIDE DEF st
  <1>3. /\ p \in Proposal
        /\ p.votes_for = proposals[id].votes_for
        /\ p.votes_against = proposals[id].votes_against
    BY <1>1, <1>2 DEF Proposal
  <1> HIDE DEF p
  <1>4. TypeOK'
    <2>1. proposals' \in [ProposalIds -> Proposal] /\ approved' \subseteq Nat
      BY <1>0, <1>1, <1>3 DEF VotesInv, TypeOK, Proposal
    <2> QED BY <1>0, <2>1 DEF VotesInv, TypeOK, configVars, delegationVars, snapshotVars
  <1>5. TallyIsRecordedWeights'
    <2>1. \A i \in ProposalIds : proposals'[i] = IF i = id THEN p ELSE proposals[i]
      BY <1>0 DEF VotesInv, TypeOK
    <2> QED BY <1>0, <1>3, <2>1 DEF VotesInv, TallyIsRecordedWeights
  <1> QED BY <1>0, <1>4, <1>5 DEF VotesInv, delegationVars

\* A new delegation adds one delegator, a revocation takes one out.
LEMMA DelegationVotes ==
    ASSUME VotesInv, NEW a \in Addr, (\E b \in Addr : Delegate(a, b)) \/ RevokeDelegationInternal(a)
    PROVE  VotesInv'
  <1>0. UNCHANGED <<configVars, voteVars, snapshotVars, balance, now>>
    BY DEF Delegate, RevokeDelegationInternal
  <1>1. /\ delegate' \in [Addr -> Addr \cup {None}] /\ delegatorsOf' \in [Addr -> SUBSET Addr]
        /\ \A c \in Addr : IsFiniteSet(delegatorsOf'[c])
    <2>1. ASSUME NEW b \in Addr, Delegate(a, b)
          PROVE  /\ delegate' \in [Addr -> Addr \cup {None}] /\ delegatorsOf' \in [Addr -> SUBSET Addr]
                 /\ \A c \in Addr : delegatorsOf'[c] \in {delegatorsOf[c], delegatorsOf[c] \cup {a}}
      BY <2>1 DEF Delegate, VotesInv, TypeOK
    <2>2. ASSUME RevokeDelegationInternal(a)
          PROVE  /\ delegate' \in [Addr -> Addr \cup {None}] /\ delegatorsOf' \in [Addr -> SUBSET Addr]
                 /\ \A c \in Addr : delegatorsOf'[c] \in {delegatorsOf[c], delegatorsOf[c] \ {a}}
      BY <2>2 DEF RevokeDelegationInternal, VotesInv, TypeOK
    <2>3. \A c \in Addr : /\ IsFiniteSet(delegatorsOf[c] \cup {a})
                          /\ IsFiniteSet(delegatorsOf[c] \ {a})
                          /\ IsFiniteSet(delegatorsOf[c])
      BY FS_AddElement, FS_RemoveElement DEF VotesInv
    <2> QED BY <2>1, <2>2, <2>3
  <1>2. TypeOK'
    BY <1>0, <1>1 DEF VotesInv, TypeOK, configVars, voteVars, snapshotVars
  <1>3. TallyIsRecordedWeights'
    BY <1>0 DEF VotesInv, TallyIsRecordedWeights, voteVars
  <1> QED BY <1>0, <1>1, <1>2, <1>3 DEF VotesInv, voteVars

\* The calls that touch neither a vote nor a delegation.
LEMMA OtherVotes ==
    ASSUME VotesInv, UNCHANGED <<voteVars, delegationVars>>,
           \/ \E a \in Addr, q \in Quorums, dep \in Deposits : Initialize(a, q, dep)
           \/ \E a \in Addr, p \in TemplateParams : RegisterTemplateVersion(a, p.template, p.version)
           \/ \E a \in Addr, d \in Durations : CreateSnapshot(a, d)
           \/ \E a \in Addr, n \in Limits : SetDelegationLimit(a, n)
           \/ \E a, b \in Addr, n \in TransferAmounts : TokenTransfer(a, b, n)
           \/ Tick
           \/ UNCHANGED vars
    PROVE  VotesInv'
  <1> USE GovernanceAssumption
  <1>1. TypeOK'
    <2> USE DEF VotesInv, TypeOK, voteVars, delegationVars
    <2>1. ASSUME NEW a \in Addr, NEW q \in Quorums, NEW dep \in Deposits, Initialize(a, q, dep)
          PROVE  TypeOK'
      BY <2>1 DEF Initialize, snapshotVars
    <2>2. ASSUME NEW a \in Addr, NEW p \in TemplateParams,
                 RegisterTemplateVersion(a, p.template, p.version)
          PROVE  TypeOK'
      <3>1. p.template \in Templates /\ p.version \in Nat
        OBVIOUS
      <3>2. templateVersion' \in [Templates -> Nat]
        BY <2>2, <3>1 DEF RegisterTemplateVersion
      <3> QED BY <2>2, <3>2 DEF RegisterTemplateVersion, snapshotVars
    <2>3. ASSUME NEW a \in Addr, NEW d \in Durations, CreateSnapshot(a, d)
          PROVE  TypeOK'
      <3> DEFINE s == [taker |-> a, balance |-> balance[a], expiry |-> now + d]
      <3>1. s \in [taker: Addr \cup {None}, balance: Nat, expiry: 0..MaxU64]
        BY <2>3 DEF CreateSnapshot
      <3>2. snapshots' = [snapshots EXCEPT ![nextSnapshot] = s]
        BY <2>3 DEF CreateSnapshot
      <3> HIDE DEF s
      <3>3. snapshots' \in [SnapshotIds -> [taker: Addr \cup {None}, balance: Nat, expiry: 0..MaxU64]]
        BY <3>1, <3>2
      <3>4. nextSnapshot' \in 1..(MaxSnapshots + 1)
        BY <2>3 DEF CreateSnapshot, SnapshotIds
      <3> QED BY <2>3, <3>3, <3>4 DEF CreateSnapshot, configVars
    <2>4. ASSUME NEW a \in Addr, NEW n \in Limits, SetDelegationLimit(a, n)
          PROVE  TypeOK'
      BY <2>4 DEF SetDelegationLimit, snapshotVars
    <2>5. ASSUME NEW a \in Addr, NEW b \in Addr, NEW n \in TransferAmounts, TokenTransfer(a, b, n)
          PROVE  TypeOK'
      <3>1. balance' \in [Addr -> Nat]
        <4>1. a # b /\ n \in 1..balance[a]
          BY <2>5 DEF TokenTransfer
        <4>2. balance' = [balance EXCEPT ![a] = @ - n, ![b] = @ + n]
          BY <2>5 DEF TokenTransfer
        <4>3. n \in Nat /\ balance[a] - n \in Nat /\ balance[b] + n \in Nat
          BY <4>1
        <4> QED BY <4>1, <4>2, <4>3
      <3> QED BY <2>5, <3>1 DEF TokenTransfer, configVars, snapshotVars
    <2>6. ASSUME Tick PROVE TypeOK'
      BY <2>6 DEF Tick, configVars, snapshotVars
    <2>7. ASSUME UNCHANGED vars PROVE TypeOK'
      BY <2>7 DEF vars, configVars, snapshotVars
    <2> QED BY <2>1, <2>2, <2>3, <2>4, <2>5, <2>6, <2>7
  <1>2. TallyIsRecordedWeights'
    BY DEF VotesInv, TallyIsRecordedWeights, voteVars
  <1> QED BY <1>1, <1>2 DEF VotesInv, voteVars, delegationVars

\* Every call keeps the tallies; that an id not yet given out has no proposal is
\* part of ApprovalInv.
LEMMA NextVotes ==
    ASSUME VotesInv, ApprovalInv, [Next]_vars
    PROVE  VotesInv'
  <1>0. \A i \in ProposalIds : i >= nextId => proposals[i].status = "Absent"
    BY DEF ApprovalInv, ProposalsShaped
  <1>1. ASSUME NEW a \in Addr, NEW asset \in AssetIds, NEW d \in Durations,
               CreateProposal(a, asset, d, None)
        PROVE  VotesInv'
    BY <1>1, CreateVotes, GovernanceAssumption
  <1>2. ASSUME NEW a \in Addr, NEW p \in TemplateParams, NEW d \in Durations,
               CreateProposalFromTemplate(a, p, d)
        PROVE  VotesInv'
    <2>1. TemplateAsset(p) \in Nat /\ p.template \in Templates
      BY GovernanceAssumption DEF TemplateAsset
    <2>2. CreateProposal(a, TemplateAsset(p), d, p.template)
      BY <1>2 DEF CreateProposalFromTemplate
    <2> QED BY <2>1, <2>2, CreateVotes
  <1>3. ASSUME NEW a \in Addr, NEW id \in ProposalIds, NEW yes \in BOOLEAN, Vote(a, id, yes)
        PROVE  VotesInv'
    <2>1. VotingPower(a) \in Int
      BY VotingPowerType
    <2> QED BY <1>0, <1>3, <2>1, RecordVotes DEF Vote
  <1>4. ASSUME NEW a \in Addr, NEW id \in ProposalIds, NEW sid \in SnapshotIds,
               NEW yes \in BOOLEAN, VoteWithSnapshot(a, id, sid, yes)
        PROVE  VotesInv'
    <2>1. snapshots[sid].balance \in Int
      BY DEF VotesInv, TypeOK
    <2> QED BY <1>0, <1>4, <2>1, RecordVotes DEF VoteWithSnapshot
  <1>5. ASSUME NEW id \in ProposalIds, TallyExecute(id) PROVE VotesInv'
    BY <1>5, TallyVotes
  <1>6. ASSUME NEW a \in Addr, NEW b \in Addr, Delegate(a, b) PROVE VotesInv'
    BY <1>6, DelegationVotes
  <1>7. ASSUME NEW a \in Addr, RevokeDelegationInternal(a) PROVE VotesInv'
    BY <1>7, DelegationVotes
  <1>8. ASSUME \/ \E a \in Addr, q \in Quorums, dep \in Deposits : Initialize(a, q, dep)
               \/ \E a \in Addr, p \in TemplateParams :
                    RegisterTemplateVersion(a, p.template, p.version)
               \/ \E a \in Addr, d \in Durations : CreateSnapshot(a, d)
               \/ \E a \in Addr, n \in Limits : SetDelegationLimit(a, n)
               \/ \E a, b \in Addr, n \in TransferAmounts : TokenTransfer(a, b, n)
               \/ Tick
               \/ UNCHANGED vars
        PROVE  VotesInv'
    <2>1. UNCHANGED <<voteVars, delegationVars>>
      BY <1>8 DEF Initialize, RegisterTemplateVersion, CreateSnapshot, SetDelegationLimit,
                  TokenTransfer, Tick, vars
    <2> QED BY <1>8, <2>1, OtherVotes
  <1> QED BY <1>1, <1>2, <1>3, <1>4, <1>5, <1>6, <1>7, <1>8
          DEF Next, RevokeDelegation, RevokeDelegationAdmin

\* The invariant of the votes, typing included.
THEOREM GovernanceVotesInv == Spec => []VotesInv
  <1>1. Init => VotesInv
    <2> SUFFICES ASSUME Init PROVE VotesInv
      OBVIOUS
    <2>1. NoProposal \in Proposal
      BY GovernanceAssumption DEF NoProposal, Proposal
    <2>2. NoSnapshot \in [taker: Addr \cup {None}, balance: Nat, expiry: 0..MaxU64]
      BY GovernanceAssumption DEF NoSnapshot
    <2>3. TypeOK
      BY <2>1, <2>2, GovernanceAssumption DEF Init, TypeOK
    <2>4. TallyIsRecordedWeights
      BY SumEmpty DEF Init, TallyIsRecordedWeights, NoProposal
    <2> QED BY <2>3, <2>4, FS_EmptySet DEF Init, VotesInv
  <1>2. VotesInv /\ ApprovalInv /\ [Next]_vars => VotesInv'
    BY NextVotes
  <1> QED BY <1>1, <1>2, GovernanceApprovalInv, PTL DEF Spec

(***************************************************************************)
(* For any supply and schedule of calls, every entry of the contract keeps *)
(* its type: no sum of balances leaves the integers.                       *)
(***************************************************************************)
THEOREM GovernanceTypeOK == Spec => []TypeOK
  <1>1. VotesInv => TypeOK
    BY DEF VotesInv
  <1> QED BY <1>1, GovernanceVotesInv, PTL

(***************************************************************************)
(* For any number of voters, delegations and transfers, the two counts of  *)
(* a proposal add up to the weights recorded for its voters.               *)
(***************************************************************************)
THEOREM GovernanceTally == Spec => []TallyIsRecordedWeights
  <1>1. VotesInv => TallyIsRecordedWeights
    BY DEF VotesInv
  <1> QED BY <1>1, GovernanceVotesInv, PTL

-----------------------------------------------------------------------------
(* Disputes                                                                *)

DisRow == [tx : AppTransactions, status : {"open", "under_review", "resolved"},
           resolution : AppResolutions \cup {None}]

\* What a request has read and goes on to save.
DisAsks(q, rows, lost) ==
    /\ q.pc \in {"review", "resolve"} =>
        /\ q.id \in DOMAIN rows /\ q.row \in DisRow /\ q.save \in DisRow
        /\ q.save.tx = rows[q.id].tx
        /\ q.pc = "review" => q.row.status # "resolved" /\ q.save.status # "resolved"
        /\ q.pc = "resolve" => q.save.status = "resolved"
    /\ q.pc = "file" =>
        /\ q.tx \in AppTransactions /\ q.read \in 0..Len(rows)
        /\ \A i \in DOMAIN rows : i <= q.read /\ rows[i].tx = q.tx /\ rows[i].status # "resolved" => i \in lost

\* A resolution released the escrow; a dispute whose escrow is released and
\* that is open again was saved over; two open ones overlapped, or one was
\* saved over.
DisHeld(rows, released, lost) ==
    \A i \in DOMAIN rows :
        /\ rows[i].status = "resolved" => released[i] = rows[i].resolution
        /\ rows[i].status # "resolved" /\ released[i] # None => i \in lost

DisSingle(rows, lost, twice) ==
    \A i, j \in DOMAIN rows :
        rows[i].tx = rows[j].tx /\ rows[i].status # "resolved" /\ rows[j].status # "resolved" /\ i # j =>
            rows[i].tx \in twice \/ \E k \in lost : k \in DOMAIN rows /\ rows[k].tx = rows[i].tx

DisInv ==
    /\ appDisputes \in Seq(DisRow) /\ appEscrow \in Seq(AppResolutions \cup {None})
    /\ Len(appEscrow) = Len(appDisputes)
    /\ DisHeld(appDisputes, appEscrow, appDisputeLost)
    /\ DisSingle(appDisputes, appDisputeLost, appDisputeRaced)
    /\ \A r \in AppDisputeReqs : DisAsks(appDisputeReq[r], appDisputes, appDisputeLost)
    /\ appDisputeReq = [r \in AppDisputeReqs |-> appDisputeReq[r]]

LEMMA DisReadInv ==
    ASSUME DisInv, NEW r \in AppDisputeReqs, NEW q, DisAsks(q, appDisputes, appDisputeLost),
           appDisputeReq' = [appDisputeReq EXCEPT ![r] = q],
           UNCHANGED <<appDisputes, appEscrow, appDisputeLost, appDisputeRaced>>
    PROVE  DisInv'
  <1>1. appDisputeReq' = [x \in AppDisputeReqs |-> appDisputeReq'[x]] /\ \A x \in AppDisputeReqs : DisAsks(appDisputeReq'[x], appDisputes, appDisputeLost)
    BY DEF DisInv
  <1> QED BY <1>1 DEF DisInv

LEMMA DisFileCheckInv ==
    ASSUME DisInv, NEW r \in AppDisputeReqs, NEW t \in AppTransactions, App!FileCheck(r, t) PROVE DisInv'
  <1> DEFINE q == [pc |-> "file", tx |-> t, read |-> Len(appDisputes)]
  <1>0. Len(appDisputes) \in Nat /\ \A i \in DOMAIN appDisputes : appDisputes[i] \in DisRow
    BY DEF DisInv
  <1>1. DisAsks(q, appDisputes, appDisputeLost)
    <2>1. \A i \in DOMAIN appDisputes : appDisputes[i].tx = t => appDisputes[i].status = "resolved"
      BY <1>0 DEF App!FileCheck, App!NoActive, App!ActiveFor, App!IsActive, App!DisputeIds, DisRow
    <2> QED BY <1>0, <2>1 DEF DisAsks
  <1>2. appDisputeReq' = [appDisputeReq EXCEPT ![r] = q] /\ UNCHANGED <<appDisputes, appEscrow, appDisputeLost, appDisputeRaced>>
    BY DEF App!FileCheck
  <1> HIDE DEF q
  <1> QED BY <1>1, <1>2, DisReadInv

LEMMA DisReviewInv ==
    ASSUME DisInv, NEW r \in AppDisputeReqs, NEW i \in App!DisputeIds, App!AdminReviewDispute(r, i) PROVE DisInv'
  <1> DEFINE save == [appDisputes[i] EXCEPT !.status = "under_review"]
             q == [pc |-> "review", id |-> i, row |-> appDisputes[i], save |-> save]
  <1>1. /\ appDisputes[i].status = "open"
        /\ appDisputeReq' = [appDisputeReq EXCEPT ![r] = q] /\ UNCHANGED <<appDisputes, appEscrow, appDisputeLost, appDisputeRaced>>
    BY DEF App!AdminReviewDispute, App!ReadDispute
  <1>2. appDisputes[i] \in DisRow /\ i \in DOMAIN appDisputes
    BY DEF DisInv, App!DisputeIds
  <1>3. save \in DisRow /\ save.tx = appDisputes[i].tx /\ save.status = "under_review"
    BY <1>2 DEF DisRow
  <1>4. DisAsks(q, appDisputes, appDisputeLost)
    <2> HIDE DEF save
    <2> QED BY <1>1, <1>2, <1>3 DEF DisAsks
  <1> HIDE DEF q
  <1> QED BY <1>1, <1>4, DisReadInv

LEMMA DisResolveInv ==
    ASSUME DisInv, NEW r \in AppDisputeReqs, NEW i \in App!DisputeIds, NEW how \in AppResolutions,
           App!AdminResolveDispute(r, i, how)
    PROVE  DisInv'
  <1> DEFINE save == [appDisputes[i] EXCEPT !.status = "resolved", !.resolution = how]
             q == [pc |-> "resolve", id |-> i, row |-> appDisputes[i], save |-> save]
  <1>1. appDisputeReq' = [appDisputeReq EXCEPT ![r] = q] /\ UNCHANGED <<appDisputes, appEscrow, appDisputeLost, appDisputeRaced>>
    BY DEF App!AdminResolveDispute, App!ReadDispute
  <1>2. appDisputes[i] \in DisRow /\ i \in DOMAIN appDisputes
    BY DEF DisInv, App!DisputeIds
  <1>3. save \in DisRow /\ save.tx = appDisputes[i].tx /\ save.status = "resolved"
    BY <1>2 DEF DisRow
  <1>4. DisAsks(q, appDisputes, appDisputeLost)
    <2> HIDE DEF save
    <2> QED BY <1>1, <1>2, <1>3 DEF DisAsks
  <1> HIDE DEF q
  <1> QED BY <1>1, <1>4, DisReadInv

LEMMA DisFileInv == ASSUME DisInv, NEW r \in AppDisputeReqs, App!FileCreate(r) PROVE DisInv'
  <1> DEFINE t == appDisputeReq[r].tx
             n == Len(appDisputes)
             row == [tx |-> t, status |-> "open", resolution |-> None]
  <1>1. /\ appDisputeReq[r].pc = "file"
        /\ appDisputes' = Append(appDisputes, row) /\ appEscrow' = Append(appEscrow, None)
        /\ appDisputeRaced' = IF \E i \in DOMAIN appDisputes : i > appDisputeReq[r].read /\ appDisputes[i].tx = t
                       THEN appDisputeRaced \cup {t} ELSE appDisputeRaced
        /\ appDisputeReq' = [appDisputeReq EXCEPT ![r] = App!Done] /\ appDisputeLost' = appDisputeLost
    BY DEF App!FileCreate, App!DisputeIds
  <1>2. DisAsks(appDisputeReq[r], appDisputes, appDisputeLost)
    BY DEF DisInv
  <1>3. /\ t \in AppTransactions
        /\ appDisputeReq[r].read \in Int
        /\ \A i \in DOMAIN appDisputes :
            i <= appDisputeReq[r].read /\ appDisputes[i].tx = t /\ appDisputes[i].status # "resolved" => i \in appDisputeLost
    BY <1>1, <1>2 DEF DisAsks
  <1>4. row \in DisRow /\ row.tx = t /\ row.status = "open"
    BY <1>3 DEF DisRow
  <1> HIDE DEF row
  <1>5. n \in Nat /\ appDisputes \in Seq(DisRow) /\ appEscrow \in Seq(AppResolutions \cup {None}) /\ Len(appEscrow) = n
    BY DEF DisInv
  <1>6. /\ appDisputes' \in Seq(DisRow) /\ appEscrow' \in Seq(AppResolutions \cup {None})
        /\ Len(appDisputes') = n + 1 /\ Len(appEscrow') = n + 1
        /\ DOMAIN appDisputes' = 1..(n + 1) /\ DOMAIN appDisputes = 1..n
        /\ appDisputes'[n + 1] = row /\ appEscrow'[n + 1] = None
        /\ \A i \in 1..n : appDisputes'[i] = appDisputes[i] /\ appEscrow'[i] = appEscrow[i]
    BY <1>1, <1>4, <1>5
  <1>7. DisHeld(appDisputes', appEscrow', appDisputeLost')
    BY <1>1, <1>4, <1>5, <1>6 DEF DisInv, DisHeld
  <1>8. DisSingle(appDisputes', appDisputeLost', appDisputeRaced')
    <2> SUFFICES ASSUME NEW i \in 1..(n + 1), NEW j \in 1..(n + 1),
                        appDisputes'[i].tx = appDisputes'[j].tx, appDisputes'[i].status # "resolved",
                        appDisputes'[j].status # "resolved", i # j
                 PROVE  \/ appDisputes'[i].tx \in appDisputeRaced'
                        \/ \E k \in appDisputeLost' : k \in 1..(n + 1) /\ appDisputes'[k].tx = appDisputes'[i].tx
      BY <1>6 DEF DisSingle
    <2>1. CASE i \in 1..n /\ j \in 1..n
      <3>1. \/ appDisputes[i].tx \in appDisputeRaced
            \/ \E k \in appDisputeLost : k \in 1..n /\ appDisputes[k].tx = appDisputes[i].tx
        BY <2>1, <1>6 DEF DisInv, DisSingle
      <3> QED BY <2>1, <3>1, <1>1, <1>5, <1>6
    <2>2. ASSUME NEW k \in 1..n, appDisputes[k].tx = t, appDisputes[k].status # "resolved"
          PROVE  t \in appDisputeRaced' \/ k \in appDisputeLost'
      <3>1. CASE k > appDisputeReq[r].read
        BY <3>1, <2>2, <1>1, <1>6
      <3>2. CASE k <= appDisputeReq[r].read
        BY <3>2, <2>2, <1>1, <1>3, <1>6
      <3> QED BY <3>1, <3>2, <1>3
    <2>3. CASE i = n + 1
      <3>1. /\ j \in 1..n /\ appDisputes'[i].tx = t
            /\ appDisputes[j].tx = t /\ appDisputes[j].status # "resolved"
        BY <2>3, <1>4, <1>5, <1>6
      <3>2. CASE t \in appDisputeRaced'
        BY <3>1, <3>2
      <3>3. CASE j \in appDisputeLost'
        <4>1. j \in 1..(n + 1) /\ appDisputes'[j].tx = appDisputes'[i].tx
          BY <3>1
        <4> QED BY <3>3, <4>1
      <3> QED BY <2>2, <3>1, <3>2, <3>3
    <2>4. CASE j = n + 1
      <3>1. /\ i \in 1..n /\ appDisputes'[i].tx = t
            /\ appDisputes[i].tx = t /\ appDisputes[i].status # "resolved"
        BY <2>4, <1>4, <1>5, <1>6
      <3>2. CASE t \in appDisputeRaced'
        BY <3>1, <3>2
      <3>3. CASE i \in appDisputeLost'
        BY <3>1, <3>3
      <3> QED BY <2>2, <3>1, <3>2, <3>3
    <2>5. (i \in 1..n \/ i = n + 1) /\ (j \in 1..n \/ j = n + 1)
      <3>1. n \in Nat
        BY <1>5
      <3> HIDE DEF n
      <3> QED BY ONLY <3>1, i \in 1..(n + 1), j \in 1..(n + 1)
    <2> QED BY ONLY <2>1, <2>3, <2>4, <2>5
  <1>9. \A x \in AppDisputeReqs : DisAsks(appDisputeReq'[x], appDisputes', appDisputeLost')
    <2> SUFFICES ASSUME NEW x \in AppDisputeReqs PROVE DisAsks(appDisputeReq'[x], appDisputes', appDisputeLost')
      OBVIOUS
    <2>1. CASE x = r
      BY <2>1, <1>1 DEF DisAsks, DisInv, App!Done
    <2>2. CASE x # r
      <3>1. appDisputeReq'[x] = appDisputeReq[x] /\ DisAsks(appDisputeReq[x], appDisputes, appDisputeLost)
        BY <2>2, <1>1 DEF DisInv
      <3> QED BY <3>1, <1>1, <1>5, <1>6 DEF DisAsks
    <2> QED BY <2>1, <2>2
  <1> QED BY <1>1, <1>6, <1>7, <1>8, <1>9 DEF DisInv

LEMMA DisSaveInv == ASSUME DisInv, NEW r \in AppDisputeReqs, App!SaveDispute(r) PROVE DisInv'
  <1> DEFINE q == appDisputeReq[r]
             d == q.id
  <1>1. /\ q.pc \in {"review", "resolve"}
        /\ appDisputes' = [appDisputes EXCEPT ![d] = q.save]
        /\ appEscrow' = IF q.pc = "resolve" THEN [appEscrow EXCEPT ![d] = q.save.resolution] ELSE appEscrow
        /\ appDisputeLost' = IF appDisputes[d] # q.row THEN appDisputeLost \cup {d} ELSE appDisputeLost
        /\ appDisputeReq' = [appDisputeReq EXCEPT ![r] = App!Done] /\ appDisputeRaced' = appDisputeRaced
    BY DEF App!SaveDispute, App!Released
  <1>2. DisAsks(q, appDisputes, appDisputeLost)
    BY DEF DisInv
  <1>3. /\ d \in DOMAIN appDisputes /\ q.row \in DisRow /\ q.save \in DisRow /\ q.save.tx = appDisputes[d].tx
        /\ q.pc = "review" => q.row.status # "resolved" /\ q.save.status # "resolved"
        /\ q.pc = "resolve" => q.save.status = "resolved"
    BY <1>1, <1>2 DEF DisAsks
  <1>4. appDisputes \in Seq(DisRow) /\ appEscrow \in Seq(AppResolutions \cup {None}) /\ Len(appEscrow) = Len(appDisputes)
    BY DEF DisInv
  <1>5. /\ appDisputes' \in Seq(DisRow) /\ Len(appDisputes') = Len(appDisputes)
        /\ DOMAIN appDisputes' = DOMAIN appDisputes
        /\ appDisputes'[d] = q.save /\ \A i \in DOMAIN appDisputes : i # d => appDisputes'[i] = appDisputes[i]
    BY <1>1, <1>3, <1>4
  <1>6. /\ appEscrow' \in Seq(AppResolutions \cup {None}) /\ Len(appEscrow') = Len(appEscrow)
        /\ DOMAIN appEscrow = DOMAIN appDisputes
        /\ appEscrow'[d] = (IF q.pc = "resolve" THEN q.save.resolution ELSE appEscrow[d])
        /\ \A i \in DOMAIN appDisputes : i # d => appEscrow'[i] = appEscrow[i]
    <2>1. q.save.resolution \in AppResolutions \cup {None} /\ DOMAIN appEscrow = DOMAIN appDisputes
      BY <1>3, <1>4 DEF DisRow
    <2>2. CASE q.pc = "resolve"
      <3>1. appEscrow' = [appEscrow EXCEPT ![d] = q.save.resolution]
        BY <2>2, <1>1
      <3> QED BY <3>1, <2>1, <2>2, <1>3, <1>4
    <2>3. CASE q.pc # "resolve"
      BY <2>1, <2>3, <1>1, <1>4
    <2> QED BY <2>2, <2>3
  <1>7. appDisputeLost \subseteq appDisputeLost' /\ (appDisputes[d] # q.row => d \in appDisputeLost')
    BY <1>1
  \* A save never opens a dispute unnoticed.
  <1>8. /\ \A i \in DOMAIN appDisputes : appDisputes'[i].tx = appDisputes[i].tx
        /\ \A i \in DOMAIN appDisputes :
            appDisputes'[i].status # "resolved" => appDisputes[i].status # "resolved" \/ i \in appDisputeLost'
    BY <1>1, <1>3, <1>5, <1>7
  <1> HIDE DEF q, d
  <1>9. DisHeld(appDisputes', appEscrow', appDisputeLost')
    <2> SUFFICES ASSUME NEW i \in DOMAIN appDisputes
                 PROVE  /\ appDisputes'[i].status = "resolved" => appEscrow'[i] = appDisputes'[i].resolution
                        /\ appDisputes'[i].status # "resolved" /\ appEscrow'[i] # None => i \in appDisputeLost'
      BY <1>5 DEF DisHeld
    <2>1. /\ appDisputes[i].status = "resolved" => appEscrow[i] = appDisputes[i].resolution
          /\ appDisputes[i].status # "resolved" /\ appEscrow[i] # None => i \in appDisputeLost
      BY DEF DisInv, DisHeld
    <2>2. CASE i = d
      BY <2>1, <2>2, <1>1, <1>3, <1>5, <1>6, <1>7, <1>8 DEF d
    <2>3. CASE i # d
      BY <2>1, <2>3, <1>5, <1>6, <1>7
    <2> QED BY <2>2, <2>3
  <1>10. DisSingle(appDisputes', appDisputeLost', appDisputeRaced')
    <2> SUFFICES ASSUME NEW i \in DOMAIN appDisputes, NEW j \in DOMAIN appDisputes,
                        appDisputes'[i].tx = appDisputes'[j].tx, appDisputes'[i].status # "resolved",
                        appDisputes'[j].status # "resolved", i # j
                 PROVE  \/ appDisputes'[i].tx \in appDisputeRaced'
                        \/ \E k \in appDisputeLost' : k \in DOMAIN appDisputes /\ appDisputes'[k].tx = appDisputes'[i].tx
      BY <1>5 DEF DisSingle
    <2>1. CASE appDisputes[i].status # "resolved" /\ appDisputes[j].status # "resolved"
      <3>1. \/ appDisputes[i].tx \in appDisputeRaced
            \/ \E k \in appDisputeLost : k \in DOMAIN appDisputes /\ appDisputes[k].tx = appDisputes[i].tx
        BY <2>1, <1>8 DEF DisInv, DisSingle
      <3> QED BY <3>1, <1>1, <1>7, <1>8
    <2> QED BY <2>1, <1>8
  <1>11. \A x \in AppDisputeReqs : DisAsks(appDisputeReq'[x], appDisputes', appDisputeLost')
    <2> SUFFICES ASSUME NEW x \in AppDisputeReqs PROVE DisAsks(appDisputeReq'[x], appDisputes', appDisputeLost')
      OBVIOUS
    <2>1. CASE x = r
      BY <2>1, <1>1 DEF DisAsks, DisInv, App!Done
    <2>2. CASE x # r
      <3>1. appDisputeReq'[x] = appDisputeReq[x] /\ DisAsks(appDisputeReq[x], appDisputes, appDisputeLost)
        BY <2>2, <1>1 DEF DisInv
      <3> QED BY <3>1, <1>5, <1>7, <1>8 DEF DisAsks
    <2> QED BY <2>1, <2>2
  <1>12. appDisputeReq' = [x \in AppDisputeReqs |-> appDisputeReq'[x]]
    BY <1>1 DEF DisInv
  <1> QED BY <1>4, <1>5, <1>6, <1>9, <1>10, <1>11, <1>12 DEF DisInv

LEMMA DisNextInv == DisInv /\ [App!DisputeNext]_(App!disputeVars) => DisInv'
  <1>1. ASSUME DisInv, UNCHANGED App!disputeVars PROVE DisInv'
    BY <1>1 DEF App!disputeVars, DisInv
  <1> QED BY <1>1, DisFileCheckInv, DisFileInv, DisReviewInv, DisResolveInv, DisSaveInv DEF App!DisputeNext

LEMMA DisCardinality == ASSUME NEW S PROVE App!Cardinality(S) = Cardinality(S)
  BY DEF App!Cardinality, Cardinality

LEMMA TwoElements ==
    ASSUME NEW S, IsFiniteSet(S), Cardinality(S) > 1
    PROVE  \E x, y \in S : x # y
  <1> SUFFICES ASSUME \A x, y \in S : x = y PROVE FALSE
    OBVIOUS
  <1>1. CASE S = {}
    BY <1>1, FS_EmptySet
  <1>2. ASSUME NEW x \in S PROVE FALSE
    <2>1. S = {x}
      BY <1>2
    <2> QED BY <2>1, FS_Singleton
  <1> QED BY <1>1, <1>2

LEMMA DisInvInit == App!DisputeInit => DisInv
  BY DEF App!DisputeInit, DisInv, DisAsks, DisHeld, DisSingle, App!New

\* A resolved dispute has its escrow released as its resolution says; money
\* is held twice, or leaves an open dispute, only after an overlap.
THEOREM EscrowFollows == App!DisputeSpec => []EscrowFollowsDispute
  <1>1. App!DisputeInit => DisInv
    BY DisInvInit
  <1>2. DisInv => EscrowFollowsDispute
    <2> SUFFICES ASSUME DisInv PROVE EscrowFollowsDispute
      OBVIOUS
    <2>1. \A i \in DOMAIN appDisputes : appDisputes[i] \in DisRow
      BY DEF DisInv
    <2>2. \A i \in DOMAIN appDisputes : App!IsActive(appDisputes[i]) <=> appDisputes[i].status # "resolved"
      BY <2>1 DEF App!IsActive, DisRow
    <2>3. ASSUME NEW t \in AppTransactions, App!Cardinality(App!ActiveFor(t)) > 1
          PROVE  t \in appDisputeRaced \/ \E i \in appDisputeLost : appDisputes[i].tx = t
      <3>1. IsFiniteSet(App!ActiveFor(t))
        <4>1. App!ActiveFor(t) \subseteq 1..Len(appDisputes) /\ Len(appDisputes) \in Nat
          BY DEF DisInv, App!ActiveFor, App!DisputeIds
        <4>2. IsFiniteSet(1..Len(appDisputes))
          BY <4>1, FS_Interval
        <4> QED BY <4>1, <4>2, FS_Subset
      <3>2. PICK i \in App!ActiveFor(t), j \in App!ActiveFor(t) : i # j
        BY <2>3, <3>1, DisCardinality, TwoElements
      <3>3. /\ i \in DOMAIN appDisputes /\ j \in DOMAIN appDisputes
            /\ appDisputes[i].tx = t /\ appDisputes[j].tx = t
            /\ appDisputes[i].status # "resolved" /\ appDisputes[j].status # "resolved"
        BY <2>2 DEF App!ActiveFor, App!DisputeIds
      <3> QED BY <3>2, <3>3 DEF DisInv, DisSingle
    <2> QED BY <2>2, <2>3 DEF DisInv, DisHeld, EscrowFollowsDispute, App!EscrowFollowsDispute, App!DisputeIds
  <1> QED BY <1>1, <1>2, DisNextInv, PTL DEF App!DisputeSpec

-----------------------------------------------------------------------------
(* Mail templates                                                          *)

TplRow == [language : MailLanguages, content : MailContents, version : Nat \ {0},
           active : BOOLEAN, deleted : BOOLEAN]

TplSnapshot == [template : Nat, version : Nat, content : MailContents]

TplValid(c) == c.used \subseteq c.declared

Snapshots(snaps, i) == {v \in snaps : v.template = i}

\* The snapshots of one row.
TplOf(snaps, i, row) ==
    /\ Cardinality(Snapshots(snaps, i)) = row.version
    /\ {v.version : v \in Snapshots(snaps, i)} = 1..row.version
    /\ [template |-> i, version |-> row.version, content |-> row.content] \in snaps

TplTyped(rows, snaps) ==
    /\ rows \in Seq(TplRow) /\ snaps \subseteq TplSnapshot /\ IsFiniteSet(snaps)
    /\ \A v \in snaps : v.template \in DOMAIN rows /\ TplValid(v.content)

TplHistory(rows, snaps) ==
    /\ TplTyped(rows, snaps)
    /\ \A i \in DOMAIN rows : TplOf(snaps, i, rows[i])

\* What a request saves has been validated, and is at most one version ahead.
TplAsks(q, rows) ==
    /\ q.pc = "create" => q.row \in TplRow /\ q.row.version = 1 /\ TplValid(q.row.content)
    /\ q.pc = "save" =>
        /\ q.template \in DOMAIN rows /\ q.row \in TplRow /\ TplValid(q.row.content)
        /\ q.row.version <= rows[q.template].version + 1

TplInv ==
    /\ TplHistory(mailTemplates, mailVersions)
    /\ mailEdits = [r \in Addr \cup {3} |-> mailEdits[r]]
    /\ \A r \in Addr \cup {3} : TplAsks(mailEdits[r], mailTemplates)
    /\ Mail!NoPlaceholderLeft

\* Rows of which only active and deleted have changed.
TplSame(rows, new) ==
    /\ new \in Seq(TplRow) /\ DOMAIN new = DOMAIN rows
    /\ \A i \in DOMAIN rows : new[i].version = rows[i].version /\ new[i].content = rows[i].content

LEMMA TplSameHistory ==
    ASSUME NEW rows, NEW new, NEW snaps, TplHistory(rows, snaps), TplSame(rows, new)
    PROVE  TplHistory(new, snaps)
  BY DEF TplHistory, TplTyped, TplOf, TplSame

LEMMA TplSameAsks ==
    ASSUME NEW rows, NEW new, NEW q, TplAsks(q, rows), TplSame(rows, new)
    PROVE  TplAsks(q, new)
  BY DEF TplAsks, TplSame

LEMMA TplSwitch ==
    ASSUME NEW row \in TplRow, NEW b \in BOOLEAN
    PROVE  /\ [row EXCEPT !.active = b] \in TplRow
           /\ [row EXCEPT !.active = b].version = row.version
           /\ [row EXCEPT !.active = b].content = row.content
  BY DEF TplRow

LEMMA TplEdited ==
    ASSUME NEW row \in TplRow, NEW c \in MailContents
    PROVE  /\ Mail!Edited(row, c) \in TplRow
           /\ Mail!Edited(row, c).content = c
           /\ Mail!Edited(row, c).version = row.version + 1
  <1> DEFINE n == row.version + 1
  <1>1. row.version \in Nat \ {0}
    BY DEF TplRow
  <1>2. n \in Nat \ {0}
    BY <1>1
  <1>3. Mail!Edited(row, c) = [row EXCEPT !.content = c, !.version = n]
    BY DEF Mail!Edited
  <1> HIDE DEF n
  <1>4. /\ [row EXCEPT !.content = c, !.version = n] \in TplRow
        /\ [row EXCEPT !.content = c, !.version = n].content = c
        /\ [row EXCEPT !.content = c, !.version = n].version = n
    BY <1>2 DEF TplRow
  <1> QED BY <1>3, <1>4 DEF n

LEMMA TplDeactivated ==
    ASSUME TplInv, NEW others
    PROVE  TplSame(mailTemplates, Mail!Saved(mailTemplates, Mail!Deactivated(others)))
  <1>1. mailTemplates \in Seq(TplRow)
    BY DEF TplInv, TplHistory, TplTyped
  <1>2. \A i \in DOMAIN mailTemplates :
            /\ [mailTemplates[i] EXCEPT !.active = FALSE] \in TplRow
            /\ [mailTemplates[i] EXCEPT !.active = FALSE].version = mailTemplates[i].version
            /\ [mailTemplates[i] EXCEPT !.active = FALSE].content = mailTemplates[i].content
    <2> SUFFICES ASSUME NEW i \in DOMAIN mailTemplates
                 PROVE  /\ [mailTemplates[i] EXCEPT !.active = FALSE] \in TplRow
                        /\ [mailTemplates[i] EXCEPT !.active = FALSE].version = mailTemplates[i].version
                        /\ [mailTemplates[i] EXCEPT !.active = FALSE].content = mailTemplates[i].content
      OBVIOUS
    <2>1. mailTemplates[i] \in TplRow
      BY <1>1
    <2> QED BY <2>1, TplSwitch
  <1> DEFINE off == [i \in DOMAIN mailTemplates |-> [mailTemplates[i] EXCEPT !.active = FALSE]]
             S == TplRow
  <1>3. \A i \in DOMAIN mailTemplates : off[i] \in S /\ off[i].version = mailTemplates[i].version
                                        /\ off[i].content = mailTemplates[i].content
    BY <1>2
  <1>4. Mail!Saved(mailTemplates, Mail!Deactivated(others))
            = [i \in DOMAIN mailTemplates |-> IF i \in others THEN off[i] ELSE mailTemplates[i]]
    BY DEF Mail!Saved, Mail!Deactivated
  <1>5. mailTemplates \in Seq(S)
    BY <1>1
  <1> HIDE DEF off, S
  <1>6. [i \in DOMAIN mailTemplates |-> IF i \in others THEN off[i] ELSE mailTemplates[i]] \in Seq(S)
    BY <1>3, <1>5
  <1>7. [i \in DOMAIN mailTemplates |-> IF i \in others THEN off[i] ELSE mailTemplates[i]] \in Seq(TplRow)
    BY <1>6 DEF S
  <1> QED BY <1>3, <1>4, <1>7 DEF TplSame

\* A step that only toggles rows, and leaves the request answered or alone.
LEMMA TplToggleInv ==
    ASSUME TplInv, TplSame(mailTemplates, mailTemplates'), mailVersions' = mailVersions,
           mailRendered' = mailRendered,
           mailEdits' = mailEdits \/ \E r \in Addr \cup {3} : mailEdits' = [mailEdits EXCEPT ![r] = Mail!Done]
    PROVE  TplInv'
  <1>1. TplHistory(mailTemplates', mailVersions')
    BY TplSameHistory DEF TplInv
  <1>2. /\ mailEdits' = [r \in Addr \cup {3} |-> mailEdits'[r]]
        /\ \A r \in Addr \cup {3} : mailEdits'[r] = mailEdits[r] \/ mailEdits'[r] = Mail!Done
    BY DEF TplInv
  <1>3. \A r \in Addr \cup {3} : TplAsks(mailEdits'[r], mailTemplates')
    <2> SUFFICES ASSUME NEW r \in Addr \cup {3} PROVE TplAsks(mailEdits'[r], mailTemplates')
      OBVIOUS
    <2>1. CASE mailEdits'[r] = mailEdits[r]
      BY <2>1, TplSameAsks DEF TplInv
    <2>2. CASE mailEdits'[r] = Mail!Done
      BY <2>2 DEF TplAsks, Mail!Done
    <2> QED BY <1>2, <2>1, <2>2
  <1>4. Mail!NoPlaceholderLeft'
    BY DEF TplInv, Mail!NoPlaceholderLeft
  <1> QED BY <1>1, <1>2, <1>3, <1>4 DEF TplInv

\* A request that begins.
LEMMA TplAskInv ==
    ASSUME TplInv, NEW r \in Addr \cup {3}, NEW q, TplAsks(q, mailTemplates),
           mailEdits' = [mailEdits EXCEPT ![r] = q],
           UNCHANGED <<mailTemplates, mailVersions, mailVariants, mailRendered>>
    PROVE  TplInv'
  <1>1. /\ mailEdits' = [x \in Addr \cup {3} |-> mailEdits'[x]]
        /\ \A x \in Addr \cup {3} : TplAsks(mailEdits'[x], mailTemplates)
    BY DEF TplInv
  <1>2. Mail!NoPlaceholderLeft'
    BY DEF TplInv, Mail!NoPlaceholderLeft
  <1> QED BY <1>1, <1>2 DEF TplInv

LEMMA TplCreateInv ==
    ASSUME TplInv, NEW r \in Addr \cup {3}, NEW l \in MailLanguages, NEW c \in MailContents,
           NEW b \in BOOLEAN, Mail!CreateTemplate(r, l, c, b)
    PROVE  TplInv'
  <1> DEFINE row == [language |-> l, content |-> c, version |-> 1, active |-> b, deleted |-> FALSE]
             others == IF b THEN Mail!Others(l, 0) ELSE {}
             q == [pc |-> "create", others |-> others, row |-> row]
  <1>1. /\ TplValid(c) /\ mailEdits' = [mailEdits EXCEPT ![r] = q]
        /\ UNCHANGED <<mailTemplates, mailVersions, mailVariants, mailRendered>>
    BY DEF Mail!CreateTemplate, Mail!ValidateTemplate, TplValid
  <1>2. row \in TplRow /\ row.version = 1 /\ row.content = c
    BY DEF TplRow
  <1>3. TplAsks(q, mailTemplates)
    <2> HIDE DEF row, others
    <2> QED BY <1>1, <1>2 DEF TplAsks
  <1> HIDE DEF q
  <1> QED BY <1>1, <1>3, TplAskInv

LEMMA TplEditInv ==
    ASSUME TplInv, NEW r \in Addr \cup {3}, NEW i, NEW c \in MailContents, TplValid(c), Mail!Edit(r, i, c)
    PROVE  TplInv'
  <1> DEFINE row == Mail!Edited(mailTemplates[i], c)
             q == [pc |-> "save", template |-> i, row |-> row]
  <1>1. /\ i \in DOMAIN mailTemplates /\ mailEdits' = [mailEdits EXCEPT ![r] = q]
        /\ UNCHANGED <<mailTemplates, mailVersions, mailVariants, mailRendered>>
    BY DEF Mail!Edit, Mail!Live
  <1>2. mailTemplates[i] \in TplRow
    BY <1>1 DEF TplInv, TplHistory, TplTyped
  <1>3. row \in TplRow /\ row.content = c /\ row.version = mailTemplates[i].version + 1
    BY <1>2, TplEdited
  <1>4. TplAsks(q, mailTemplates)
    <2>1. mailTemplates[i].version \in Nat
      BY <1>2 DEF TplRow
    <2> HIDE DEF row
    <2> QED BY <1>1, <1>3, <2>1 DEF TplAsks
  <1> HIDE DEF q
  <1> QED BY <1>1, <1>4, TplAskInv

\* A new snapshot of a row that has none of its version.
LEMMA TplSnapshotAdded ==
    ASSUME NEW rows, NEW snaps, TplHistory(rows, snaps), NEW i \in DOMAIN rows, NEW row \in TplRow,
           TplValid(row.content), row.version = rows[i].version + 1,
           NEW new, new \in Seq(TplRow), DOMAIN new = DOMAIN rows, new[i] = row,
           \A j \in DOMAIN rows : j # i => new[j] = rows[j]
    PROVE  TplHistory(new, snaps \cup {[template |-> i, version |-> row.version, content |-> row.content]})
  <1> DEFINE v == [template |-> i, version |-> row.version, content |-> row.content]
             all2 == snaps \cup {v}
  <1>1. /\ rows \in Seq(TplRow) /\ snaps \subseteq TplSnapshot /\ IsFiniteSet(snaps)
        /\ i \in Nat /\ rows[i] \in TplRow
    BY DEF TplHistory, TplTyped
  <1>2. v \in TplSnapshot /\ v.template = i /\ v.version = row.version /\ v.content = row.content
    BY <1>1 DEF TplSnapshot, TplRow
  <1>3. TplTyped(new, all2)
    BY <1>1, <1>2, FS_AddElement DEF TplHistory, TplTyped
  <1>4. \A j \in DOMAIN rows : j # i => Snapshots(all2, j) = Snapshots(snaps, j)
    BY <1>2 DEF Snapshots
  <1>5. Snapshots(all2, i) = Snapshots(snaps, i) \cup {v}
    BY <1>2 DEF Snapshots
  <1>6. /\ Cardinality(Snapshots(snaps, i)) = rows[i].version
        /\ {w.version : w \in Snapshots(snaps, i)} = 1..rows[i].version
    BY DEF TplHistory, TplOf
  <1>7. rows[i].version \in Nat
    BY <1>1 DEF TplRow
  <1>8. v \notin Snapshots(snaps, i)
    <2> SUFFICES ASSUME v \in Snapshots(snaps, i) PROVE FALSE
      OBVIOUS
    <2> HIDE DEF v
    <2>1. v.version \in {w.version : w \in Snapshots(snaps, i)}
      OBVIOUS
    <2>2. v.version \in 1..rows[i].version
      BY <2>1, <1>6
    <2>3. v.version = rows[i].version + 1
      BY <1>2
    <2> QED BY <2>2, <2>3, <1>7
  <1>9. IsFiniteSet(Snapshots(snaps, i))
    BY <1>1, FS_Subset DEF Snapshots
  <1>10. Cardinality(Snapshots(all2, i)) = row.version
    <2> HIDE DEF v, all2
    <2>1. Cardinality(Snapshots(snaps, i) \cup {v}) = Cardinality(Snapshots(snaps, i)) + 1
      BY <1>8, <1>9, FS_AddElement
    <2> QED BY <1>5, <1>6, <2>1
  <1>11. {w.version : w \in Snapshots(all2, i)} = 1..row.version
    <2>1. {w.version : w \in Snapshots(all2, i)} = {w.version : w \in Snapshots(snaps, i)} \cup {row.version}
      BY <1>2, <1>5
    <2>2. 1..rows[i].version \cup {row.version} = 1..row.version
      BY <1>7
    <2> QED BY <1>6, <2>1, <2>2
  <1>12. TplOf(all2, i, row)
    BY <1>10, <1>11 DEF TplOf
  <1>13. \A j \in DOMAIN rows : j # i => TplOf(all2, j, rows[j])
    BY <1>4 DEF TplHistory, TplOf
  <1> HIDE DEF all2
  <1>14. TplHistory(new, all2)
    BY <1>3, <1>12, <1>13 DEF TplHistory
  <1> QED BY <1>14 DEF all2

\* A new row with its first snapshot.
LEMMA TplRowAdded ==
    ASSUME NEW rows, NEW snaps, TplHistory(rows, snaps), NEW row \in TplRow,
           TplValid(row.content), row.version = 1
    PROVE  TplHistory(Append(rows, row),
                      snaps \cup {[template |-> Len(rows) + 1, version |-> 1, content |-> row.content]})
  <1> DEFINE n == Len(rows)
             v == [template |-> n + 1, version |-> 1, content |-> row.content]
             all2 == snaps \cup {v}
             new == Append(rows, row)
  <1>1. /\ rows \in Seq(TplRow) /\ snaps \subseteq TplSnapshot /\ IsFiniteSet(snaps)
        /\ n \in Nat /\ DOMAIN rows = 1..n
        /\ \A w \in snaps : w.template \in DOMAIN rows /\ TplValid(w.content)
    BY DEF TplHistory, TplTyped
  <1>2. /\ new \in Seq(TplRow) /\ DOMAIN new = 1..(n + 1) /\ new[n + 1] = row
        /\ \A j \in 1..n : new[j] = rows[j]
    BY <1>1
  <1>3. v \in TplSnapshot /\ v.template = n + 1 /\ v.version = 1 /\ v.content = row.content
    BY <1>1 DEF TplSnapshot, TplRow
  <1> HIDE DEF new, v
  <1>4. TplTyped(new, all2)
    <2>1. IsFiniteSet(all2)
      BY <1>1, FS_AddElement
    <2>2. \A w \in all2 : w.template \in 1..(n + 1) /\ TplValid(w.content)
      BY <1>1, <1>3
    <2> QED BY <1>1, <1>2, <1>3, <2>1, <2>2 DEF TplTyped
  <1>5. \A j \in 1..n : Snapshots(all2, j) = Snapshots(snaps, j)
    BY <1>1, <1>3 DEF Snapshots
  <1>6. Snapshots(all2, n + 1) = {v}
    BY <1>1, <1>3 DEF Snapshots
  <1>7. TplOf(all2, n + 1, row)
    <2>1. Cardinality({v}) = 1
      BY FS_Singleton
    <2>2. {w.version : w \in {v}} = 1..1
      BY <1>3
    <2> QED BY <1>6, <2>1, <2>2 DEF TplOf, v
  <1>8. \A j \in 1..n : TplOf(all2, j, rows[j])
    BY <1>1, <1>5 DEF TplHistory, TplOf
  <1>9. TplHistory(new, all2)
    <2> HIDE DEF all2
    <2> QED BY <1>1, <1>2, <1>4, <1>7, <1>8 DEF TplHistory
  <1> QED BY <1>9 DEF new, v

LEMMA TplCreateCommitInv ==
    ASSUME TplInv, NEW r \in Addr \cup {3}, Mail!CreateCommit(r) PROVE TplInv'
  <1> DEFINE q == mailEdits[r]
             rows == Mail!Saved(mailTemplates, Mail!Deactivated(q.others))
  <1>1. /\ q.pc = "create" /\ mailTemplates' = Append(rows, q.row)
        /\ mailVersions' = mailVersions
                \cup {[template |-> Len(mailTemplates) + 1, version |-> 1, content |-> q.row.content]}
        /\ mailEdits' = [mailEdits EXCEPT ![r] = Mail!Done] /\ mailRendered' = mailRendered
    BY DEF Mail!CreateCommit
  <1>2. q.row \in TplRow /\ q.row.version = 1 /\ TplValid(q.row.content)
    BY <1>1 DEF TplInv, TplAsks
  <1>3. TplSame(mailTemplates, rows)
    BY TplDeactivated
  <1> HIDE DEF rows
  <1>4. Len(rows) = Len(mailTemplates) /\ DOMAIN rows = DOMAIN mailTemplates /\ rows \in Seq(TplRow)
    BY <1>3 DEF TplSame, TplInv, TplHistory, TplTyped
  <1>5. TplHistory(rows, mailVersions)
    BY <1>3, TplSameHistory DEF TplInv
  <1>6. TplHistory(mailTemplates', mailVersions')
    BY <1>1, <1>2, <1>4, <1>5, TplRowAdded
  <1>7. /\ mailEdits' = [x \in Addr \cup {3} |-> mailEdits'[x]]
        /\ \A x \in Addr \cup {3} : mailEdits'[x] = mailEdits[x] \/ mailEdits'[x] = Mail!Done
    BY <1>1 DEF TplInv
  <1>8. \A x \in Addr \cup {3} : TplAsks(mailEdits'[x], mailTemplates')
    <2> SUFFICES ASSUME NEW x \in Addr \cup {3} PROVE TplAsks(mailEdits'[x], mailTemplates')
      OBVIOUS
    <2>1. CASE mailEdits'[x] = mailEdits[x]
      <3>1. TplAsks(mailEdits[x], rows)
        BY <1>3, TplSameAsks DEF TplInv
      <3>2. \A i \in DOMAIN rows : i \in DOMAIN mailTemplates' /\ mailTemplates'[i] = rows[i]
        BY <1>1, <1>2, <1>4
      <3> QED BY <2>1, <3>1, <3>2 DEF TplAsks
    <2>2. CASE mailEdits'[x] = Mail!Done
      BY <2>2 DEF TplAsks, Mail!Done
    <2> QED BY <1>7, <2>1, <2>2
  <1>9. Mail!NoPlaceholderLeft'
    BY <1>1 DEF TplInv, Mail!NoPlaceholderLeft
  <1> QED BY <1>6, <1>7, <1>8, <1>9 DEF TplInv

LEMMA TplSaveInv ==
    ASSUME TplInv, NEW r \in Addr \cup {3}, Mail!SaveCommit(r) PROVE TplInv'
  <1> DEFINE q == mailEdits[r]
             i == q.template
             v == [template |-> i, version |-> q.row.version, content |-> q.row.content]
  <1>1. /\ q.pc = "save" /\ mailEdits' = [mailEdits EXCEPT ![r] = Mail!Done]
        /\ mailRendered' = mailRendered
    BY DEF Mail!SaveCommit
  <1>2. /\ i \in DOMAIN mailTemplates /\ q.row \in TplRow /\ TplValid(q.row.content)
        /\ q.row.version <= mailTemplates[i].version + 1
    BY <1>1 DEF TplInv, TplAsks
  <1>3. \/ /\ Mail!Unused(i, q.row.version)
           /\ mailTemplates' = [mailTemplates EXCEPT ![i] = q.row]
           /\ mailVersions' = mailVersions \cup {v}
        \/ UNCHANGED <<mailTemplates, mailVersions>>
    BY DEF Mail!SaveCommit
  <1>4. mailTemplates \in Seq(TplRow) /\ mailTemplates[i] \in TplRow
    BY <1>2 DEF TplInv, TplHistory, TplTyped
  <1>5. CASE UNCHANGED <<mailTemplates, mailVersions>>
    <2>1. TplSame(mailTemplates, mailTemplates')
      BY <1>4, <1>5 DEF TplSame
    <2> QED BY <1>1, <1>5, <2>1, TplToggleInv
  <1>6. ASSUME Mail!Unused(i, q.row.version),
               mailTemplates' = [mailTemplates EXCEPT ![i] = q.row],
               mailVersions' = mailVersions \cup {v}
        PROVE  TplInv'
    <2>1. q.row.version \in Nat \ {0} /\ mailTemplates[i].version \in Nat \ {0}
      BY <1>2, <1>4 DEF TplRow
    \* Every version up to the row's is taken.
    <2>2. q.row.version \notin 1..mailTemplates[i].version
      <3>1. 1..mailTemplates[i].version = {w.version : w \in Snapshots(mailVersions, i)}
        BY <1>2 DEF TplInv, TplHistory, TplOf
      <3>2. \A w \in Snapshots(mailVersions, i) : w.version # q.row.version
        BY <1>6 DEF Mail!Unused, Snapshots
      <3> HIDE DEF q, i
      <3> QED BY <3>1, <3>2
    <2>3. q.row.version = mailTemplates[i].version + 1
      BY <1>2, <2>1, <2>2
    <2>4. /\ mailTemplates' \in Seq(TplRow) /\ DOMAIN mailTemplates' = DOMAIN mailTemplates
          /\ mailTemplates'[i] = q.row
          /\ \A j \in DOMAIN mailTemplates : j # i => mailTemplates'[j] = mailTemplates[j]
      BY <1>2, <1>4, <1>6
    <2>5. TplHistory(mailTemplates, mailVersions)
      BY DEF TplInv
    <2>6. TplHistory(mailTemplates', mailVersions')
      <3> HIDE DEF q, i
      <3>1. TplHistory(mailTemplates', mailVersions \cup
                {[template |-> i, version |-> q.row.version, content |-> q.row.content]})
        BY <1>2, <2>3, <2>4, <2>5, TplSnapshotAdded
      <3> QED BY <3>1, <1>6
    <2>7. /\ mailEdits' = [x \in Addr \cup {3} |-> mailEdits'[x]]
          /\ \A x \in Addr \cup {3} : mailEdits'[x] = mailEdits[x] \/ mailEdits'[x] = Mail!Done
      BY <1>1 DEF TplInv
    <2>8. \A x \in Addr \cup {3} : TplAsks(mailEdits'[x], mailTemplates')
      <3> SUFFICES ASSUME NEW x \in Addr \cup {3} PROVE TplAsks(mailEdits'[x], mailTemplates')
        OBVIOUS
      <3>1. CASE mailEdits'[x] = mailEdits[x]
        <4>1. TplAsks(mailEdits[x], mailTemplates)
          BY DEF TplInv
        <4>2. /\ \A j \in DOMAIN mailTemplates : mailTemplates[j].version <= mailTemplates'[j].version
              /\ \A j \in DOMAIN mailTemplates : mailTemplates[j].version \in Nat
              /\ \A j \in DOMAIN mailTemplates : mailTemplates'[j].version \in Nat
          <5>1. \A j \in DOMAIN mailTemplates : mailTemplates[j] \in TplRow /\ mailTemplates'[j] \in TplRow
            BY <1>4, <2>4
          <5>2. \A j \in DOMAIN mailTemplates : mailTemplates[j].version \in Nat /\ mailTemplates'[j].version \in Nat
            BY <5>1 DEF TplRow
          <5>3. mailTemplates[i].version <= mailTemplates'[i].version
            BY <2>1, <2>3, <2>4
          <5> HIDE DEF i
          <5>4. \A j \in DOMAIN mailTemplates : mailTemplates[j].version <= mailTemplates'[j].version
            BY <2>4, <5>2, <5>3
          <5> QED BY <5>2, <5>4
        <4> DEFINE e == mailEdits[x]
        <4>3. e.pc = "create" => e.row \in TplRow /\ e.row.version = 1 /\ TplValid(e.row.content)
          BY <4>1 DEF TplAsks
        <4>4. ASSUME e.pc = "save"
              PROVE  /\ e.template \in DOMAIN mailTemplates' /\ e.row \in TplRow /\ TplValid(e.row.content)
                     /\ e.row.version <= mailTemplates'[e.template].version + 1
          <5>1. /\ e.template \in DOMAIN mailTemplates /\ e.row \in TplRow /\ TplValid(e.row.content)
                /\ e.row.version <= mailTemplates[e.template].version + 1
            BY <4>1, <4>4 DEF TplAsks
          <5>2. e.row.version \in Nat
            BY <5>1 DEF TplRow
          <5>3. /\ mailTemplates[e.template].version <= mailTemplates'[e.template].version
                /\ mailTemplates[e.template].version \in Nat /\ mailTemplates'[e.template].version \in Nat
            BY <4>2, <5>1
          <5> HIDE DEF e
          <5> QED BY <5>1, <5>2, <5>3, <2>4
        <4> QED BY <3>1, <4>3, <4>4 DEF TplAsks
      <3>2. CASE mailEdits'[x] = Mail!Done
        BY <3>2 DEF TplAsks, Mail!Done
      <3> QED BY <2>7, <3>1, <3>2
    <2>9. Mail!NoPlaceholderLeft'
      BY <1>1 DEF TplInv, Mail!NoPlaceholderLeft
    <2> QED BY <2>6, <2>7, <2>8, <2>9 DEF TplInv
  <1> QED BY <1>3, <1>5, <1>6

LEMMA TplActivateInv ==
    ASSUME TplInv, NEW r \in Addr \cup {3}, NEW i, Mail!ActivateTemplate(r, i) PROVE TplInv'
  <1> DEFINE q == [pc |-> "activate", template |-> i, others |-> Mail!Others(mailTemplates[i].language, i)]
  <1>1. /\ mailEdits' = [mailEdits EXCEPT ![r] = q]
        /\ UNCHANGED <<mailTemplates, mailVersions, mailVariants, mailRendered>>
    BY DEF Mail!ActivateTemplate
  <1>2. TplAsks(q, mailTemplates)
    BY DEF TplAsks
  <1> HIDE DEF q
  <1> QED BY <1>1, <1>2, TplAskInv

LEMMA TplActivateCommitInv ==
    ASSUME TplInv, NEW r \in Addr \cup {3}, Mail!ActivateCommit(r) PROVE TplInv'
  <1> DEFINE q == mailEdits[r]
             live == {j \in {q.template} : ~mailTemplates[q.template].deleted}
             off == Mail!Saved(mailTemplates, Mail!Deactivated(q.others))
             on == [j \in live |-> [mailTemplates[j] EXCEPT !.active = TRUE]]
             S == TplRow
  <1>1. /\ mailTemplates' = Mail!Saved(off, on) /\ mailVersions' = mailVersions
        /\ mailEdits' = [mailEdits EXCEPT ![r] = Mail!Done] /\ mailRendered' = mailRendered
    BY DEF Mail!ActivateCommit
  <1>2. TplSame(mailTemplates, off) /\ mailTemplates \in Seq(TplRow)
    BY TplDeactivated DEF TplInv, TplHistory, TplTyped
  <1>3. \A j \in DOMAIN mailTemplates : j \in live =>
            on[j] \in S /\ on[j].version = mailTemplates[j].version /\ on[j].content = mailTemplates[j].content
    <2> SUFFICES ASSUME NEW j \in DOMAIN mailTemplates, j \in live
                 PROVE  on[j] \in S /\ on[j].version = mailTemplates[j].version
                        /\ on[j].content = mailTemplates[j].content
      OBVIOUS
    <2>1. mailTemplates[j] \in TplRow /\ on[j] = [mailTemplates[j] EXCEPT !.active = TRUE]
      BY <1>2
    <2> HIDE DEF on
    <2> QED BY <2>1, TplSwitch DEF S
  <1>4. DOMAIN on = live
    OBVIOUS
  <1>5. mailTemplates' = [j \in DOMAIN off |-> IF j \in live THEN on[j] ELSE off[j]]
    BY <1>1, <1>4 DEF Mail!Saved
  <1>6. off \in Seq(S) /\ DOMAIN off = DOMAIN mailTemplates
    BY <1>2 DEF TplSame
  <1>7. \A j \in DOMAIN mailTemplates : off[j].version = mailTemplates[j].version
                                        /\ off[j].content = mailTemplates[j].content
    BY <1>2 DEF TplSame
  <1> HIDE DEF off, on, live, S
  <1>8. mailTemplates' \in Seq(S) /\ DOMAIN mailTemplates' = DOMAIN mailTemplates
    BY <1>3, <1>5, <1>6
  <1>9. TplSame(mailTemplates, mailTemplates')
    BY <1>3, <1>5, <1>6, <1>7, <1>8 DEF TplSame, S
  <1> QED BY <1>1, <1>9, TplToggleInv

LEMMA TplDeleteInv == ASSUME TplInv, NEW i, Mail!DeleteTemplate(i) PROVE TplInv'
  <1>1. /\ i \in DOMAIN mailTemplates /\ mailTemplates' = [mailTemplates EXCEPT ![i].deleted = TRUE]
        /\ UNCHANGED <<mailVersions, mailEdits, mailRendered>>
    BY DEF Mail!DeleteTemplate, Mail!Live
  <1>2. mailTemplates \in Seq(TplRow) /\ mailTemplates[i] \in TplRow
    BY <1>1 DEF TplInv, TplHistory, TplTyped
  <1> DEFINE row == [mailTemplates[i] EXCEPT !.deleted = TRUE]
  <1>3. row \in TplRow /\ row.version = mailTemplates[i].version /\ row.content = mailTemplates[i].content
    BY <1>2 DEF TplRow
  <1>4. mailTemplates' = [mailTemplates EXCEPT ![i] = row]
    BY <1>1
  <1> HIDE DEF row
  <1>5. /\ mailTemplates' \in Seq(TplRow) /\ DOMAIN mailTemplates' = DOMAIN mailTemplates
        /\ mailTemplates'[i] = row /\ \A j \in DOMAIN mailTemplates : j # i => mailTemplates'[j] = mailTemplates[j]
    <2> DEFINE S == TplRow
    <2>1. row \in S /\ mailTemplates \in Seq(S) /\ i \in DOMAIN mailTemplates
      BY <1>1, <1>2, <1>3
    <2> HIDE DEF S
    <2>2. /\ mailTemplates' \in Seq(S) /\ DOMAIN mailTemplates' = DOMAIN mailTemplates
          /\ mailTemplates'[i] = row /\ \A j \in DOMAIN mailTemplates : j # i => mailTemplates'[j] = mailTemplates[j]
      BY <1>4, <2>1
    <2> QED BY <2>2 DEF S
  <1>6. TplSame(mailTemplates, mailTemplates')
    BY <1>3, <1>5 DEF TplSame
  <1> QED BY <1>1, <1>6, TplToggleInv

LEMMA TplRenderInv ==
    ASSUME TplInv, NEW l, NEW given, Mail!Render(l, given) PROVE TplInv'
  <1>1. PICK i \in Mail!activeTemplate(l) :
            /\ mailTemplates[i].content.declared \subseteq given
            /\ \/ mailRendered' = [variant |-> FALSE, left |-> mailTemplates[i].content.used \ given]
               \/ \E v \in mailVariants : mailRendered' = [variant |-> TRUE, left |-> v.used \ given]
            /\ UNCHANGED <<mailTemplates, mailVersions, mailVariants, mailEdits>>
    BY DEF Mail!Render
  <1>2. i \in DOMAIN mailTemplates
    BY DEF Mail!activeTemplate, Mail!Active, Mail!Live
  <1>3. TplValid(mailTemplates[i].content)
    <2> DEFINE v == [template |-> i, version |-> mailTemplates[i].version, content |-> mailTemplates[i].content]
    <2>1. v \in mailVersions
      BY <1>2 DEF TplInv, TplHistory, TplOf
    <2>2. TplValid(v.content)
      BY <2>1 DEF TplInv, TplHistory, TplTyped
    <2> QED BY <2>2
  <1>4. mailTemplates[i].content.used \ given = {}
    BY <1>1, <1>3 DEF TplValid
  <1>5. Mail!NoPlaceholderLeft'
    BY <1>1, <1>4 DEF Mail!NoPlaceholderLeft
  <1> QED BY <1>1, <1>5 DEF TplInv

LEMMA TplNextInv == TplInv /\ [Mail!TemplateNext]_(Mail!templateVars) => TplInv'
  <1>1. ASSUME TplInv, UNCHANGED Mail!templateVars PROVE TplInv'
    BY <1>1 DEF Mail!templateVars, TplInv, Mail!NoPlaceholderLeft
  <1>2. ASSUME TplInv, NEW r \in Addr \cup {3}, NEW i, NEW c \in MailContents, Mail!UpdateTemplate(r, i, c)
        PROVE  TplInv'
    BY <1>2, TplEditInv DEF Mail!UpdateTemplate, Mail!ValidateTemplate, TplValid
  <1>3. ASSUME TplInv, NEW r \in Addr \cup {3}, NEW v \in mailVersions, Mail!RollbackToVersion(r, v)
        PROVE  TplInv'
    <2>1. v.content \in MailContents /\ TplValid(v.content)
      BY <1>3 DEF TplInv, TplHistory, TplTyped, TplSnapshot
    <2> QED BY <1>3, <2>1, TplEditInv DEF Mail!RollbackToVersion
  <1>4. ASSUME TplInv, NEW i, NEW used, Mail!CreateVariant(i, used) PROVE TplInv'
    BY <1>4 DEF Mail!CreateVariant, TplInv, Mail!NoPlaceholderLeft
  <1> QED BY <1>1, <1>2, <1>3, <1>4, TplCreateInv, TplCreateCommitInv, TplSaveInv, TplActivateInv,
             TplActivateCommitInv, TplDeleteInv, TplRenderInv DEF Mail!TemplateNext

LEMMA TplInvInit == Mail!TemplateInit => TplInv
  BY FS_EmptySet DEF Mail!TemplateInit, TplInv, TplHistory, TplTyped, TplOf, TplAsks, Mail!New, Mail!NoPlaceholderLeft

LEMMA MailCardinality == ASSUME NEW S PROVE Mail!Cardinality(S) = Cardinality(S)
  BY DEF Mail!Cardinality, Cardinality

\* Every version of a template is kept, whatever edits and rollbacks overlap,
\* and what is rendered from a validated one has no placeholder left.
THEOREM TemplatesKept == Mail!TemplateSpec => []TemplatesAreKept
  <1>1. Mail!TemplateInit => TplInv
    BY TplInvInit
  <1>2. TplInv => TemplatesAreKept
    <2> SUFFICES ASSUME TplInv PROVE TemplatesAreKept
      OBVIOUS
    <2>1. \A S : Mail!Cardinality(S) = Cardinality(S)
      BY MailCardinality
    <2>2. \A i \in DOMAIN mailTemplates : TplOf(mailVersions, i, mailTemplates[i])
      BY DEF TplInv, TplHistory
    <2>3. Mail!HistoryIsComplete
      BY <2>1, <2>2 DEF Mail!HistoryIsComplete, TplOf, Snapshots
    <2> QED BY <2>3 DEF TplInv, TemplatesAreKept
  <1> QED BY <1>1, <1>2, TplNextInv, PTL DEF Mail!TemplateSpec

-----------------------------------------------------------------------------
(* The off-chain multi-signature endpoints                                 *)

WalRow == [sign_count : Nat, status : {"pending", "approved", "executed"}]

WalOwner(w, u) == w # None /\ \E i \in DOMAIN w.owners : w.owners[i] = u

\* A row counts no more than the signers s, and is decided only with them.
WalOK(row, s, w) ==
    /\ row.sign_count <= Cardinality(s)
    /\ row.status # "pending" => Cardinality(s) >= w.threshold

WalRequest ==
    [pc : {"check", "insert", "save", "execute"}, by : AppUsers, id : 1..AppMaxProposals, row : WalRow]

\* The copy a request has is covered by the signatures there are, and once
\* its own is inserted there is one more than the copy counts.
WalAsks(q, props, sigs, w) ==
    \/ q \in {App!New, App!Done}
    \/ /\ q \in WalRequest /\ q.id \in DOMAIN props
       /\ WalOK(q.row, sigs[q.id], w) /\ WalOwner(w, q.by)
       /\ q.pc = "save" => q.row.sign_count + 1 <= Cardinality(sigs[q.id])
       /\ q.pc = "execute" => q.row.status # "pending"

WalTables(props, sigs, w) ==
    /\ w \in [owners : AppOwnerLists, threshold : Nat] \cup {None}
    /\ props \in Seq(WalRow) /\ Len(props) <= AppMaxProposals
    /\ props # <<>> => w # None
    /\ sigs \in [1..AppMaxProposals -> SUBSET AppUsers]
    /\ \A p \in 1..AppMaxProposals : IsFiniteSet(sigs[p]) /\ \A u \in sigs[p] : WalOwner(w, u)
    /\ \A p \in DOMAIN props : WalOK(props[p], sigs[p], w)

WalAsked(rq, props, sigs, w) ==
    /\ DOMAIN rq = AppReqs
    /\ \A r \in AppReqs : WalAsks(rq[r], props, sigs, w)

WalInv ==
    /\ WalTables(appProposals, appSignatures, appWallet)
    /\ WalAsked(appReq, appProposals, appSignatures, appWallet)

LEMMA WalCardinality == \A s : App!Cardinality(s) = Cardinality(s)
  BY DEF App!Cardinality, Cardinality

LEMMA WalInvMeans == WalInv => App!ApprovalsAreSigned
  <1> SUFFICES ASSUME WalInv, NEW p \in DOMAIN appProposals
               PROVE  /\ appProposals[p].sign_count <= App!Cardinality(appSignatures[p])
                      /\ appProposals[p].status # "pending"
                            => App!Cardinality(appSignatures[p]) >= appWallet.threshold
                      /\ \A u \in appSignatures[p] : App!IsOwner(u)
    BY DEF App!ApprovalsAreSigned
  <1>1. p \in 1..AppMaxProposals
    BY ApprovalAssumption DEF WalInv, WalTables
  <1> QED BY <1>1, WalCardinality DEF WalInv, WalTables, WalOK, WalOwner, App!IsOwner

LEMMA WalInvInit == App!WalletInit => WalInv
  <1> SUFFICES ASSUME App!WalletInit PROVE WalInv
    OBVIOUS
  <1>1. WalTables(appProposals, appSignatures, appWallet)
    BY FS_EmptySet, ApprovalAssumption DEF App!WalletInit, WalTables, App!ProposalIds
  <1>2. WalAsked(appReq, appProposals, appSignatures, appWallet)
    BY DEF App!WalletInit, WalAsked, WalAsks
  <1> QED BY <1>1, <1>2 DEF WalInv

\* One request ends or goes on, the tables stay.
LEMMA WalQuiet ==
    ASSUME WalInv, NEW r \in AppReqs, NEW q, UNCHANGED <<appWallet, appProposals, appSignatures>>,
           WalAsks(q, appProposals, appSignatures, appWallet), appReq' = [appReq EXCEPT ![r] = q]
    PROVE  WalInv'
  BY DEF WalInv, WalAsked

\* What is in the row of a request.
LEMMA WalRequestFacts ==
    ASSUME WalInv, NEW r \in AppReqs, appReq[r] \notin {App!New, App!Done}
    PROVE  /\ appReq[r] \in WalRequest /\ appReq[r].id \in DOMAIN appProposals
           /\ WalOK(appReq[r].row, appSignatures[appReq[r].id], appWallet)
           /\ WalOwner(appWallet, appReq[r].by)
           /\ appReq[r].pc = "save" => appReq[r].row.sign_count + 1 <= Cardinality(appSignatures[appReq[r].id])
           /\ appReq[r].pc = "execute" => appReq[r].row.status # "pending"
  BY DEF WalInv, WalAsked, WalAsks

\* A wallet is made: before it nobody owns one, so nobody has signed or asked.
LEMMA WalCreateInv ==
    ASSUME WalInv, NEW u \in AppUsers, NEW owners \in AppOwnerLists, NEW t, App!CreateWallet(u, owners, t)
    PROVE  WalInv'
  <1>1. appWallet = None /\ t \in 1..Len(owners) /\ appWallet' = [owners |-> owners, threshold |-> t]
        /\ UNCHANGED <<appProposals, appSignatures, appReq>>
    BY DEF App!CreateWallet
  <1>2. t \in Nat
    <2>1. owners \in Seq(AppUsers)
      BY ApprovalAssumption
    <2> QED BY <1>1, <2>1
  <1>3. appProposals = <<>> /\ DOMAIN appProposals = {}
    BY <1>1 DEF WalInv, WalTables
  <1>4. \A p \in 1..AppMaxProposals : appSignatures[p] = {}
    BY <1>1 DEF WalInv, WalTables, WalOwner
  <1>5. WalTables(appProposals, appSignatures, appWallet')
    BY <1>1, <1>2, <1>3, <1>4 DEF WalInv, WalTables
  <1>6. \A r \in AppReqs : appReq[r] \in {App!New, App!Done}
    BY <1>1, WalRequestFacts DEF WalOwner
  <1>7. WalAsked(appReq, appProposals, appSignatures, appWallet')
    BY <1>6 DEF WalAsked, WalAsks, WalInv
  <1> QED BY <1>1, <1>5, <1>7 DEF WalInv

LEMMA WalProposeInv == ASSUME WalInv, NEW u \in AppUsers, App!CreateProposal(u) PROVE WalInv'
  <1> DEFINE row == [sign_count |-> 0, status |-> "pending"]
             n == Len(appProposals)
  <1>1. appWallet # None /\ n < AppMaxProposals /\ appProposals' = Append(appProposals, row)
        /\ UNCHANGED <<appWallet, appSignatures, appReq>>
    BY DEF App!CreateProposal, App!IsOwner
  <1>2. row \in WalRow /\ appProposals \in Seq(WalRow)
    BY DEF WalRow, WalInv, WalTables
  <1>3. /\ n \in Nat /\ appProposals' \in Seq(WalRow) /\ Len(appProposals') = n + 1
        /\ DOMAIN appProposals = 1..n /\ DOMAIN appProposals' = 1..(n + 1)
        /\ appProposals'[n + 1] = row /\ \A p \in 1..n : appProposals'[p] = appProposals[p]
    <2> DEFINE S == WalRow
    <2> HIDE DEF S, row
    <2>1. row \in S /\ appProposals \in Seq(S)
      BY <1>2 DEF S
    <2>2. appProposals' = Append(appProposals, row)
      BY <1>1
    <2> QED BY <2>1, <2>2 DEF S
  <1>4. n + 1 \in 1..AppMaxProposals
    BY <1>1, <1>3, ApprovalAssumption
  <1>5. WalOK(row, appSignatures[n + 1], appWallet)
    <2>1. IsFiniteSet(appSignatures[n + 1])
      BY <1>4 DEF WalInv, WalTables
    <2> QED BY <2>1, FS_CardinalityType DEF WalOK
  <1>6. WalTables(appProposals', appSignatures, appWallet)
    <2>1. \A p \in 1..(n + 1) : WalOK(appProposals'[p], appSignatures[p], appWallet)
      <3>1. \A p \in 1..n : WalOK(appProposals[p], appSignatures[p], appWallet)
        BY <1>3 DEF WalInv, WalTables
      <3> QED BY <1>3, <1>5, <3>1
    <2> QED BY <1>1, <1>3, <1>4, <2>1 DEF WalInv, WalTables
  <1>7. WalAsked(appReq, appProposals', appSignatures, appWallet)
    BY <1>3 DEF WalInv, WalAsked, WalAsks
  <1> QED BY <1>1, <1>6, <1>7 DEF WalInv

\* A request reads a proposal, to sign it or to execute it.
LEMMA WalReadInv ==
    ASSUME WalInv, NEW r \in AppReqs, NEW u \in AppUsers, NEW p \in DOMAIN appProposals,
           App!SignRead(r, u, p) \/ App!ExecuteRead(r, u, p)
    PROVE  WalInv'
  <1> DEFINE row == appProposals[p]
             Asks(pc) == [pc |-> pc, by |-> u, id |-> p, row |-> row]
  <1>1. row \in WalRow /\ p \in 1..AppMaxProposals /\ WalOK(row, appSignatures[p], appWallet)
    <2> DEFINE S == WalRow
    <2>1. appProposals \in Seq(S) /\ Len(appProposals) <= AppMaxProposals
      BY DEF WalInv, WalTables
    <2> HIDE DEF S
    <2>2. appProposals[p] \in S /\ p \in 1..AppMaxProposals
      BY <2>1, ApprovalAssumption
    <2> QED BY <2>2 DEF S, WalInv, WalTables
  <1>2. WalOwner(appWallet, u)
    BY DEF App!SignRead, App!ExecuteRead, App!IsOwner, WalOwner
  <1>3. PICK pc \in {"check", "execute"} :
          /\ appReq' = [appReq EXCEPT ![r] = Asks(pc)]
          /\ pc = "execute" => row.status # "pending"
    BY DEF App!SignRead, App!ExecuteRead
  <1>4. UNCHANGED <<appWallet, appProposals, appSignatures>>
    BY DEF App!SignRead, App!ExecuteRead
  <1>5. WalAsks(Asks(pc), appProposals, appSignatures, appWallet)
    <2>1. Asks(pc) \in WalRequest
      BY <1>1 DEF WalRequest
    <2> QED BY <1>1, <1>2, <1>3, <2>1 DEF WalAsks
  <1> HIDE DEF Asks
  <1> QED BY <1>3, <1>4, <1>5, WalQuiet

\* A request that looked for a signature, or whose statement failed.
LEMMA WalCheckInv ==
    ASSUME WalInv, NEW r \in AppReqs, App!SignCheck(r) \/ App!SignFails(r)
    PROVE  WalInv'
  <1> DEFINE q == appReq[r]
             next == [q EXCEPT !.pc = "insert"]
  <1>1. UNCHANGED <<appWallet, appProposals, appSignatures>>
    BY DEF App!SignCheck, App!SignFails
  <1>2. WalAsks(App!Done, appProposals, appSignatures, appWallet)
    BY DEF WalAsks
  <1>3. CASE App!SignCheck(r) /\ q.by \notin appSignatures[q.id]
    <2>1. q.pc = "check" /\ appReq' = [appReq EXCEPT ![r] = next]
      BY <1>3 DEF App!SignCheck
    <2>2. q \notin {App!New, App!Done}
      BY <2>1 DEF App!New, App!Done
    <2>3. q \in WalRequest /\ q.id \in DOMAIN appProposals /\ WalOK(q.row, appSignatures[q.id], appWallet) /\ WalOwner(appWallet, q.by)
      BY <2>2, WalRequestFacts
    <2>4. next \in WalRequest /\ next.id = q.id /\ next.row = q.row /\ next.by = q.by /\ next.pc = "insert"
      BY <2>3 DEF WalRequest
    <2> HIDE DEF next, q
    <2>5. WalAsks(next, appProposals, appSignatures, appWallet)
      BY <2>3, <2>4 DEF WalAsks
    <2> QED BY <1>1, <2>1, <2>5, WalQuiet
  <1>4. CASE ~(App!SignCheck(r) /\ q.by \notin appSignatures[q.id])
    <2>1. appReq' = [appReq EXCEPT ![r] = App!Done]
      BY <1>4 DEF App!SignCheck, App!SignFails
    <2> QED BY <1>1, <1>2, <2>1, WalQuiet
  <1> QED BY <1>3, <1>4

\* A signature is inserted: every copy stays covered, and that of the
\* request by one more.
LEMMA WalInsertInv == ASSUME WalInv, NEW r \in AppReqs, App!SignInsert(r) PROVE WalInv'
  <1> DEFINE q == appReq[r]
             next == [q EXCEPT !.pc = "save"]
             s == appSignatures[q.id]
             t == s \cup {q.by}
  <1>1. /\ q.pc = "insert" /\ q.by \notin s /\ appSignatures' = [appSignatures EXCEPT ![q.id] = t]
        /\ appReq' = [appReq EXCEPT ![r] = next]
        /\ UNCHANGED <<appWallet, appProposals>>
    BY DEF App!SignInsert
  <1>2. q \notin {App!New, App!Done}
    BY <1>1 DEF App!New, App!Done
  <1>3. q \in WalRequest /\ q.id \in DOMAIN appProposals /\ WalOK(q.row, s, appWallet) /\ WalOwner(appWallet, q.by)
    BY <1>2, WalRequestFacts
  <1>4. /\ next \in WalRequest /\ next.id = q.id /\ next.row = q.row /\ next.by = q.by /\ next.pc = "save"
        /\ q.id \in 1..AppMaxProposals /\ q.by \in AppUsers /\ q.row.sign_count \in Nat
    BY <1>3 DEF WalRequest, WalRow
  <1>5. IsFiniteSet(t) /\ Cardinality(t) = Cardinality(s) + 1 /\ Cardinality(s) \in Nat
    BY <1>1, <1>4, FS_AddElement, FS_CardinalityType DEF WalInv, WalTables
  <1>6. appSignatures' \in [1..AppMaxProposals -> SUBSET AppUsers]
    BY <1>1, <1>4 DEF WalInv, WalTables
  <1>7. \A p \in 1..AppMaxProposals : appSignatures'[p] = IF p = q.id THEN t ELSE appSignatures[p]
    BY <1>1 DEF WalInv, WalTables
  <1> HIDE DEF q, next, t
  <1>8. ASSUME NEW row \in WalRow, NEW p \in 1..AppMaxProposals, WalOK(row, appSignatures[p], appWallet),
               appWallet \in [owners : AppOwnerLists, threshold : Nat]
        PROVE  WalOK(row, appSignatures'[p], appWallet)
    BY <1>5, <1>7, <1>8 DEF WalOK, WalRow
  <1>9. appWallet \in [owners : AppOwnerLists, threshold : Nat]
    BY <1>3 DEF WalInv, WalTables, WalOwner
  <1>10. WalTables(appProposals, appSignatures', appWallet)
    <2>1. \A p \in DOMAIN appProposals : appProposals[p] \in WalRow /\ p \in 1..AppMaxProposals
      <3> DEFINE S == WalRow
      <3>1. appProposals \in Seq(S) /\ Len(appProposals) <= AppMaxProposals
        BY DEF WalInv, WalTables
      <3> HIDE DEF S
      <3>2. \A p \in DOMAIN appProposals : appProposals[p] \in S /\ p \in 1..AppMaxProposals
        BY <3>1, ApprovalAssumption
      <3> QED BY <3>2 DEF S
    <2>2. \A p \in DOMAIN appProposals : WalOK(appProposals[p], appSignatures'[p], appWallet)
      BY <1>8, <1>9, <2>1 DEF WalInv, WalTables
    <2>3. \A p \in 1..AppMaxProposals : IsFiniteSet(appSignatures'[p]) /\ \A u \in appSignatures'[p] : WalOwner(appWallet, u)
      BY <1>3, <1>5, <1>7 DEF WalInv, WalTables, t
    <2> QED BY <1>6, <2>2, <2>3 DEF WalInv, WalTables
  <1>11. ASSUME NEW x \in AppReqs PROVE WalAsks(appReq'[x], appProposals, appSignatures', appWallet)
    <2>1. CASE x = r
      <3>1. appReq'[x] = next
        BY <1>1, <2>1 DEF WalInv, WalAsked
      <3>2. WalOK(next.row, appSignatures'[q.id], appWallet)
        BY <1>3, <1>4, <1>8, <1>9 DEF WalRequest
      <3>3. next.row.sign_count + 1 <= Cardinality(appSignatures'[q.id])
        BY <1>3, <1>4, <1>5, <1>7 DEF WalOK
      <3> QED BY <1>3, <1>4, <3>1, <3>2, <3>3 DEF WalAsks
    <2>2. CASE x # r
      <3> DEFINE y == appReq[x]
      <3>1. appReq'[x] = y
        BY <1>1, <2>2 DEF WalInv, WalAsked
      <3>2. CASE y \in {App!New, App!Done}
        BY <3>1, <3>2 DEF WalAsks
      <3>3. CASE y \notin {App!New, App!Done}
        <4>1. /\ y \in WalRequest /\ y.id \in DOMAIN appProposals /\ WalOK(y.row, appSignatures[y.id], appWallet)
              /\ WalOwner(appWallet, y.by)
              /\ y.pc = "save" => y.row.sign_count + 1 <= Cardinality(appSignatures[y.id])
              /\ y.pc = "execute" => y.row.status # "pending"
          BY <3>3, WalRequestFacts
        <4>2. y.row \in WalRow /\ y.id \in 1..AppMaxProposals /\ y.row.sign_count \in Nat
          BY <4>1 DEF WalRequest, WalRow
        <4> HIDE DEF y
        <4>3. WalOK(y.row, appSignatures'[y.id], appWallet)
          BY <1>8, <1>9, <4>1, <4>2
        <4>4. y.pc = "save" => y.row.sign_count + 1 <= Cardinality(appSignatures'[y.id])
          BY <1>5, <1>7, <4>1, <4>2
        <4> QED BY <3>1, <4>1, <4>3, <4>4 DEF WalAsks
      <3> QED BY <3>2, <3>3
    <2> QED BY <2>1, <2>2
  <1>12. DOMAIN appReq' = AppReqs
    BY <1>1 DEF WalInv, WalAsked
  <1> QED BY <1>1, <1>10, <1>11, <1>12 DEF WalInv, WalAsked

\* A row is saved that its signatures cover.
LEMMA WalSavedInv ==
    ASSUME WalInv, NEW r \in AppReqs, NEW p \in DOMAIN appProposals, NEW row \in WalRow,
           WalOK(row, appSignatures[p], appWallet),
           appProposals' = [i \in DOMAIN appProposals |-> IF i = p THEN row ELSE appProposals[i]],
           appReq' = [appReq EXCEPT ![r] = App!Done], UNCHANGED <<appWallet, appSignatures>>
    PROVE  WalInv'
  <1>1. /\ appProposals' \in Seq(WalRow) /\ Len(appProposals') = Len(appProposals)
        /\ DOMAIN appProposals' = DOMAIN appProposals
    <2> DEFINE S == WalRow
    <2>1. appProposals \in Seq(S) /\ row \in S
      BY DEF WalInv, WalTables
    <2> HIDE DEF S
    <2>2. DOMAIN appProposals' = DOMAIN appProposals /\ DOMAIN appProposals = 1..Len(appProposals) /\ Len(appProposals) \in Nat
      BY <2>1
    <2>3. appProposals' \in [1..Len(appProposals) -> S]
      BY <2>1, <2>2
    <2>4. appProposals' \in Seq(S) /\ Len(appProposals') = Len(appProposals)
      BY <2>2, <2>3
    <2> QED BY <2>2, <2>4 DEF S
  <1>2. WalTables(appProposals', appSignatures, appWallet)
    <2>1. \A i \in DOMAIN appProposals : WalOK(appProposals'[i], appSignatures[i], appWallet)
      BY DEF WalInv, WalTables
    <2>2. appProposals # <<>>
      BY DEF WalInv, WalTables
    <2> QED BY <1>1, <2>1, <2>2 DEF WalInv, WalTables
  <1>3. WalAsked(appReq', appProposals', appSignatures, appWallet)
    BY <1>1 DEF WalInv, WalAsked, WalAsks
  <1> QED BY <1>2, <1>3 DEF WalInv

LEMMA WalSaveInv ==
    ASSUME WalInv, NEW r \in AppReqs, App!SignSave(r) \/ App!ExecuteSave(r)
    PROVE  WalInv'
  <1> DEFINE q == appReq[r]
             s == appSignatures[q.id]
             executed == [q.row EXCEPT !.status = "executed"]
  <1>1. q.pc \in {"save", "execute"} /\ appReq' = [appReq EXCEPT ![r] = App!Done] /\ UNCHANGED <<appWallet, appSignatures>>
    BY DEF App!SignSave, App!ExecuteSave
  <1>2. q \notin {App!New, App!Done}
    BY <1>1 DEF App!New, App!Done
  <1>3. /\ q \in WalRequest /\ q.id \in DOMAIN appProposals /\ WalOK(q.row, s, appWallet) /\ WalOwner(appWallet, q.by)
        /\ q.pc = "save" => q.row.sign_count + 1 <= Cardinality(s)
        /\ q.pc = "execute" => q.row.status # "pending"
    BY <1>2, WalRequestFacts
  <1>4. q.row \in WalRow /\ q.id \in 1..AppMaxProposals
    BY <1>3 DEF WalRequest
  <1>5. appWallet \in [owners : AppOwnerLists, threshold : Nat] /\ Cardinality(s) \in Nat
    BY <1>3, <1>4, FS_CardinalityType DEF WalInv, WalTables, WalOwner
  <1>6. CASE App!SignSave(r)
    <2> DEFINE row == App!Counted(q.row)
    <2>1. q.pc = "save" /\ appProposals' = [i \in DOMAIN appProposals |-> IF i = q.id THEN row ELSE appProposals[i]]
      <3>1. q.pc = "save" /\ appProposals' = App!Saved(appProposals, [i \in {q.id} |-> row])
        BY <1>6 DEF App!SignSave
      <3> HIDE DEF row, q
      <3> QED BY <3>1 DEF App!Saved
    <2>2. row \in WalRow /\ WalOK(row, s, appWallet)
      <3>1. q.row.sign_count \in Nat /\ q.row.sign_count + 1 <= Cardinality(s) /\ appWallet.threshold \in Nat
        BY <1>3, <1>4, <1>5, <2>1 DEF WalRow
      <3>2. /\ row.sign_count = q.row.sign_count + 1
            /\ row.status = IF row.sign_count >= appWallet.threshold THEN "approved" ELSE q.row.status
            /\ row = [sign_count |-> row.sign_count, status |-> row.status]
        BY DEF App!Counted
      <3> HIDE DEF row
      <3>3. row \in WalRow
        BY <1>4, <3>1, <3>2 DEF WalRow
      <3> QED BY <1>3, <1>5, <3>1, <3>2, <3>3 DEF WalOK
    <2> HIDE DEF row
    <2> QED BY <1>1, <1>3, <2>1, <2>2, WalSavedInv
  <1>7. CASE App!ExecuteSave(r)
    <2>1. q.pc = "execute" /\ appProposals' = [i \in DOMAIN appProposals |-> IF i = q.id THEN executed ELSE appProposals[i]]
      <3>1. q.pc = "execute" /\ appProposals' = App!Saved(appProposals, [i \in {q.id} |-> executed])
        BY <1>7 DEF App!ExecuteSave
      <3> HIDE DEF executed, q
      <3> QED BY <3>1 DEF App!Saved
    <2>2. executed \in WalRow /\ WalOK(executed, s, appWallet)
      BY <1>3, <1>4, <2>1 DEF WalRow, WalOK
    <2> HIDE DEF executed
    <2> QED BY <1>1, <1>3, <2>1, <2>2, WalSavedInv
  <1> QED BY <1>6, <1>7

LEMMA WalNextInv == WalInv /\ [App!WalletNext]_(App!walletVars) => WalInv'
  <1> SUFFICES ASSUME WalInv, [App!WalletNext]_(App!walletVars) PROVE WalInv'
    OBVIOUS
  <1>1. CASE App!WalletNext
    BY <1>1, WalCreateInv, WalProposeInv, WalReadInv, WalCheckInv, WalInsertInv, WalSaveInv DEF App!WalletNext
  <1>2. CASE UNCHANGED App!walletVars
    BY <1>2 DEF App!walletVars, WalInv
  <1> QED BY <1>1, <1>2

-----------------------------------------------------------------------------
(* Approval of transfers                                                   *)

AppStatus == {"pending", "approved", "rejected", "expired"}

AppRow == [workflow : Nat, status : AppStatus, step : Nat, expires : Int]

AppAction ==
    [request : Nat, step : Nat, user : AppUsers \cup {None}, from : AppUsers \cup {None},
     action : {"approved", "rejected", "expired", "delegated"}, at : Int]

AppStepsOf(wf, row) == wf[row.workflow].steps

\* A request that is open is at a step, one that is approved is past the last.
AppRowOK(wf, row) ==
    /\ row.workflow \in DOMAIN wf
    /\ row.step \in 1..(Len(AppStepsOf(wf, row)) + 1)
    /\ row.status = "pending" => row.step \in DOMAIN AppStepsOf(wf, row)
    /\ row.status = "approved" => row.step = Len(AppStepsOf(wf, row)) + 1

AppTables(wf, rq, ac) ==
    /\ wf \in Seq(AppInputs) /\ rq \in Seq(AppRow) /\ ac \in Seq(AppAction)
    /\ \A k \in DOMAIN wf : Len(wf[k].steps) > 0
    /\ \A i \in DOMAIN rq : AppRowOK(wf, rq[i])

\* An action on record was of somebody entitled to it, in time.
AppActionOK(wf, rq, a) ==
    /\ a.request \in DOMAIN rq
    /\ a.action \in {"approved", "delegated"} =>
          /\ a.step \in DOMAIN AppStepsOf(wf, rq[a.request])
          /\ App!eligibleForStep(AppStepsOf(wf, rq[a.request])[a.step], a.from)
    /\ a.action = "approved" => a.at < rq[a.request].expires
    /\ a.action = "rejected" => rq[a.request].status = "rejected"

AppActionsOK(wf, rq, ac) == \A a \in DOMAIN ac : AppActionOK(wf, rq, ac[a])

AppApproved(ac, i, k) ==
    {a \in DOMAIN ac : ac[a].request = i /\ ac[a].step = k /\ ac[a].action = "approved"}

\* Nobody approves a step twice.
AppDistinct(ac) ==
    \A a, b \in DOMAIN ac :
        a # b /\ ac[a].action = "approved" /\ ac[b].action = "approved"
          /\ ac[a].request = ac[b].request /\ ac[a].step = ac[b].step => ac[a].user # ac[b].user

\* The steps a request has passed have their approvals.
AppComplete(wf, rq, ac) ==
    \A i \in DOMAIN rq : \A k \in 1..(rq[i].step - 1) :
        Cardinality(AppApproved(ac, i, k)) >= AppStepsOf(wf, rq[i])[k].required

\* The transaction of a request has its status.
AppFollows(rq, tx, sweeping, wasCut) ==
    /\ tx \in Seq({"approval_pending", "approved", "rejected", "expired"}) /\ Len(tx) = Len(rq)
    /\ \A i \in DOMAIN rq :
        \/ tx[i] = rq[i].status
        \/ tx[i] = "approval_pending" /\ rq[i].status = "pending"
        \/ tx[i] = "approval_pending" /\ rq[i].status = "expired" /\ (sweeping = "second" \/ wasCut)

AppRecords(wf, rq, ac) ==
    AppTables(wf, rq, ac) /\ AppActionsOK(wf, rq, ac) /\ AppDistinct(ac) /\ AppComplete(wf, rq, ac)

AppInv ==
    /\ appNow \in Nat
    /\ AppRecords(appWorkflows, appRequests, appActions)
    /\ AppFollows(appRequests, appTxs, appSweep, appCut)

\* The rows of the tables, one by one.
LEMMA AppRows ==
    ASSUME NEW wf, NEW rq, NEW ac, AppTables(wf, rq, ac)
    PROVE  /\ Len(wf) \in Nat /\ DOMAIN wf = 1..Len(wf) /\ \A k \in DOMAIN wf : wf[k] \in AppInputs
           /\ Len(rq) \in Nat /\ DOMAIN rq = 1..Len(rq) /\ \A i \in DOMAIN rq : rq[i] \in AppRow
           /\ Len(ac) \in Nat /\ DOMAIN ac = 1..Len(ac) /\ \A a \in DOMAIN ac : ac[a] \in AppAction
  <1> DEFINE S == AppInputs
             R == AppRow
             A == AppAction
  <1>1. wf \in Seq(S) /\ rq \in Seq(R) /\ ac \in Seq(A)
    BY DEF AppTables
  <1> HIDE DEF S, R, A
  <1>2. Len(wf) \in Nat /\ DOMAIN wf = 1..Len(wf) /\ \A k \in DOMAIN wf : wf[k] \in S
    BY <1>1
  <1>3. Len(rq) \in Nat /\ DOMAIN rq = 1..Len(rq) /\ \A i \in DOMAIN rq : rq[i] \in R
    BY <1>1
  <1>4. Len(ac) \in Nat /\ DOMAIN ac = 1..Len(ac) /\ \A a \in DOMAIN ac : ac[a] \in A
    BY <1>1
  <1> QED BY <1>2, <1>3, <1>4 DEF S, R, A

\* The steps of a workflow on record.
LEMMA AppSteps ==
    ASSUME NEW wf, NEW rq, NEW ac, AppTables(wf, rq, ac), NEW i \in DOMAIN rq
    PROVE  LET steps == AppStepsOf(wf, rq[i]) IN
           /\ Len(steps) \in Nat /\ DOMAIN steps = 1..Len(steps)
           /\ \A k \in DOMAIN steps : steps[k].required \in Int
           /\ rq[i].workflow \in DOMAIN wf
  <1>1. rq[i].workflow \in DOMAIN wf /\ wf[rq[i].workflow] \in AppInputs
    BY AppRows DEF AppTables, AppRowOK
  <1> QED BY <1>1, ApprovalAssumption DEF AppStepsOf

\* What is on record stays good when a row keeps its workflow and deadline and
\* a rejected one stays so.
LEMMA AppActionsStay ==
    ASSUME NEW wf, NEW rq, NEW ac, AppTables(wf, rq, ac), AppActionsOK(wf, rq, ac),
           NEW wf2, NEW rq2, DOMAIN rq \subseteq DOMAIN rq2,
           \A k \in DOMAIN wf : wf2[k] = wf[k],
           \A i \in DOMAIN rq : /\ rq2[i].workflow = rq[i].workflow /\ rq2[i].expires = rq[i].expires
                                /\ rq[i].status = "rejected" => rq2[i].status = "rejected"
    PROVE  AppActionsOK(wf2, rq2, ac)
  <1> SUFFICES ASSUME NEW a \in DOMAIN ac PROVE AppActionOK(wf2, rq2, ac[a])
    BY DEF AppActionsOK
  <1> DEFINE e == ac[a]
             i == e.request
  <1>1. AppActionOK(wf, rq, e)
    BY DEF AppActionsOK
  <1>2. i \in DOMAIN rq
    BY <1>1 DEF AppActionOK
  <1>3. AppStepsOf(wf2, rq2[i]) = AppStepsOf(wf, rq[i])
    BY <1>2, AppSteps DEF AppStepsOf
  <1>4. rq2[i].expires = rq[i].expires /\ (rq[i].status = "rejected" => rq2[i].status = "rejected") /\ i \in DOMAIN rq2
    BY <1>2
  <1>5. e.action \in {"approved", "delegated"} =>
          /\ e.step \in DOMAIN AppStepsOf(wf2, rq2[i])
          /\ App!eligibleForStep(AppStepsOf(wf2, rq2[i])[e.step], e.from)
    BY <1>1, <1>3 DEF AppActionOK
  <1>6. e.action = "approved" => e.at < rq2[i].expires
    BY <1>1, <1>4 DEF AppActionOK
  <1>7. e.action = "rejected" => rq2[i].status = "rejected"
    BY <1>1, <1>4 DEF AppActionOK
  <1> QED BY <1>4, <1>5, <1>6, <1>7 DEF AppActionOK

\* So do the approvals of the steps that were passed.
LEMMA AppCompleteStays ==
    ASSUME NEW wf, NEW rq, NEW ac, AppTables(wf, rq, ac), AppComplete(wf, rq, ac),
           NEW wf2, NEW rq2, \A k \in DOMAIN wf : wf2[k] = wf[k],
           \A i \in DOMAIN rq2 : IF i \in DOMAIN rq THEN rq2[i].workflow = rq[i].workflow /\ rq2[i].step = rq[i].step
                                                    ELSE rq2[i].step = 1
    PROVE  AppComplete(wf2, rq2, ac)
  <1> SUFFICES ASSUME NEW i \in DOMAIN rq2, NEW k \in 1..(rq2[i].step - 1)
               PROVE  Cardinality(AppApproved(ac, i, k)) >= AppStepsOf(wf2, rq2[i])[k].required
    BY DEF AppComplete
  <1>1. i \in DOMAIN rq
    OBVIOUS
  <1>2. AppStepsOf(wf2, rq2[i]) = AppStepsOf(wf, rq[i])
    BY <1>1, AppSteps DEF AppStepsOf
  <1> QED BY <1>1, <1>2 DEF AppComplete

LEMMA AppInvInit == App!Init => AppInv
  <1> SUFFICES ASSUME App!Init PROVE AppInv
    OBVIOUS
  <1>1. appWorkflows = <<>> /\ appRequests = <<>> /\ appTxs = <<>> /\ appActions = <<>> /\ appNow = 0
    BY DEF App!Init
  <1>2. AppRecords(<<>>, <<>>, <<>>)
    BY DEF AppRecords, AppTables, AppActionsOK, AppDistinct, AppComplete
  <1>3. AppFollows(<<>>, <<>>, appSweep, appCut)
    BY DEF AppFollows
  <1> QED BY <1>1, <1>2, <1>3 DEF AppInv

LEMMA AppWorkflowInv == ASSUME AppInv, NEW w \in AppInputs, App!CreateWorkflow(w) PROVE AppInv'
  <1> DEFINE n == Len(appWorkflows)
  <1>1. appWorkflows' = Append(appWorkflows, w) /\ UNCHANGED <<appRequests, appTxs, appActions, appSweep, appCut, appNow>>
    BY DEF App!CreateWorkflow
  <1>2. AppTables(appWorkflows, appRequests, appActions)
    BY DEF AppInv, AppRecords
  <1>3. /\ appWorkflows' \in Seq(AppInputs) /\ n \in Nat
        /\ DOMAIN appWorkflows = 1..n /\ DOMAIN appWorkflows' = 1..(n + 1)
        /\ \A k \in DOMAIN appWorkflows : appWorkflows'[k] = appWorkflows[k]
        /\ appWorkflows'[n + 1] = w
    BY <1>1, <1>2 DEF AppTables
  <1>4. AppTables(appWorkflows', appRequests, appActions)
    <2>1. ASSUME NEW i \in DOMAIN appRequests PROVE AppRowOK(appWorkflows', appRequests[i])
      <3>1. AppRowOK(appWorkflows, appRequests[i])
        BY <1>2 DEF AppTables
      <3>2. AppStepsOf(appWorkflows', appRequests[i]) = AppStepsOf(appWorkflows, appRequests[i])
        BY <1>3, <3>1 DEF AppRowOK, AppStepsOf
      <3> QED BY <1>3, <3>1, <3>2 DEF AppRowOK
    <2>2. Len(w.steps) > 0
      BY DEF App!CreateWorkflow, App!IsValid
    <2>3. \A k \in DOMAIN appWorkflows' : Len(appWorkflows'[k].steps) > 0
      <3> SUFFICES ASSUME NEW k \in DOMAIN appWorkflows' PROVE Len(appWorkflows'[k].steps) > 0
        OBVIOUS
      <3>1. CASE k \in DOMAIN appWorkflows
        <4>1. Len(appWorkflows[k].steps) > 0 /\ appWorkflows'[k] = appWorkflows[k]
          BY <1>2, <1>3, <3>1 DEF AppTables
        <4> QED BY ONLY <4>1
      <3>2. CASE k = n + 1
        BY ONLY <1>3, <2>2, <3>2
      <3>3. k \in DOMAIN appWorkflows \/ k = n + 1
        <4> HIDE DEF n
        <4> QED BY ONLY <1>3, k \in DOMAIN appWorkflows'
      <3> QED BY ONLY <3>1, <3>2, <3>3
    <2> QED BY <1>2, <1>3, <2>1, <2>3 DEF AppTables
  <1>5. AppActionsOK(appWorkflows', appRequests, appActions)
    BY <1>2, <1>3, AppActionsStay DEF AppInv, AppRecords
  <1>6. AppComplete(appWorkflows', appRequests, appActions)
    BY <1>2, <1>3, AppCompleteStays DEF AppInv, AppRecords
  <1> QED BY <1>1, <1>4, <1>5, <1>6 DEF AppInv, AppRecords

LEMMA AppRequestInv == ASSUME AppInv, NEW amount, App!CreateTransferRequest(amount) PROVE AppInv'
  <1> DEFINE n == Len(appRequests)
             Row(k) == [workflow |-> k, status |-> "pending", step |-> 1, expires |-> appNow + appWorkflows[k].timeout]
  <1>1. PICK k \in App!Matching(amount) : appRequests' = Append(appRequests, Row(k))
    BY DEF App!CreateTransferRequest
  <1>2. appTxs' = Append(appTxs, "approval_pending") /\ UNCHANGED <<appWorkflows, appActions, appSweep, appCut, appNow>>
    BY DEF App!CreateTransferRequest
  <1>3. AppTables(appWorkflows, appRequests, appActions)
    BY DEF AppInv, AppRecords
  <1>4. k \in DOMAIN appWorkflows /\ k \in Nat /\ appWorkflows[k] \in AppInputs
    BY <1>3, AppRows DEF App!Matching
  <1> DEFINE row == Row(k)
  <1>5. row \in AppRow /\ row.step = 1 /\ row.status = "pending" /\ row.workflow = k
    BY <1>4, ApprovalAssumption DEF AppInv, AppRow, AppStatus
  <1>6. AppRowOK(appWorkflows, row)
    BY <1>3, <1>4, <1>5, ApprovalAssumption DEF AppRowOK, AppStepsOf, AppTables
  <1> HIDE DEF row, Row
  <1>7. /\ appRequests' \in Seq(AppRow) /\ n \in Nat /\ Len(appRequests') = n + 1
        /\ DOMAIN appRequests = 1..n /\ DOMAIN appRequests' = 1..(n + 1)
        /\ \A i \in 1..n : appRequests'[i] = appRequests[i]
        /\ appRequests'[n + 1] = row
    <2> DEFINE S == AppRow
    <2>1. appRequests \in Seq(S) /\ row \in S /\ appRequests' = Append(appRequests, row)
      BY <1>1, <1>3, <1>5 DEF AppTables, row
    <2> HIDE DEF S
    <2> QED BY <2>1 DEF S
  <1>8. AppTables(appWorkflows, appRequests', appActions)
    BY <1>3, <1>6, <1>7 DEF AppTables
  <1>9. AppActionsOK(appWorkflows, appRequests', appActions)
    BY <1>3, <1>7, AppActionsStay DEF AppInv, AppRecords
  <1>10. AppComplete(appWorkflows, appRequests', appActions)
    BY <1>3, <1>5, <1>7, AppCompleteStays DEF AppInv, AppRecords
  <1>11. AppFollows(appRequests', appTxs', appSweep, appCut)
    <2> DEFINE T == {"approval_pending", "approved", "rejected", "expired"}
    <2>1. appTxs \in Seq(T) /\ Len(appTxs) = n /\ "approval_pending" \in T
      BY DEF AppInv, AppFollows
    <2> HIDE DEF T
    <2>2. /\ appTxs' \in Seq(T) /\ Len(appTxs') = n + 1 /\ appTxs'[n + 1] = "approval_pending"
          /\ \A i \in 1..n : appTxs'[i] = appTxs[i]
      BY <1>2, <1>7, <2>1
    <2> QED BY <1>5, <1>7, <2>2 DEF T, AppInv, AppFollows
  <1> QED BY <1>2, <1>8, <1>9, <1>10, <1>11 DEF AppInv, AppRecords

\* The record after one more action.
LEMMA AppAppend ==
    ASSUME NEW ac \in Seq(AppAction), NEW e \in AppAction
    PROVE  /\ Append(ac, e) \in Seq(AppAction) /\ Len(ac) \in Nat
           /\ DOMAIN ac = 1..Len(ac) /\ DOMAIN Append(ac, e) = 1..(Len(ac) + 1)
           /\ Append(ac, e)[Len(ac) + 1] = e
           /\ \A a \in DOMAIN ac : Append(ac, e)[a] = ac[a]
           /\ \A i, k : /\ IsFiniteSet(AppApproved(ac, i, k))
                        /\ AppApproved(ac, i, k) \subseteq AppApproved(Append(ac, e), i, k)
                        /\ IsFiniteSet(AppApproved(Append(ac, e), i, k))
           /\ e.action = "approved" =>
                Cardinality(AppApproved(Append(ac, e), e.request, e.step)) = Cardinality(AppApproved(ac, e.request, e.step)) + 1
  <1> DEFINE n == Len(ac)
             more == Append(ac, e)
  <1>1. /\ more \in Seq(AppAction) /\ n \in Nat
        /\ DOMAIN ac = 1..n /\ DOMAIN more = 1..(n + 1)
        /\ more[n + 1] = e /\ \A a \in DOMAIN ac : more[a] = ac[a]
    <2> DEFINE S == AppAction
    <2>1. ac \in Seq(S) /\ e \in S
      OBVIOUS
    <2> HIDE DEF S
    <2> QED BY <2>1 DEF S
  <1> HIDE DEF more, n
  <1>2. ASSUME NEW i, NEW k
        PROVE  /\ IsFiniteSet(AppApproved(ac, i, k)) /\ AppApproved(ac, i, k) \subseteq AppApproved(more, i, k)
               /\ IsFiniteSet(AppApproved(more, i, k)) /\ n + 1 \notin AppApproved(ac, i, k)
    <2>1. IsFiniteSet(1..n) /\ IsFiniteSet(1..(n + 1))
      BY <1>1, FS_Interval
    <2>2. AppApproved(ac, i, k) \subseteq 1..n /\ AppApproved(more, i, k) \subseteq 1..(n + 1)
      BY <1>1 DEF AppApproved
    <2>3. AppApproved(ac, i, k) \subseteq AppApproved(more, i, k)
      BY <1>1 DEF AppApproved
    <2> QED BY <1>1, <2>1, <2>2, <2>3, FS_Subset
  <1>3. e.action = "approved" => AppApproved(more, e.request, e.step) = AppApproved(ac, e.request, e.step) \cup {n + 1}
    BY <1>1 DEF AppApproved
  <1>4. e.action = "approved" => Cardinality(AppApproved(more, e.request, e.step)) = Cardinality(AppApproved(ac, e.request, e.step)) + 1
    BY <1>2, <1>3, FS_AddElement
  <1> QED BY <1>1, <1>2, <1>4 DEF more, n

\* An action on an open request, and what becomes of its row.
LEMMA AppRecord ==
    ASSUME NEW wf, NEW rq, NEW ac, AppRecords(wf, rq, ac), NEW i \in DOMAIN rq, rq[i].status = "pending",
           NEW e \in AppAction, e.request = i, e.step = rq[i].step,
           NEW row \in AppRow, AppRowOK(wf, row), row.workflow = rq[i].workflow, row.expires = rq[i].expires,
           NEW rq2, rq2 = [rq EXCEPT ![i] = row], AppActionOK(wf, rq2, e),
           e.action = "approved" => \A a \in AppApproved(ac, i, rq[i].step) : ac[a].user # e.user,
           \/ row.step = rq[i].step
           \/ /\ row.step = rq[i].step + 1 /\ e.action = "approved"
              /\ Cardinality(AppApproved(ac, i, rq[i].step)) + 1 >= AppStepsOf(wf, rq[i])[rq[i].step].required
    PROVE  AppRecords(wf, rq2, Append(ac, e))
  <1> DEFINE n == Len(ac)
             more == Append(ac, e)
  <1>1. AppTables(wf, rq, ac) /\ AppActionsOK(wf, rq, ac) /\ AppDistinct(ac) /\ AppComplete(wf, rq, ac)
    BY DEF AppRecords
  <1>2. /\ more \in Seq(AppAction) /\ n \in Nat
        /\ DOMAIN ac = 1..n /\ DOMAIN more = 1..(n + 1)
        /\ more[n + 1] = e /\ \A a \in DOMAIN ac : more[a] = ac[a]
    BY <1>1, AppAppend DEF AppTables
  <1>3. \A j, k : /\ IsFiniteSet(AppApproved(ac, j, k)) /\ AppApproved(ac, j, k) \subseteq AppApproved(more, j, k)
                  /\ IsFiniteSet(AppApproved(more, j, k))
    BY <1>1, AppAppend DEF AppTables
  <1>4. e.action = "approved" => Cardinality(AppApproved(more, i, e.step)) = Cardinality(AppApproved(ac, i, e.step)) + 1
    BY <1>1, AppAppend DEF AppTables
  <1>5. /\ rq2 \in Seq(AppRow) /\ DOMAIN rq2 = DOMAIN rq
        /\ rq2[i] = row /\ \A j \in DOMAIN rq : j # i => rq2[j] = rq[j]
    <2> DEFINE S == AppRow
    <2>1. rq \in Seq(S) /\ row \in S
      BY <1>1 DEF AppTables
    <2> HIDE DEF S
    <2> QED BY <2>1 DEF S
  <1> HIDE DEF more, n
  <1>6. AppTables(wf, rq2, more)
    BY <1>1, <1>2, <1>5 DEF AppTables
  <1>7. AppActionsOK(wf, rq2, more)
    <2>1. AppActionsOK(wf, rq2, ac)
      <3>1. \A j \in DOMAIN rq : /\ rq2[j].workflow = rq[j].workflow /\ rq2[j].expires = rq[j].expires
                                 /\ rq[j].status = "rejected" => rq2[j].status = "rejected"
        BY <1>5
      <3> QED BY <1>1, <1>5, <3>1, AppActionsStay
    <2>2. ASSUME NEW a \in DOMAIN more PROVE AppActionOK(wf, rq2, more[a])
      <3>1. CASE a = n + 1
        BY <1>2, <3>1
      <3>2. CASE a # n + 1
        <4>1. a \in DOMAIN ac
          BY <1>2, <3>2
        <4>2. more[a] = ac[a]
          BY <1>2, <4>1
        <4>3. AppActionOK(wf, rq2, ac[a])
          BY <2>1, <4>1 DEF AppActionsOK
        <4> QED BY <4>2, <4>3
      <3> QED BY <3>1, <3>2
    <2> QED BY <2>2 DEF AppActionsOK
  <1>8. AppDistinct(more)
    <2> SUFFICES ASSUME NEW a \in DOMAIN more, NEW b \in DOMAIN more, a # b,
                        more[a].action = "approved", more[b].action = "approved",
                        more[a].request = more[b].request, more[a].step = more[b].step
                 PROVE  more[a].user # more[b].user
      BY DEF AppDistinct
    <2>1. CASE a \in DOMAIN ac /\ b \in DOMAIN ac
      BY <1>1, <1>2, <2>1 DEF AppDistinct
    <2>2. ASSUME NEW x \in DOMAIN ac, more[x].action = "approved", e.action = "approved",
                 more[x].request = i, more[x].step = e.step
          PROVE  more[x].user # e.user
      BY <1>2, <2>2 DEF AppApproved
    <2>3. CASE a = n + 1
      BY <1>2, <2>2, <2>3
    <2>4. CASE b = n + 1
      BY <1>2, <2>2, <2>4
    <2> QED BY <1>2, <2>1, <2>3, <2>4
  <1>9. AppComplete(wf, rq2, more)
    <2> SUFFICES ASSUME NEW j \in DOMAIN rq, NEW k \in 1..(rq2[j].step - 1)
                 PROVE  Cardinality(AppApproved(more, j, k)) >= AppStepsOf(wf, rq2[j])[k].required
      BY <1>5 DEF AppComplete
    <2>1. AppStepsOf(wf, rq2[j]) = AppStepsOf(wf, rq[j]) /\ rq[j].step \in Nat /\ rq2[j].step \in Nat
      BY <1>1, <1>5, AppRows DEF AppStepsOf, AppRow
    <2>2. /\ Cardinality(AppApproved(ac, j, k)) \in Nat /\ Cardinality(AppApproved(more, j, k)) \in Nat
          /\ Cardinality(AppApproved(ac, j, k)) <= Cardinality(AppApproved(more, j, k))
      BY <1>3, FS_CardinalityType, FS_Subset
    <2>3. AppStepsOf(wf, rq[j])[k].required \in Int
      <3>1. rq2[j].step - 1 <= Len(AppStepsOf(wf, rq[j]))
        BY <1>6, <2>1 DEF AppTables, AppRowOK
      <3> QED BY <1>1, <2>1, <3>1, AppSteps
    <2>4. CASE k \in 1..(rq[j].step - 1)
      BY <1>1, <2>1, <2>2, <2>3, <2>4 DEF AppComplete
    <2>5. CASE k \notin 1..(rq[j].step - 1)
      <3>1. j = i /\ k = rq[i].step /\ row.step = rq[i].step + 1
        BY <1>5, <2>1, <2>5
      <3>2. Cardinality(AppApproved(more, j, k)) = Cardinality(AppApproved(ac, i, rq[i].step)) + 1
        BY <1>4, <2>1, <3>1
      <3> QED BY <2>1, <3>1, <3>2
    <2> QED BY <2>4, <2>5
  <1> QED BY <1>6, <1>7, <1>8, <1>9 DEF AppRecords, more

\* A finite set of positive numbers has a greatest.
LEMMA AppLatest ==
    ASSUME NEW n \in Nat, NEW A \in SUBSET (1..n), A # {}
    PROVE  App!Max(A) \in A
  <1> DEFINE B == {m \in 0..n : \A x \in A : x <= m}
  <1>1. n \in B
    OBVIOUS
  <1>2. PICK m \in B : \A j \in B : m <= j
    <2> HIDE DEF B
    <2>1. B \in SUBSET (0..n)
      BY DEF B
    <2> QED BY <1>1, <2>1, LeastNumber
  <1>3. m \in A
    <2> SUFFICES ASSUME m \notin A PROVE FALSE
      OBVIOUS
    <2>1. \A x \in A : x <= m /\ x # m /\ x \in 1..n
      OBVIOUS
    <2>2. m \in 0..n
      OBVIOUS
    <2>3. PICK x0 \in A : TRUE
      OBVIOUS
    <2>4. m >= 1 /\ \A x \in A : x <= m - 1
      BY <2>1, <2>2, <2>3
    <2>5. m - 1 \in B
      BY <2>2, <2>4
    <2> QED BY <1>2, <2>2, <2>5
  <1>4. m \in A /\ \A y \in A : m >= y
    BY <1>3
  <1> QED BY <1>4 DEF App!Max

\* On whose behalf a decision is made is somebody entitled to the step.
LEMMA AppPrincipal ==
    ASSUME AppInv, NEW i \in DOMAIN appRequests, NEW u \in AppUsers, App!MayDecide(i, u)
    PROVE  /\ App!Principal(i, u) \in AppUsers \cup {None}
           /\ App!eligibleForStep(AppStepsOf(appWorkflows, appRequests[i])[appRequests[i].step], App!Principal(i, u))
  <1> DEFINE step == AppStepsOf(appWorkflows, appRequests[i])[appRequests[i].step]
             D == App!Delegations(i, u)
  <1>1. App!currentStep(i) = step
    BY DEF App!currentStep, App!StepsOf, AppStepsOf
  <1>2. CASE App!eligibleForStep(step, u)
    BY <1>1, <1>2 DEF App!Principal
  <1>3. CASE ~App!eligibleForStep(step, u)
    <2>1. App!Principal(i, u) = appActions[App!Max(D)].from /\ D # {}
      BY <1>1, <1>3 DEF App!Principal, App!MayDecide
    <2>2. AppTables(appWorkflows, appRequests, appActions)
      BY DEF AppInv, AppRecords
    <2>3. D \subseteq DOMAIN appActions
      BY DEF App!Delegations, App!ActionsAt
    <2>4. App!Max(D) \in D
      <3> DEFINE n == Len(appActions)
      <3>1. n \in Nat /\ DOMAIN appActions = 1..n
        BY <2>2 DEF AppTables
      <3> HIDE DEF D, n
      <3>2. D \in SUBSET (1..n)
        BY <2>3, <3>1
      <3> QED BY <2>1, <3>1, <3>2, AppLatest
    <2> DEFINE a == App!Max(D)
               e == appActions[a]
    <2>5. e.request = i /\ e.step = appRequests[i].step /\ e.action = "delegated"
      <3> SUFFICES ASSUME NEW x \in D
                   PROVE  appActions[x].request = i /\ appActions[x].step = appRequests[i].step /\ appActions[x].action = "delegated"
        BY <2>4
      <3> QED BY DEF App!Delegations, App!ActionsAt
    <2>6. a \in DOMAIN appActions
      BY <2>3, <2>4
    <2> HIDE DEF a
    <2>7. AppActionOK(appWorkflows, appRequests, e) /\ e \in AppAction
      BY <2>2, <2>6, AppRows DEF AppInv, AppRecords, AppActionsOK
    <2> HIDE DEF e
    <2>8. App!eligibleForStep(step, e.from) /\ e.from \in AppUsers \cup {None}
      BY <2>5, <2>7 DEF AppActionOK, AppAction
    <2> QED BY <2>1, <2>8 DEF e, a
  <1> QED BY <1>2, <1>3

\* The line an action leaves on record.
AppEntry(i, u, from, action) ==
    [request |-> i, step |-> appRequests[i].step, user |-> u, from |-> from, action |-> action, at |-> appNow]

LEMMA AppEntered ==
    ASSUME AppInv, NEW i \in DOMAIN appRequests, NEW u \in AppUsers \cup {None}, NEW from \in AppUsers \cup {None},
           NEW action \in {"approved", "rejected", "expired", "delegated"}, App!Recorded(i, u, from, action)
    PROVE  LET e == AppEntry(i, u, from, action) IN
           /\ e \in AppAction /\ appActions' = Append(appActions, e)
           /\ e.request = i /\ e.step = appRequests[i].step /\ e.user = u /\ e.from = from
           /\ e.action = action /\ e.at = appNow
  <1>1. i \in Nat /\ appRequests[i] \in AppRow
    BY AppRows DEF AppInv, AppRecords
  <1>2. appRequests[i].step \in Nat /\ appNow \in Int
    BY <1>1 DEF AppInv, AppRow
  <1> QED BY <1>1, <1>2 DEF AppEntry, AppAction, App!Recorded

\* The transaction is given the status of its request, or is left to wait.
LEMMA AppTransaction ==
    ASSUME NEW rq \in Seq(AppRow), NEW tx, NEW sweeping, NEW wasCut, AppFollows(rq, tx, sweeping, wasCut),
           NEW i \in DOMAIN rq, rq[i].status = "pending",
           NEW row \in AppRow, NEW rq2, rq2 = [rq EXCEPT ![i] = row],
           NEW tx2, \/ tx2 = [tx EXCEPT ![i] = row.status] /\ row.status # "pending"
                    \/ tx2 = tx /\ row.status = "pending"
    PROVE  AppFollows(rq2, tx2, sweeping, wasCut)
  <1> DEFINE T == {"approval_pending", "approved", "rejected", "expired"}
  <1>1. tx \in Seq(T) /\ Len(tx) = Len(rq) /\ row.status \in T \cup {"pending"}
    BY DEF AppFollows, AppRow, AppStatus
  <1>2. /\ DOMAIN rq = 1..Len(rq) /\ DOMAIN rq2 = DOMAIN rq /\ Len(rq2) = Len(rq)
        /\ rq2[i] = row /\ \A j \in DOMAIN rq : j # i => rq2[j] = rq[j]
    <2> DEFINE S == AppRow
    <2>1. rq \in Seq(S) /\ row \in S
      OBVIOUS
    <2> HIDE DEF S
    <2> QED BY <2>1
  <1> HIDE DEF T
  <1>3. tx2 \in Seq(T) /\ Len(tx2) = Len(rq2)
    BY <1>1, <1>2
  <1>4. \A j \in DOMAIN rq : j # i => tx2[j] = tx[j]
    BY <1>1, <1>2
  <1>5. tx2[i] = row.status \/ (tx2[i] = tx[i] /\ row.status = "pending")
    BY <1>1, <1>2
  <1>6. ASSUME NEW j \in DOMAIN rq2
        PROVE  \/ tx2[j] = rq2[j].status
               \/ tx2[j] = "approval_pending" /\ rq2[j].status = "pending"
               \/ tx2[j] = "approval_pending" /\ rq2[j].status = "expired" /\ (sweeping = "second" \/ wasCut)
    BY <1>2, <1>4, <1>5 DEF AppFollows
  <1> QED BY <1>3, <1>6 DEF T, AppFollows

\* An action on an open request, the row it leaves and the transaction's status.
LEMMA AppActInv ==
    ASSUME AppInv, NEW i \in DOMAIN appRequests, appRequests[i].status = "pending",
           NEW e \in AppAction, appActions' = Append(appActions, e),
           e.request = i, e.step = appRequests[i].step, e.at = appNow,
           NEW row \in AppRow, AppRowOK(appWorkflows, row),
           row.workflow = appRequests[i].workflow, row.expires = appRequests[i].expires,
           appRequests' = [appRequests EXCEPT ![i] = row],
           \/ appTxs' = [appTxs EXCEPT ![i] = row.status] /\ row.status # "pending"
           \/ appTxs' = appTxs /\ row.status = "pending",
           UNCHANGED <<appWorkflows, appSweep, appCut, appNow>>,
           e.action \in {"approved", "delegated"} =>
             App!eligibleForStep(AppStepsOf(appWorkflows, appRequests[i])[appRequests[i].step], e.from),
           e.action = "approved" =>
             /\ appNow < row.expires
             /\ \A a \in AppApproved(appActions, i, appRequests[i].step) : appActions[a].user # e.user,
           e.action = "rejected" => row.status = "rejected",
           \/ row.step = appRequests[i].step
           \/ /\ row.step = appRequests[i].step + 1 /\ e.action = "approved"
              /\ Cardinality(AppApproved(appActions, i, appRequests[i].step)) + 1
                   >= AppStepsOf(appWorkflows, appRequests[i])[appRequests[i].step].required
    PROVE  AppInv'
  <1> DEFINE r == appRequests[i]
  <1>1. AppRecords(appWorkflows, appRequests, appActions) /\ AppTables(appWorkflows, appRequests, appActions)
    BY DEF AppInv, AppRecords
  <1>2. r \in AppRow /\ AppRowOK(appWorkflows, r)
    BY <1>1, AppRows DEF AppTables
  <1>3. /\ DOMAIN appRequests' = DOMAIN appRequests /\ appRequests'[i] = row
        /\ \A j \in DOMAIN appRequests : j # i => appRequests'[j] = appRequests[j]
    OBVIOUS
  <1>4. AppActionOK(appWorkflows, appRequests', e)
    <2>1. AppStepsOf(appWorkflows, appRequests'[i]) = AppStepsOf(appWorkflows, r)
      BY <1>3 DEF AppStepsOf
    <2>2. r.step \in DOMAIN AppStepsOf(appWorkflows, r)
      BY <1>2 DEF AppRowOK
    <2>3. /\ e.action \in {"approved", "delegated"} => App!eligibleForStep(AppStepsOf(appWorkflows, appRequests'[i])[e.step], e.from)
          /\ e.action = "approved" => e.at < appRequests'[i].expires
          /\ e.action = "rejected" => appRequests'[i].status = "rejected"
      BY <1>3, <2>1
    <2> QED BY <1>3, <2>1, <2>2, <2>3 DEF AppActionOK
  <1>5. AppRecords(appWorkflows, appRequests', appActions')
    BY <1>1, <1>4, AppRecord
  <1>6. AppFollows(appRequests, appTxs, appSweep, appCut) /\ appRequests \in Seq(AppRow)
    BY <1>1 DEF AppInv, AppTables
  <1>7. AppFollows(appRequests', appTxs', appSweep, appCut)
    <2>1. CASE appTxs' = [appTxs EXCEPT ![i] = row.status] /\ row.status # "pending"
      BY <1>6, <2>1, AppTransaction
    <2>2. CASE appTxs' = appTxs /\ row.status = "pending"
      BY <1>6, <2>2, AppTransaction
    <2> QED BY <2>1, <2>2
  <1> QED BY <1>5, <1>7 DEF AppInv

\* An open request, and who may decide it.
LEMMA AppOpen ==
    ASSUME AppInv, NEW i \in DOMAIN appRequests, appRequests[i].status = "pending"
    PROVE  /\ appRequests[i] \in AppRow /\ AppRowOK(appWorkflows, appRequests[i])
           /\ appRequests[i].step \in Nat /\ appRequests[i].step <= Len(AppStepsOf(appWorkflows, appRequests[i]))
           /\ Len(AppStepsOf(appWorkflows, appRequests[i])) \in Nat
           /\ App!currentStep(i) = AppStepsOf(appWorkflows, appRequests[i])[appRequests[i].step]
           /\ App!StepsOf(i) = AppStepsOf(appWorkflows, appRequests[i])
           /\ App!ActionsAt(i, appRequests[i].step, "approved") = AppApproved(appActions, i, appRequests[i].step)
  <1>1. AppTables(appWorkflows, appRequests, appActions)
    BY DEF AppInv, AppRecords
  <1>2. appRequests[i] \in AppRow /\ AppRowOK(appWorkflows, appRequests[i])
    BY <1>1, AppRows DEF AppTables
  <1>3. Len(AppStepsOf(appWorkflows, appRequests[i])) \in Nat
        /\ DOMAIN AppStepsOf(appWorkflows, appRequests[i]) = 1..Len(AppStepsOf(appWorkflows, appRequests[i]))
    BY <1>1, AppSteps
  <1>4. appRequests[i].step \in Nat /\ appRequests[i].step \in DOMAIN AppStepsOf(appWorkflows, appRequests[i])
    BY <1>2 DEF AppRow, AppRowOK
  <1>5. App!StepsOf(i) = AppStepsOf(appWorkflows, appRequests[i])
    BY DEF App!StepsOf, AppStepsOf
  <1>6. App!ActionsAt(i, appRequests[i].step, "approved") = AppApproved(appActions, i, appRequests[i].step)
    BY DEF App!ActionsAt, AppApproved
  <1> QED BY <1>2, <1>3, <1>4, <1>5, <1>6 DEF App!currentStep

LEMMA AppRejectInv ==
    ASSUME AppInv, NEW i \in DOMAIN appRequests, NEW u \in AppUsers, App!Reject(i, u)
    PROVE  AppInv'
  <1> DEFINE r == appRequests[i]
             row == [r EXCEPT !.status = "rejected"]
             e == AppEntry(i, u, App!Principal(i, u), "rejected")
  <1>1. /\ App!MayDecide(i, u) /\ App!Recorded(i, u, App!Principal(i, u), "rejected")
        /\ appRequests' = [appRequests EXCEPT ![i] = row] /\ appTxs' = [appTxs EXCEPT ![i] = "rejected"]
        /\ UNCHANGED <<appWorkflows, appSweep, appCut, appNow>>
    BY DEF App!Reject
  <1>2. r.status = "pending"
    BY <1>1 DEF App!MayDecide, App!IsOpen
  <1>3. App!Principal(i, u) \in AppUsers \cup {None}
    BY <1>1, AppPrincipal
  <1>4. row \in AppRow /\ row.workflow = r.workflow /\ row.expires = r.expires /\ row.step = r.step /\ row.status = "rejected"
    BY <1>2, AppOpen DEF AppRow, AppStatus
  <1>5. AppRowOK(appWorkflows, row)
    BY <1>2, <1>4, AppOpen DEF AppRowOK, AppStepsOf
  <1>6. /\ e \in AppAction /\ appActions' = Append(appActions, e)
        /\ e.request = i /\ e.step = r.step /\ e.user = u /\ e.from = App!Principal(i, u) /\ e.action = "rejected" /\ e.at = appNow
    BY <1>1, <1>3, AppEntered
  <1> HIDE DEF e
  <1> HIDE DEF row
  <1> QED BY <1>1, <1>2, <1>4, <1>5, <1>6, AppActInv

LEMMA AppLateInv == ASSUME AppInv, NEW i \in DOMAIN appRequests, App!DecideLate(i) PROVE AppInv'
  <1> DEFINE r == appRequests[i]
             row == [r EXCEPT !.status = "expired"]
             e == AppEntry(i, None, None, "expired")
  <1>1. /\ r.status = "pending" /\ App!Recorded(i, None, None, "expired")
        /\ appRequests' = [appRequests EXCEPT ![i] = row] /\ appTxs' = [appTxs EXCEPT ![i] = "expired"]
        /\ UNCHANGED <<appWorkflows, appSweep, appCut, appNow>>
    BY DEF App!DecideLate
  <1>2. row \in AppRow /\ row.workflow = r.workflow /\ row.expires = r.expires /\ row.step = r.step /\ row.status = "expired"
    BY <1>1, AppOpen DEF AppRow, AppStatus
  <1>3. AppRowOK(appWorkflows, row)
    BY <1>1, <1>2, AppOpen DEF AppRowOK, AppStepsOf
  <1>4. /\ e \in AppAction /\ appActions' = Append(appActions, e)
        /\ e.request = i /\ e.step = r.step /\ e.user = None /\ e.from = None /\ e.action = "expired" /\ e.at = appNow
    <2>1. App!Recorded(i, None, None, "expired") /\ None \in AppUsers \cup {None}
      BY <1>1
    <2> HIDE DEF row
    <2> QED BY ONLY <2>1, AppInv, i \in DOMAIN appRequests, AppEntered
  <1> HIDE DEF e
  <1> HIDE DEF row
  <1> QED BY <1>1, <1>2, <1>3, <1>4, AppActInv

LEMMA AppDelegateInv ==
    ASSUME AppInv, NEW i \in DOMAIN appRequests, NEW from \in AppUsers, NEW to \in AppUsers, App!Delegate(i, from, to)
    PROVE  AppInv'
  <1> DEFINE r == appRequests[i]
             e == AppEntry(i, to, from, "delegated")
  <1>1. /\ r.status = "pending" /\ App!Recorded(i, to, from, "delegated") /\ App!eligibleForStep(App!currentStep(i), from)
        /\ UNCHANGED <<appWorkflows, appRequests, appTxs, appSweep, appCut, appNow>>
    BY DEF App!Delegate
  <1>2. r \in AppRow /\ AppRowOK(appWorkflows, r)
    BY <1>1, AppOpen
  <1>3. App!eligibleForStep(AppStepsOf(appWorkflows, r)[r.step], from)
    BY <1>1, AppOpen
  <1>4. appRequests' = [appRequests EXCEPT ![i] = r]
    <2> DEFINE S == AppRow
    <2>1. appRequests \in Seq(S)
      BY DEF AppInv, AppRecords, AppTables
    <2> HIDE DEF S
    <2> QED BY <1>1, <2>1
  <1>5. /\ e \in AppAction /\ appActions' = Append(appActions, e)
        /\ e.request = i /\ e.step = r.step /\ e.user = to /\ e.from = from /\ e.action = "delegated" /\ e.at = appNow
    BY <1>1, AppEntered
  <1> HIDE DEF e
  <1> QED BY <1>1, <1>2, <1>3, <1>4, <1>5, AppActInv

LEMMA AppApproveInv ==
    ASSUME AppInv, NEW i \in DOMAIN appRequests, NEW u \in AppUsers, App!Approve(i, u)
    PROVE  AppInv'
  <1> DEFINE r == appRequests[i]
             steps == AppStepsOf(appWorkflows, r)
             last == r.step = Len(steps)
             status == IF last THEN "approved" ELSE r.status
             row == [r EXCEPT !.step = r.step + 1, !.status = status]
             e == AppEntry(i, u, App!Principal(i, u), "approved")
  <1>1. /\ App!MayDecide(i, u) /\ App!Recorded(i, u, App!Principal(i, u), "approved")
        /\ UNCHANGED <<appWorkflows, appSweep, appCut, appNow>>
    BY DEF App!Approve
  <1>2. r.status = "pending" /\ appNow < r.expires /\ ~App!HasApproved(i, u)
    BY <1>1 DEF App!MayDecide, App!IsOpen
  <1>3. /\ r \in AppRow /\ AppRowOK(appWorkflows, r) /\ r.step \in Nat /\ r.step <= Len(steps) /\ Len(steps) \in Nat
        /\ App!currentStep(i) = steps[r.step] /\ App!StepsOf(i) = steps
        /\ App!ActionsAt(i, r.step, "approved") = AppApproved(appActions, i, r.step)
    BY <1>2, AppOpen
  <1>4. App!Principal(i, u) \in AppUsers \cup {None}
    BY <1>1, AppPrincipal
  <1>5. App!eligibleForStep(steps[r.step], App!Principal(i, u))
    BY <1>1, AppPrincipal
  <1>6. \A a \in AppApproved(appActions, i, r.step) : appActions[a].user # u
    BY <1>2, <1>3 DEF App!HasApproved
  <1>9. /\ e \in AppAction /\ appActions' = Append(appActions, e)
        /\ e.request = i /\ e.step = r.step /\ e.user = u /\ e.from = App!Principal(i, u) /\ e.action = "approved" /\ e.at = appNow
    BY <1>1, <1>4, AppEntered
  <1> HIDE DEF e
  <1>7. CASE ~App!StepIsComplete(i)
    <2>1. appRequests' = appRequests /\ appTxs' = appTxs
      BY <1>7 DEF App!Approve
    <2>2. appRequests' = [appRequests EXCEPT ![i] = r]
      <3> DEFINE S == AppRow
      <3>1. appRequests \in Seq(S)
        BY DEF AppInv, AppRecords, AppTables
      <3> HIDE DEF S
      <3> QED BY <2>1, <3>1
    <2> QED BY <1>1, <1>2, <1>3, <1>5, <1>6, <1>9, <2>1, <2>2, AppActInv
  <1>8. CASE App!StepIsComplete(i)
    <2>1. Cardinality(AppApproved(appActions, i, r.step)) + 1 >= steps[r.step].required
      BY <1>3, <1>8, WalCardinality DEF App!StepIsComplete
    <2>3. appRequests' = [appRequests EXCEPT ![i] = row]
      BY <1>3, <1>8 DEF App!Approve
    <2>4. appTxs' = IF last THEN [appTxs EXCEPT ![i] = "approved"] ELSE appTxs
      BY <1>3, <1>8 DEF App!Approve
    <2>5. status \in AppStatus /\ status = IF last THEN "approved" ELSE "pending"
      BY <1>2 DEF AppStatus
    <2> HIDE DEF status
    <2>6. /\ row \in AppRow /\ row.workflow = r.workflow /\ row.expires = r.expires
          /\ row.step = r.step + 1 /\ row.status = status
      <3> DEFINE q == [r EXCEPT !.step = r.step + 1]
      <3>1. q \in AppRow /\ q.workflow = r.workflow /\ q.expires = r.expires /\ q.step = r.step + 1
        BY <1>3 DEF AppRow
      <3>2. row = [q EXCEPT !.status = status]
        OBVIOUS
      <3> HIDE DEF q, row
      <3> QED BY <2>5, <3>1, <3>2 DEF AppRow
    <2>7. AppRowOK(appWorkflows, row)
      <3>1. AppStepsOf(appWorkflows, row) = steps
        BY DEF AppStepsOf
      <3>2. DOMAIN steps = 1..Len(steps) /\ r.workflow \in DOMAIN appWorkflows
        BY AppSteps DEF AppInv, AppRecords
      <3> HIDE DEF row, steps
      <3> QED BY <1>3, <2>5, <2>6, <3>1, <3>2 DEF AppRowOK
    <2> HIDE DEF row
    <2>8. \/ appTxs' = [appTxs EXCEPT ![i] = row.status] /\ row.status # "pending"
          \/ appTxs' = appTxs /\ row.status = "pending"
      BY <2>4, <2>5, <2>6
    <2> QED BY <1>1, <1>2, <1>5, <1>6, <1>9, <2>1, <2>3, <2>6, <2>7, <2>8, AppActInv
  <1> QED BY <1>7, <1>8

LEMMA AppExpireInv == ASSUME AppInv, App!ExpireRequests PROVE AppInv'
  <1> DEFINE n == Len(appRequests)
             Late(i) == appRequests[i].status = "pending" /\ appRequests[i].expires <= appNow
             Row(i) == IF Late(i) THEN [appRequests[i] EXCEPT !.status = "expired"] ELSE appRequests[i]
  <1>1. /\ appRequests' = [i \in DOMAIN appRequests |-> Row(i)] /\ appSweep' = "second"
        /\ UNCHANGED <<appWorkflows, appTxs, appActions, appCut, appNow>>
    BY DEF App!ExpireRequests, App!TimedOut, App!Ids
  <1>2. AppTables(appWorkflows, appRequests, appActions)
    BY DEF AppInv, AppRecords
  <1>3. n \in Nat /\ DOMAIN appRequests = 1..n
    BY <1>2, AppRows
  <1>4. ASSUME NEW i \in DOMAIN appRequests
        PROVE  /\ Row(i) \in AppRow /\ AppRowOK(appWorkflows, Row(i))
               /\ Row(i).workflow = appRequests[i].workflow /\ Row(i).expires = appRequests[i].expires
               /\ Row(i).step = appRequests[i].step
               /\ Row(i).status = IF Late(i) THEN "expired" ELSE appRequests[i].status
    <2>1. appRequests[i] \in AppRow /\ AppRowOK(appWorkflows, appRequests[i])
      BY <1>2, AppRows DEF AppTables
    <2>2. CASE Late(i)
      <3> DEFINE row == [appRequests[i] EXCEPT !.status = "expired"]
      <3>1. /\ row \in AppRow /\ row.workflow = appRequests[i].workflow /\ row.expires = appRequests[i].expires
            /\ row.step = appRequests[i].step /\ row.status = "expired"
        BY <2>1 DEF AppRow, AppStatus
      <3>2. AppRowOK(appWorkflows, row)
        BY <2>1, <3>1 DEF AppRowOK, AppStepsOf
      <3>3. Row(i) = row
        BY <2>2
      <3> HIDE DEF row, Row, Late
      <3> QED BY <2>2, <3>1, <3>2, <3>3
    <2>3. CASE ~Late(i)
      <3>1. Row(i) = appRequests[i]
        BY <2>3
      <3> HIDE DEF Row, Late
      <3> QED BY <2>1, <2>3, <3>1
    <2> QED BY <2>2, <2>3
  <1> HIDE DEF Row
  <1>5. /\ appRequests' \in Seq(AppRow) /\ Len(appRequests') = n /\ DOMAIN appRequests' = 1..n
        /\ \A i \in 1..n : appRequests'[i] = Row(i)
    <2> DEFINE S == AppRow
    <2>1. \A i \in 1..n : Row(i) \in S
      BY <1>3, <1>4
    <2> HIDE DEF S, n
    <2>2. appRequests' = [i \in 1..n |-> Row(i)]
      BY <1>1, <1>3
    <2> QED BY <1>3, <2>1, <2>2 DEF S
  <1> HIDE DEF n
  <1>6. AppTables(appWorkflows, appRequests', appActions)
    BY <1>2, <1>3, <1>4, <1>5 DEF AppTables
  <1>7. \A i \in DOMAIN appRequests :
          /\ appRequests'[i].workflow = appRequests[i].workflow /\ appRequests'[i].expires = appRequests[i].expires
          /\ appRequests'[i].step = appRequests[i].step
          /\ appRequests[i].status = "rejected" => appRequests'[i].status = "rejected"
    BY <1>3, <1>4, <1>5
  <1>8. AppActionsOK(appWorkflows, appRequests', appActions)
    BY <1>2, <1>3, <1>5, <1>7, AppActionsStay DEF AppInv, AppRecords
  <1>9. AppComplete(appWorkflows, appRequests', appActions)
    BY <1>2, <1>3, <1>5, <1>7, AppCompleteStays DEF AppInv, AppRecords
  <1>10. AppFollows(appRequests', appTxs, "second", appCut)
    <2>1. Len(appTxs) = n /\ appTxs \in Seq({"approval_pending", "approved", "rejected", "expired"})
      BY DEF AppInv, AppFollows, n
    <2>2. ASSUME NEW i \in 1..n
          PROVE  \/ appTxs[i] = appRequests'[i].status
                 \/ appTxs[i] = "approval_pending" /\ appRequests'[i].status = "pending"
                 \/ appTxs[i] = "approval_pending" /\ appRequests'[i].status = "expired"
      <3>1. appTxs[i] \in {"approval_pending", "approved", "rejected", "expired"}
        BY <1>3, <2>1
      <3>2. \/ appTxs[i] = appRequests[i].status
            \/ appTxs[i] = "approval_pending" /\ appRequests[i].status \in {"pending", "expired"}
        BY <1>3 DEF AppInv, AppFollows
      <3> QED BY <1>3, <1>4, <1>5, <3>1, <3>2
    <2> QED BY <1>5, <2>1, <2>2 DEF AppFollows
  <1> QED BY <1>1, <1>6, <1>8, <1>9, <1>10 DEF AppInv, AppRecords

LEMMA AppFinishInv == ASSUME AppInv, App!ExpireTransactions PROVE AppInv'
  <1> DEFINE n == Len(appRequests)
             T == {"approval_pending", "approved", "rejected", "expired"}
             tx(i) == IF appTxs[i] = "approval_pending" /\ appRequests[i].status = "expired" THEN "expired" ELSE appTxs[i]
  <1>1. appTxs' = [i \in DOMAIN appRequests |-> tx(i)] /\ UNCHANGED <<appWorkflows, appRequests, appActions, appNow>>
    BY DEF App!ExpireTransactions, App!Ids
  <1>2. n \in Nat /\ DOMAIN appRequests = 1..n /\ Len(appTxs) = n /\ appTxs \in Seq(T)
    BY AppRows DEF AppInv, AppRecords, AppFollows
  <1>3. ASSUME NEW i \in 1..n
        PROVE  /\ tx(i) \in T
               /\ \/ tx(i) = appRequests[i].status
                  \/ tx(i) = "approval_pending" /\ appRequests[i].status = "pending"
    <2>1. appTxs[i] \in T
      BY <1>2
    <2>2. \/ appTxs[i] = appRequests[i].status
          \/ appTxs[i] = "approval_pending" /\ appRequests[i].status \in {"pending", "expired"}
      BY <1>2 DEF AppInv, AppFollows
    <2> QED BY <2>1, <2>2
  <1> HIDE DEF n, tx, T
  <1>4. appTxs' \in Seq(T) /\ Len(appTxs') = n /\ \A i \in 1..n : appTxs'[i] = tx(i)
    <2>1. appTxs' = [i \in 1..n |-> tx(i)]
      BY <1>1, <1>2
    <2> QED BY <1>2, <1>3, <2>1
  <1>5. AppFollows(appRequests, appTxs', appSweep', appCut')
    BY <1>2, <1>3, <1>4 DEF AppFollows, n, T
  <1> QED BY <1>1, <1>5 DEF AppInv

LEMMA AppOtherInv ==
    ASSUME AppInv, App!SweepCut \/ App!Tick \/ UNCHANGED App!vars
    PROVE  AppInv'
  <1>1. CASE App!SweepCut
    <2>1. UNCHANGED <<appWorkflows, appRequests, appTxs, appActions, appNow>> /\ appCut' = TRUE
      BY <1>1 DEF App!SweepCut
    <2>2. AppFollows(appRequests, appTxs, appSweep', appCut')
      BY <2>1 DEF AppInv, AppFollows
    <2> QED BY <2>1, <2>2 DEF AppInv
  <1>2. CASE App!Tick
    BY <1>2 DEF App!Tick, AppInv
  <1>3. CASE UNCHANGED App!vars
    BY <1>3 DEF App!vars, AppInv
  <1> QED BY <1>1, <1>2, <1>3

LEMMA AppNextInv == AppInv /\ [App!Next]_(App!vars) => AppInv'
  <1> SUFFICES ASSUME AppInv, [App!Next]_(App!vars) PROVE AppInv'
    OBVIOUS
  <1>1. CASE App!Next
    BY <1>1, AppWorkflowInv, AppRequestInv, AppApproveInv, AppRejectInv, AppDelegateInv, AppLateInv,
       AppExpireInv, AppFinishInv, AppOtherInv DEF App!Next, App!Ids
  <1> QED BY <1>1, AppOtherInv

\* Approvals of a step are as many as the users who approved it.
LEMMA AppApproverCount ==
    ASSUME AppInv, NEW i, NEW k
    PROVE  Cardinality(App!Approvers(i, k)) = Cardinality(AppApproved(appActions, i, k))
  <1> DEFINE S == AppApproved(appActions, i, k)
             T == App!Approvers(i, k)
             f == [a \in S |-> appActions[a].user]
  <1>1. AppTables(appWorkflows, appRequests, appActions) /\ AppDistinct(appActions)
    BY DEF AppInv, AppRecords
  <1>2. IsFiniteSet(S)
    <2> DEFINE n == Len(appActions)
    <2>1. n \in Nat /\ DOMAIN appActions = 1..n
      BY <1>1, AppRows
    <2>2. S \subseteq DOMAIN appActions
      BY DEF AppApproved
    <2> HIDE DEF n, S
    <2>3. IsFiniteSet(1..n)
      BY <2>1, FS_Interval
    <2> QED BY <2>1, <2>2, <2>3, FS_Subset
  <1>3. T = {appActions[a].user : a \in S}
    BY DEF App!Approvers, App!ActionsAt, AppApproved
  <1>4. f \in [S -> T] /\ \A t \in T : \E a \in S : f[a] = t
    <2> HIDE DEF S, T
    <2> QED BY <1>3
  <1>5. ASSUME NEW a \in S, NEW b \in S, f[a] = f[b] PROVE a = b
    <2>1. appActions[a].user = appActions[b].user
      BY <1>5
    <2> QED BY <1>1, <2>1 DEF AppDistinct, AppApproved
  <1> HIDE DEF S, T, f
  <1>6. f \in Surjection(S, T)
    BY <1>4 DEF Surjection
  <1>7. f \in Injection(S, T)
    BY <1>4, <1>5 DEF Injection, IsInjective
  <1>8. Cardinality(T) = Cardinality(S)
    BY <1>2, <1>6, <1>7, FS_Surjection
  <1> QED BY <1>8 DEF S, T

LEMMA AppInvMeans == AppInv => App!ReleasedByFullChain
  <1> SUFFICES ASSUME AppInv, NEW i \in DOMAIN appRequests
               PROVE  /\ appTxs[i] = "approved" =>
                           /\ \A k \in DOMAIN App!StepsOf(i) :
                               /\ App!Cardinality(App!Approvers(i, k)) >= App!StepsOf(i)[k].required
                               /\ \A a \in App!ActionsAt(i, k, "approved") :
                                   /\ appActions[a].at < appRequests[i].expires
                                   /\ App!eligibleForStep(App!StepsOf(i)[k], appActions[a].from)
                               /\ App!ActionsAt(i, k, "rejected") = {}
                      /\ \/ appTxs[i] = appRequests[i].status
                         \/ appTxs[i] = "approval_pending" /\ appRequests[i].status = "pending"
                         \/ appTxs[i] = "approval_pending" /\ appRequests[i].status = "expired" /\ (appSweep = "second" \/ appCut)
    BY DEF App!ReleasedByFullChain, App!Ids
  <1>1. \/ appTxs[i] = appRequests[i].status
        \/ appTxs[i] = "approval_pending" /\ appRequests[i].status = "pending"
        \/ appTxs[i] = "approval_pending" /\ appRequests[i].status = "expired" /\ (appSweep = "second" \/ appCut)
    BY DEF AppInv, AppFollows
  <1>2. ASSUME appTxs[i] = "approved", NEW k \in DOMAIN App!StepsOf(i)
        PROVE  /\ App!Cardinality(App!Approvers(i, k)) >= App!StepsOf(i)[k].required
               /\ \A a \in App!ActionsAt(i, k, "approved") :
                   /\ appActions[a].at < appRequests[i].expires
                   /\ App!eligibleForStep(App!StepsOf(i)[k], appActions[a].from)
               /\ App!ActionsAt(i, k, "rejected") = {}
    <2> DEFINE steps == AppStepsOf(appWorkflows, appRequests[i])
    <2>1. appRequests[i].status = "approved"
      BY <1>1, <1>2
    <2>2. /\ AppTables(appWorkflows, appRequests, appActions) /\ AppActionsOK(appWorkflows, appRequests, appActions)
          /\ AppComplete(appWorkflows, appRequests, appActions)
      BY DEF AppInv, AppRecords
    <2>3. App!StepsOf(i) = steps
      BY DEF App!StepsOf, AppStepsOf
    <2>4. appRequests[i].step = Len(steps) + 1 /\ DOMAIN steps = 1..Len(steps) /\ Len(steps) \in Nat
      BY <2>1, <2>2, AppSteps DEF AppTables, AppRowOK
    <2>5. k \in 1..(appRequests[i].step - 1)
      BY <1>2, <2>3, <2>4
    <2>6. Cardinality(AppApproved(appActions, i, k)) >= steps[k].required
      BY <2>2, <2>5 DEF AppComplete
    <2>7. App!Cardinality(App!Approvers(i, k)) >= App!StepsOf(i)[k].required
      BY <2>3, <2>6, AppApproverCount, WalCardinality
    <2>8. ASSUME NEW a \in App!ActionsAt(i, k, "approved")
          PROVE  /\ appActions[a].at < appRequests[i].expires
                 /\ App!eligibleForStep(App!StepsOf(i)[k], appActions[a].from)
      <3>1. /\ a \in DOMAIN appActions /\ appActions[a].request = i
            /\ appActions[a].step = k /\ appActions[a].action = "approved"
        BY DEF App!ActionsAt
      <3>2. AppActionOK(appWorkflows, appRequests, appActions[a])
        BY <2>2, <3>1 DEF AppActionsOK
      <3> QED BY <2>3, <3>1, <3>2 DEF AppActionOK
    <2>9. App!ActionsAt(i, k, "rejected") = {}
      <3> SUFFICES ASSUME NEW a \in App!ActionsAt(i, k, "rejected") PROVE FALSE
        OBVIOUS
      <3>1. a \in DOMAIN appActions /\ appActions[a].request = i /\ appActions[a].action = "rejected"
        BY DEF App!ActionsAt
      <3>2. AppActionOK(appWorkflows, appRequests, appActions[a])
        BY <2>2, <3>1 DEF AppActionsOK
      <3> QED BY <2>1, <3>1, <3>2 DEF AppActionOK
    <2> QED BY <2>7, <2>8, <2>9
  <1> QED BY <1>1, <1>2

(***************************************************************************)
(* A transfer is released only by a complete chain, and a proposal of a    *)
(* wallet approved or executed only with the threshold of owners behind    *)
(* it, whoever delegates, comes late or is interrupted.                    *)
(***************************************************************************)
THEOREM ApprovalsBacked == App!Spec /\ App!WalletSpec => []ApprovalsAreBacked
  <1>1. App!Spec => []AppInv
    BY AppInvInit, AppNextInv, PTL DEF App!Spec
  <1>2. App!WalletSpec => []WalInv
    BY WalInvInit, WalNextInv, PTL DEF App!WalletSpec
  <1>3. AppInv /\ WalInv => ApprovalsAreBacked
    BY AppInvMeans, WalInvMeans DEF ApprovalsAreBacked
  <1> QED BY <1>1, <1>2, <1>3, PTL

-----------------------------------------------------------------------------
(* Batches of transfers                                                    *)

BatStatuses == {"queued", "processing", "completed", "completed_with_errors", "failed", "rolled_back"}

BatRow == [status : BatStatuses, ops : {"given", "results"}, retries : Nat, retryable : BOOLEAN]

BatOutcomes == {"completed", "completed_with_errors", "transient", "permanent"}

BatTask(ids) ==
    {q \in [pc : {"mark", "run", "finish"}, id : ids, ops : {"given", "results"}, outcome : BatOutcomes \cup {None}] :
        q.pc = "finish" => q.outcome \in BatOutcomes}

BatAt(q, i) == q.pc # "new" /\ q.id = i

BatTyped ==
    /\ batBatches \in Seq(BatRow)
    /\ batCommitted \in Seq(Nat) /\ Len(batCommitted) = Len(batBatches)
    /\ batCancelled \subseteq DOMAIN batBatches
    /\ batQueue \in Seq(Nat) /\ \A k \in DOMAIN batQueue : batQueue[k] \in DOMAIN batBatches
    /\ batWork = [w \in BatWorkers |-> batWork[w]]
    /\ \A w \in BatWorkers : batWork[w] = Bat!New \/ batWork[w] \in BatTask(DOMAIN batBatches)
    /\ batReq = [r \in BatReqs |-> batReq[r]]
    /\ \A r \in BatReqs : batReq[r].pc = "cancel" => batReq[r].id \in DOMAIN batBatches

\* What the row of a batch says of its commits: the operations are stored
\* until it has run, and whoever has run was processing.  Without a retry a
\* batch that waits, runs or is rolled back has not run, and one that failed
\* has committed nothing.
BatStage(row, n) ==
    /\ n <= 1
    /\ row.ops = "given" => row.status \in {"queued", "processing", "rolled_back"}
    /\ row.ops = "given" /\ row.status # "processing" => n = 0
    /\ row.status \in {"queued", "processing", "rolled_back"} /\ row.retries = 0 => row.ops = "given"
    /\ row.status \in {"completed", "completed_with_errors"} => n = 1
    /\ row.status = "failed" /\ row.retries = 0 => n = 0

\* What a worker knows of the batch it holds.
BatHeld(q, row, n) ==
    /\ q.ops = row.ops
    /\ row.status = (IF q.pc = "mark" THEN "queued" ELSE "processing")
    /\ q.pc = "run" /\ q.ops = "given" => n = 0
    /\ q.pc = "finish" =>
        /\ q.outcome \in Bat!Outcomes(q.ops)
        /\ q.outcome \in {"completed", "completed_with_errors"} => n = 1
        /\ q.outcome \in {"transient", "permanent"} /\ q.ops = "given" => n = 0

BatFine(i, row, n, gone, work) ==
    /\ BatStage(row, n)
    /\ i \in gone => row.status = "rolled_back"
    /\ \A w \in BatWorkers : BatAt(work[w], i) => BatHeld(work[w], row, n)
    /\ \A w, v \in BatWorkers : BatAt(work[w], i) /\ BatAt(work[v], i) => w = v

BatInv ==
    /\ BatTyped
    /\ \A i \in DOMAIN batBatches \ batRaced :
        BatFine(i, batBatches[i], batCommitted[i], batCancelled, batWork)

LEMMA BatTasks ==
    ASSUME BatTyped
    PROVE  /\ \A w \in BatWorkers : \A i : w \in Bat!At(i) <=> BatAt(batWork[w], i)
           /\ \A i : Bat!At(i) \subseteq BatWorkers
  <1> SUFFICES ASSUME NEW w \in BatWorkers PROVE \A i : w \in Bat!At(i) <=> BatAt(batWork[w], i)
    BY DEF Bat!At
  <1>1. batWork[w] # Bat!New <=> batWork[w].pc # "new"
    <2>1. CASE batWork[w] = Bat!New
      BY <2>1 DEF Bat!New
    <2>2. CASE batWork[w] \in BatTask(DOMAIN batBatches)
      <3>1. batWork[w].pc \in {"mark", "run", "finish"}
        BY <2>2 DEF BatTask
      <3> QED BY <3>1 DEF Bat!New
    <2> QED BY <2>1, <2>2 DEF BatTyped
  <1> QED BY <1>1 DEF BatAt, Bat!At

\* What is queued is queued behind the others, if at all.
LEMMA BatEnqueued ==
    ASSUME batQueue \in Seq(Nat), NEW ids, \A k \in DOMAIN batQueue : batQueue[k] \in ids,
           NEW i \in Nat, i \in ids, batQueue' = Bat!Enqueued(i) \/ batQueue' = Append(batQueue, i)
    PROVE  batQueue' \in Seq(Nat) /\ \A k \in DOMAIN batQueue' : batQueue'[k] \in ids
  <1>1. CASE batQueue' = batQueue
    BY <1>1
  <1>2. CASE batQueue' = Append(batQueue, i)
    <2>1. batQueue' \in Seq(Nat) /\ Len(batQueue') = Len(batQueue) + 1
      BY <1>2
    <2>2. \A k \in 1..(Len(batQueue) + 1) : batQueue'[k] = IF k <= Len(batQueue) THEN batQueue[k] ELSE i
      BY <1>2
    <2>3. DOMAIN batQueue' = 1..(Len(batQueue) + 1) /\ DOMAIN batQueue = 1..Len(batQueue)
      BY <2>1
    <2> QED BY <2>1, <2>2, <2>3
  <1> QED BY <1>1, <1>2 DEF Bat!Enqueued

\* A step that concerns one batch leaves the others as they are.
LEMMA BatMoved ==
    ASSUME BatInv, BatTyped', NEW i,
           batRaced \subseteq batRaced',
           \A j \in DOMAIN batBatches' : j # i =>
               /\ j \in DOMAIN batBatches
               /\ batBatches'[j] = batBatches[j] /\ batCommitted'[j] = batCommitted[j]
               /\ j \in batCancelled' => j \in batCancelled,
           \A w \in BatWorkers : \A j : j # i /\ BatAt(batWork'[w], j) => batWork'[w] = batWork[w],
           i \in DOMAIN batBatches' \ batRaced' =>
               BatFine(i, batBatches'[i], batCommitted'[i], batCancelled', batWork')
    PROVE  BatInv'
  <1> SUFFICES ASSUME NEW j \in DOMAIN batBatches' \ batRaced', j # i
               PROVE  BatFine(j, batBatches'[j], batCommitted'[j], batCancelled', batWork')
    BY DEF BatInv
  <1>1. BatFine(j, batBatches[j], batCommitted[j], batCancelled, batWork)
    BY DEF BatInv
  <1>2. \A w \in BatWorkers : BatAt(batWork'[w], j) => batWork'[w] = batWork[w] /\ BatAt(batWork[w], j)
    OBVIOUS
  <1> QED BY <1>1, <1>2 DEF BatFine

\* A new batch has no worker.
LEMMA BatSubmitInv == ASSUME BatInv, Bat!SubmitBatch PROVE BatInv'
  <1> DEFINE n == Len(batBatches)
             row == [status |-> "queued", ops |-> "given", retries |-> 0, retryable |-> TRUE]
  <1>1. /\ batBatches' = Append(batBatches, row) /\ batCommitted' = Append(batCommitted, 0)
        /\ batQueue' = Bat!Enqueued(n + 1)
        /\ UNCHANGED <<batWork, batReq, batCancelled, batRaced>>
    BY DEF Bat!SubmitBatch
  <1>2. row \in BatRow /\ row.status = "queued" /\ row.ops = "given"
    BY DEF BatRow, BatStatuses
  <1> HIDE DEF row
  <1>3. n \in Nat /\ DOMAIN batBatches = 1..n /\ Len(batCommitted) = n /\ batCommitted \in Seq(Nat) /\ batBatches \in Seq(BatRow)
    BY DEF BatInv, BatTyped
  <1>4. /\ batBatches' \in Seq(BatRow) /\ DOMAIN batBatches' = 1..(n + 1) /\ Len(batBatches') = n + 1
        /\ batBatches'[n + 1] = row /\ \A j \in 1..n : batBatches'[j] = batBatches[j]
    <2> HIDE DEF n
    <2> DEFINE S == BatRow
    <2> HIDE DEF S
    <2> QED BY <1>1, <1>2, <1>3 DEF n, S
  <1>5. /\ batCommitted' \in Seq(Nat) /\ Len(batCommitted') = n + 1
        /\ batCommitted'[n + 1] = 0 /\ \A j \in 1..n : batCommitted'[j] = batCommitted[j]
    BY <1>1, <1>3
  <1>6. batQueue' \in Seq(Nat) /\ \A k \in DOMAIN batQueue' : batQueue'[k] \in 1..(n + 1)
    <2>1. batQueue \in Seq(Nat) /\ \A k \in DOMAIN batQueue : batQueue[k] \in 1..n
      BY <1>3 DEF BatInv, BatTyped
    <2>2. n + 1 \in Nat /\ n + 1 \in 1..(n + 1) /\ 1..n \subseteq 1..(n + 1)
      BY <1>3
    <2> HIDE DEF n
    <2>3. \A k \in DOMAIN batQueue : batQueue[k] \in 1..(n + 1)
      BY <2>1, <2>2
    <2> QED BY <2>1, <2>2, <2>3, <1>1, BatEnqueued
  <1>7. \A w \in BatWorkers : batWork[w] = Bat!New \/ batWork[w] \in BatTask(1..n)
    BY <1>3 DEF BatInv, BatTyped
  <1>8. BatTyped'
    <2>1. \A w \in BatWorkers : batWork'[w] = Bat!New \/ batWork'[w] \in BatTask(DOMAIN batBatches')
      BY <1>1, <1>4, <1>7, <1>3 DEF BatTask
    <2> QED BY <2>1, <1>1, <1>3, <1>4, <1>5, <1>6 DEF BatInv, BatTyped
  <1>9. BatFine(n + 1, batBatches'[n + 1], batCommitted'[n + 1], batCancelled', batWork')
    <2>1. n + 1 \notin batCancelled' /\ \A w \in BatWorkers : ~BatAt(batWork'[w], n + 1)
      BY <1>1, <1>3, <1>7 DEF BatInv, BatTyped, BatAt, BatTask, Bat!New
    <2> QED BY <2>1, <1>2, <1>4, <1>5 DEF BatFine, BatStage
  <1> QED BY <1>1, <1>3, <1>4, <1>5, <1>8, <1>9, BatMoved

\* A batch whose row is replaced.
LEMMA BatRowSaved ==
    ASSUME BatTyped, NEW i \in DOMAIN batBatches, NEW row \in BatRow,
           batBatches' = [batBatches EXCEPT ![i] = row]
    PROVE  /\ batBatches' \in Seq(BatRow) /\ Len(batBatches') = Len(batBatches) /\ DOMAIN batBatches' = DOMAIN batBatches
           /\ batBatches'[i] = row /\ \A j \in DOMAIN batBatches : j # i => batBatches'[j] = batBatches[j]
           /\ i \in DOMAIN batCommitted /\ DOMAIN batCommitted = DOMAIN batBatches
  <1> DEFINE S == BatRow
  <1>1. batBatches \in Seq(S) /\ row \in S /\ batCommitted \in Seq(Nat) /\ Len(batCommitted) = Len(batBatches)
    BY DEF BatTyped
  <1> HIDE DEF S
  <1> QED BY <1>1 DEF S

LEMMA BatRead == ASSUME BatTyped, NEW i \in DOMAIN batBatches PROVE batBatches[i] \in BatRow /\ batCommitted[i] \in Nat
  <1> DEFINE S == BatRow
  <1>1. batBatches \in Seq(S) /\ batCommitted \in Seq(Nat) /\ Len(batCommitted) = Len(batBatches)
    BY DEF BatTyped
  <1> HIDE DEF S
  <1> QED BY <1>1 DEF S

\* A cancellation that finds the batch waiting and nobody at it.
LEMMA BatCancelInv == ASSUME BatInv, NEW r \in BatReqs, Bat!CancelBatch(r) PROVE BatInv'
  <1> DEFINE i == batReq[r].id
             row == [batBatches[i] EXCEPT !.status = "rolled_back"]
  <1>1. /\ batReq[r].pc = "cancel"
        /\ batBatches' = [batBatches EXCEPT ![i] = row]
        /\ batCancelled' = batCancelled \cup {i}
        /\ batRaced' = (IF batBatches[i].status # "queued" \/ Bat!At(i) # {} THEN batRaced \cup {i} ELSE batRaced)
        /\ batReq' = [batReq EXCEPT ![r] = Bat!Done]
        /\ UNCHANGED <<batQueue, batWork, batCommitted>>
    BY DEF Bat!CancelBatch
  <1>2. i \in DOMAIN batBatches /\ BatTyped
    BY <1>1 DEF BatInv, BatTyped
  <1>3. batBatches[i] \in BatRow /\ batCommitted[i] \in Nat
    BY <1>2, BatRead
  <1>4. row \in BatRow /\ row.status = "rolled_back" /\ row.ops = batBatches[i].ops /\ row.retries = batBatches[i].retries
    BY <1>3 DEF BatRow, BatStatuses
  <1> HIDE DEF row
  <1>5. /\ batBatches' \in Seq(BatRow) /\ Len(batBatches') = Len(batBatches) /\ DOMAIN batBatches' = DOMAIN batBatches
        /\ batBatches'[i] = row /\ \A j \in DOMAIN batBatches : j # i => batBatches'[j] = batBatches[j]
    BY <1>1, <1>2, <1>4, BatRowSaved
  <1>6. BatTyped'
    <2>1. /\ batReq' = [x \in BatReqs |-> batReq'[x]]
          /\ \A x \in BatReqs : batReq'[x].pc = "cancel" => batReq'[x].id \in DOMAIN batBatches'
      BY <1>1, <1>5 DEF BatInv, BatTyped, Bat!Done
    <2> HIDE DEF i
    <2> QED BY <2>1, <1>1, <1>2, <1>5 DEF BatTyped
  <1>7. ASSUME i \notin batRaced' PROVE BatFine(i, batBatches'[i], batCommitted'[i], batCancelled', batWork')
    <2>1. batBatches[i].status = "queued" /\ Bat!At(i) = {} /\ i \notin batRaced
      BY <1>1, <1>7
    <2>2. \A w \in BatWorkers : ~BatAt(batWork[w], i)
      BY <2>1, <1>2, BatTasks
    <2>3. BatStage(batBatches[i], batCommitted[i])
      BY <2>1, <1>2 DEF BatInv, BatFine
    <2>4. BatStage(row, batCommitted[i])
      BY <2>1, <2>3, <1>4 DEF BatStage
    <2> QED BY <2>2, <2>4, <1>1, <1>4, <1>5 DEF BatFine
  <1> HIDE DEF i
  <1> QED BY <1>1, <1>5, <1>6, <1>7, BatMoved

\* Only the first worker to take a batch holds it.
LEMMA BatTakeInv == ASSUME BatInv, NEW w \in BatWorkers, Bat!Take(w) PROVE BatInv'
  <1> DEFINE i == Head(batQueue)
             q == [pc |-> "mark", id |-> i, outcome |-> None, ops |-> batBatches[i].ops]
  <1>1. /\ batWork[w] = Bat!New /\ batQueue # <<>> /\ batQueue' = Tail(batQueue)
        /\ UNCHANGED <<batBatches, batReq, batCommitted, batCancelled>>
    BY DEF Bat!Take
  <1>2. BatTyped
    BY DEF BatInv
  <1>3. /\ i \in DOMAIN batBatches
        /\ batQueue' \in Seq(Nat) /\ \A k \in DOMAIN batQueue' : batQueue'[k] \in DOMAIN batBatches'
    BY <1>1, <1>2 DEF BatTyped
  <1>4. batBatches[i] \in BatRow /\ batCommitted[i] \in Nat
    BY <1>2, <1>3, BatRead
  <1>5. CASE ~Bat!StillQueued(i)
    <2>1. UNCHANGED <<batWork, batRaced>>
      BY <1>5 DEF Bat!Take
    <2> QED BY <2>1, <1>1, <1>2, <1>3 DEF BatInv, BatTyped
  <1>6. CASE Bat!StillQueued(i)
    <2>1. /\ batWork' = [batWork EXCEPT ![w] = q]
          /\ batRaced' = (IF Bat!At(i) # {} THEN batRaced \cup {i} ELSE batRaced)
      BY <1>6 DEF Bat!Take
    <2>2. batBatches[i].status = "queued"
      BY <1>6 DEF Bat!StillQueued
    <2>3. q \in BatTask(DOMAIN batBatches) /\ q.pc = "mark" /\ q.id = i /\ q.ops = batBatches[i].ops
      BY <1>3, <1>4 DEF BatTask, BatRow
    <2> HIDE DEF q
    <2>4. batWork'[w] = q /\ \A v \in BatWorkers : v # w => batWork'[v] = batWork[v]
      BY <2>1, <1>2 DEF BatTyped
    <2>5. BatTyped'
      <3>1. batWork' = [v \in BatWorkers |-> batWork'[v]]
        BY <2>1, <1>2 DEF BatTyped
      <3>2. \A v \in BatWorkers : batWork'[v] = Bat!New \/ batWork'[v] \in BatTask(DOMAIN batBatches')
        BY <2>3, <2>4, <1>1, <1>2 DEF BatTyped
      <3> QED BY <3>1, <3>2, <1>1, <1>2, <1>3 DEF BatTyped
    <2>6. ASSUME i \notin batRaced' PROVE BatFine(i, batBatches'[i], batCommitted'[i], batCancelled', batWork')
      <3>1. Bat!At(i) = {} /\ i \notin batRaced
        BY <2>1, <2>6
      <3>2. \A v \in BatWorkers : ~BatAt(batWork[v], i)
        BY <3>1, <1>2, BatTasks
      <3>3. BatStage(batBatches[i], batCommitted[i]) /\ (i \in batCancelled => batBatches[i].status = "rolled_back")
        BY <3>1, <1>3 DEF BatInv, BatFine
      <3>4. BatHeld(q, batBatches[i], batCommitted[i])
        BY <2>2, <2>3 DEF BatHeld
      <3> HIDE DEF i
      <3> QED BY <3>2, <3>3, <3>4, <2>4, <1>1 DEF BatFine
    <2>7. \A v \in BatWorkers : \A j : j # i /\ BatAt(batWork'[v], j) => batWork'[v] = batWork[v]
      BY <2>3, <2>4 DEF BatAt
    <2> HIDE DEF i
    <2> QED BY <2>1, <2>5, <2>6, <2>7, <1>1, BatMoved
  <1> QED BY <1>5, <1>6

\* A worker's task is replaced by one of the same batch.
LEMMA BatWorkSaved ==
    ASSUME BatTyped, NEW w \in BatWorkers, NEW q, batWork' = [batWork EXCEPT ![w] = q]
    PROVE  /\ batWork' = [v \in BatWorkers |-> batWork'[v]]
           /\ batWork'[w] = q /\ \A v \in BatWorkers : v # w => batWork'[v] = batWork[v]
  BY DEF BatTyped

LEMMA BatMarkInv == ASSUME BatInv, NEW w \in BatWorkers, Bat!Mark(w) PROVE BatInv'
  <1> DEFINE i == batWork[w].id
             row == [batBatches[i] EXCEPT !.status = "processing"]
             q == [batWork[w] EXCEPT !.pc = "run"]
  <1>1. /\ batWork[w].pc = "mark"
        /\ batBatches' = [batBatches EXCEPT ![i] = row]
        /\ batRaced' = (IF batBatches[i].status = "queued" THEN batRaced ELSE batRaced \cup {i})
        /\ batWork' = [batWork EXCEPT ![w] = q]
        /\ UNCHANGED <<batQueue, batReq, batCommitted, batCancelled>>
    BY DEF Bat!Mark, Bat!StillQueued
  <1>2. BatTyped /\ batWork[w] \in BatTask(DOMAIN batBatches)
    BY <1>1 DEF BatInv, BatTyped, Bat!New
  <1>3. /\ i \in DOMAIN batBatches
        /\ q \in BatTask(DOMAIN batBatches) /\ q.pc = "run" /\ q.id = i /\ q.ops = batWork[w].ops
    BY <1>2 DEF BatTask
  <1>4. batBatches[i] \in BatRow /\ batCommitted[i] \in Nat
    BY <1>2, <1>3, BatRead
  <1>5. row \in BatRow /\ row.status = "processing" /\ row.ops = batBatches[i].ops /\ row.retries = batBatches[i].retries
    BY <1>4 DEF BatRow, BatStatuses
  <1> HIDE DEF q, row
  <1>6. /\ batBatches' \in Seq(BatRow) /\ Len(batBatches') = Len(batBatches) /\ DOMAIN batBatches' = DOMAIN batBatches
        /\ batBatches'[i] = row /\ \A j \in DOMAIN batBatches : j # i => batBatches'[j] = batBatches[j]
    BY <1>1, <1>2, <1>3, <1>5, BatRowSaved
  <1>7. /\ batWork' = [v \in BatWorkers |-> batWork'[v]]
        /\ batWork'[w] = q /\ \A v \in BatWorkers : v # w => batWork'[v] = batWork[v]
    BY <1>1, <1>2, BatWorkSaved
  <1>8. BatTyped'
    <2>1. \A v \in BatWorkers : batWork'[v] = Bat!New \/ batWork'[v] \in BatTask(DOMAIN batBatches')
      BY <1>2, <1>3, <1>6, <1>7 DEF BatTyped
    <2> QED BY <2>1, <1>1, <1>2, <1>6, <1>7 DEF BatTyped
  <1>9. ASSUME i \notin batRaced' PROVE BatFine(i, batBatches'[i], batCommitted'[i], batCancelled', batWork')
    <2>1. BatFine(i, batBatches[i], batCommitted[i], batCancelled, batWork) /\ batBatches[i].status = "queued"
      BY <1>1, <1>3, <1>9 DEF BatInv
    <2>2. BatAt(batWork[w], i) /\ BatHeld(batWork[w], batBatches[i], batCommitted[i])
      BY <2>1, <1>1 DEF BatFine, BatAt
    <2>3. BatStage(row, batCommitted[i])
      BY <2>1, <1>5 DEF BatFine, BatStage
    <2>4. BatHeld(q, row, batCommitted[i])
      BY <2>1, <2>2, <1>1, <1>3, <1>4, <1>5 DEF BatHeld, BatFine, BatStage, BatRow
    <2>5. i \notin batCancelled
      BY <2>1 DEF BatFine
    <2>6. \A v \in BatWorkers : BatAt(batWork'[v], i) => v = w
      BY <2>1, <2>2, <1>7 DEF BatFine
    <2> QED BY <2>3, <2>4, <2>5, <2>6, <1>1, <1>6, <1>7 DEF BatFine
  <1>10. \A v \in BatWorkers : \A j : j # i /\ BatAt(batWork'[v], j) => batWork'[v] = batWork[v]
    BY <1>3, <1>7 DEF BatAt
  <1> HIDE DEF i
  <1> QED BY <1>1, <1>6, <1>8, <1>9, <1>10, BatMoved

\* Only operations as they were given can be committed, and only once.
LEMMA BatRunInv == ASSUME BatInv, NEW w \in BatWorkers, NEW o \in BatOutcomes, Bat!Run(w, o) PROVE BatInv'
  <1> DEFINE i == batWork[w].id
             q == [[batWork[w] EXCEPT !.pc = "finish"] EXCEPT !.outcome = o]
             n == IF o \in {"transient", "permanent"} THEN batCommitted[i] ELSE batCommitted[i] + 1
  <1>1. /\ batWork[w].pc = "run" /\ o \in Bat!Outcomes(batWork[w].ops)
        /\ batCommitted' = (IF o \in {"transient", "permanent"} THEN batCommitted ELSE [batCommitted EXCEPT ![i] = @ + 1])
        /\ UNCHANGED <<batBatches, batQueue, batReq, batCancelled, batRaced>>
    BY DEF Bat!Run
  <1>2. BatTyped /\ batWork[w] \in BatTask(DOMAIN batBatches)
    BY <1>1 DEF BatInv, BatTyped, Bat!New
  <1>3. /\ i \in DOMAIN batBatches
        /\ q \in BatTask(DOMAIN batBatches) /\ q.pc = "finish" /\ q.id = i /\ q.ops = batWork[w].ops /\ q.outcome = o
    BY <1>2 DEF BatTask
  <1>4. batWork' = [batWork EXCEPT ![w] = q]
    BY DEF Bat!Run
  <1>5. batBatches[i] \in BatRow /\ batCommitted[i] \in Nat
    BY <1>2, <1>3, BatRead
  <1> HIDE DEF q
  <1>6. /\ batWork' = [v \in BatWorkers |-> batWork'[v]]
        /\ batWork'[w] = q /\ \A v \in BatWorkers : v # w => batWork'[v] = batWork[v]
    BY <1>2, <1>4, BatWorkSaved
  <1>7. /\ batCommitted' \in Seq(Nat) /\ Len(batCommitted') = Len(batBatches) /\ batCommitted'[i] = n
        /\ \A j \in DOMAIN batBatches : j # i => batCommitted'[j] = batCommitted[j]
    BY <1>1, <1>2, <1>3, <1>5 DEF BatTyped
  <1>8. BatTyped'
    <2>1. \A v \in BatWorkers : batWork'[v] = Bat!New \/ batWork'[v] \in BatTask(DOMAIN batBatches')
      BY <1>1, <1>2, <1>3, <1>6 DEF BatTyped
    <2> QED BY <2>1, <1>1, <1>2, <1>6, <1>7 DEF BatTyped
  <1>9. ASSUME i \notin batRaced' PROVE BatFine(i, batBatches'[i], batCommitted'[i], batCancelled', batWork')
    <2>1. BatFine(i, batBatches[i], batCommitted[i], batCancelled, batWork)
      BY <1>1, <1>3, <1>9 DEF BatInv
    <2>2. BatAt(batWork[w], i) /\ BatHeld(batWork[w], batBatches[i], batCommitted[i])
      BY <2>1, <1>1 DEF BatFine, BatAt
    <2>3. /\ batBatches[i].status = "processing" /\ batWork[w].ops = batBatches[i].ops
          /\ batWork[w].ops = "given" => batCommitted[i] = 0
      BY <2>2, <1>1 DEF BatHeld
    <2>4. o \notin {"transient", "permanent"} => batWork[w].ops = "given" /\ n = 1 /\ o \in {"completed", "completed_with_errors"}
      BY <2>3, <1>1 DEF Bat!Outcomes
    <2>5. BatStage(batBatches[i], n)
      BY <2>1, <2>3, <2>4, <1>5 DEF BatFine, BatStage
    <2>6. BatHeld(q, batBatches[i], n)
      BY <2>3, <2>4, <1>1, <1>3 DEF BatHeld
    <2>7. i \notin batCancelled
      BY <2>1, <2>3 DEF BatFine
    <2>8. \A v \in BatWorkers : BatAt(batWork'[v], i) => v = w
      BY <2>1, <2>2, <1>6 DEF BatFine
    <2> HIDE DEF n
    <2> QED BY <2>5, <2>6, <2>7, <2>8, <1>1, <1>6, <1>7 DEF BatFine
  <1>10. \A v \in BatWorkers : \A j : j # i /\ BatAt(batWork'[v], j) => batWork'[v] = batWork[v]
    BY <1>3, <1>6 DEF BatAt
  <1> HIDE DEF i
  <1> QED BY <1>1, <1>7, <1>8, <1>9, <1>10, BatMoved

\* The row that the end of a run saves.
LEMMA BatFinishRow ==
    ASSUME BatTyped, NEW w \in BatWorkers, Bat!Finish(w)
    PROVE  \E row \in BatRow :
            /\ batBatches' = [batBatches EXCEPT ![batWork[w].id] = row]
            /\ row.ops = "results"
            /\ \/ row.status = "queued" /\ batWork[w].outcome = "transient" /\ row.retries > 0
               \/ row.status = "failed" /\ batWork[w].outcome \in {"transient", "permanent"}
                    /\ row.retries = batBatches[batWork[w].id].retries
               \/ row.status = batWork[w].outcome /\ row.status \in {"completed", "completed_with_errors"}
  <1> DEFINE i == batWork[w].id
             o == batWork[w].outcome
             old == batBatches[i]
             ran == [old EXCEPT !.ops = "results"]
             k == ran.retries + 1
             again == [ran EXCEPT !.status = "queued", !.retries = k]
             failed == [ran EXCEPT !.status = "failed", !.retryable = FALSE]
             ended == [ran EXCEPT !.status = o]
  <1>1. batWork[w] \in BatTask(DOMAIN batBatches) /\ batWork[w].pc = "finish"
    BY DEF Bat!Finish, BatTyped, Bat!New
  <1>2. i \in DOMAIN batBatches /\ o \in BatOutcomes
    BY <1>1 DEF BatTask
  <1>3. old \in BatRow
    BY <1>2, BatRead
  <1>4. again \in BatRow /\ again.ops = "results" /\ again.status = "queued" /\ again.retries > 0
    <2>1. k \in Nat /\ k > 0
      BY <1>3 DEF BatRow
    <2> HIDE DEF k
    <2>2. again.retries = k
      BY <1>3 DEF BatRow
    <2> QED BY <1>3, <2>1, <2>2 DEF BatRow, BatStatuses
  <1>5. failed \in BatRow /\ failed.ops = "results" /\ failed.status = "failed" /\ failed.retries = old.retries
    BY <1>3 DEF BatRow, BatStatuses
  <1>6. o \notin {"transient", "permanent"} =>
            /\ ended \in BatRow /\ ended.ops = "results" /\ ended.status = o
            /\ o \in {"completed", "completed_with_errors"}
    BY <1>2, <1>3 DEF BatRow, BatStatuses, BatOutcomes
  <1>7. \/ o = "transient" /\ batBatches' = [batBatches EXCEPT ![i] = again]
        \/ o \in {"transient", "permanent"} /\ batBatches' = [batBatches EXCEPT ![i] = failed]
        \/ o \notin {"transient", "permanent"} /\ batBatches' = [batBatches EXCEPT ![i] = ended]
    <2>1. CASE o = "transient" /\ Bat!MayRetry(i)
      BY <2>1 DEF Bat!Finish
    <2>2. CASE ~(o = "transient" /\ Bat!MayRetry(i)) /\ o \in {"transient", "permanent"}
      BY <2>2 DEF Bat!Finish
    <2>3. CASE o \notin {"transient", "permanent"}
      BY <2>3 DEF Bat!Finish
    <2> QED BY <2>1, <2>2, <2>3
  <1> HIDE DEF again, failed, ended
  <1> QED BY <1>4, <1>5, <1>6, <1>7

LEMMA BatFinishInv == ASSUME BatInv, NEW w \in BatWorkers, Bat!Finish(w) PROVE BatInv'
  <1> DEFINE i == batWork[w].id
             o == batWork[w].outcome
  <1>1. /\ batWork[w].pc = "finish" /\ batWork' = [batWork EXCEPT ![w] = Bat!New]
        /\ UNCHANGED <<batQueue, batReq, batCommitted, batCancelled, batRaced>>
    BY DEF Bat!Finish
  <1>2. BatTyped /\ batWork[w] \in BatTask(DOMAIN batBatches)
    BY <1>1 DEF BatInv, BatTyped, Bat!New
  <1>3. i \in DOMAIN batBatches
    BY <1>2 DEF BatTask
  <1>4. batBatches[i] \in BatRow /\ batCommitted[i] \in Nat
    BY <1>2, <1>3, BatRead
  <1>5. PICK row \in BatRow :
            /\ batBatches' = [batBatches EXCEPT ![i] = row]
            /\ row.ops = "results"
            /\ \/ row.status = "queued" /\ o = "transient" /\ row.retries > 0
               \/ row.status = "failed" /\ o \in {"transient", "permanent"} /\ row.retries = batBatches[i].retries
               \/ row.status = o /\ row.status \in {"completed", "completed_with_errors"}
    BY <1>2, BatFinishRow
  <1>6. /\ batBatches' \in Seq(BatRow) /\ Len(batBatches') = Len(batBatches) /\ DOMAIN batBatches' = DOMAIN batBatches
        /\ batBatches'[i] = row /\ \A j \in DOMAIN batBatches : j # i => batBatches'[j] = batBatches[j]
    BY <1>2, <1>3, <1>5, BatRowSaved
  <1>7. /\ batWork' = [v \in BatWorkers |-> batWork'[v]]
        /\ batWork'[w] = Bat!New /\ \A v \in BatWorkers : v # w => batWork'[v] = batWork[v]
    BY <1>1, <1>2, BatWorkSaved
  <1>8. BatTyped'
    <2>1. \A v \in BatWorkers : batWork'[v] = Bat!New \/ batWork'[v] \in BatTask(DOMAIN batBatches')
      BY <1>2, <1>6, <1>7 DEF BatTyped
    <2> QED BY <2>1, <1>1, <1>2, <1>6, <1>7 DEF BatTyped
  <1>9. ASSUME i \notin batRaced' PROVE BatFine(i, batBatches'[i], batCommitted'[i], batCancelled', batWork')
    <2>1. BatFine(i, batBatches[i], batCommitted[i], batCancelled, batWork)
      BY <1>1, <1>3, <1>9 DEF BatInv
    <2>2. BatAt(batWork[w], i) /\ BatHeld(batWork[w], batBatches[i], batCommitted[i])
      BY <2>1, <1>1 DEF BatFine, BatAt
    <2>3. /\ batBatches[i].status = "processing" /\ batWork[w].ops = batBatches[i].ops
          /\ o \in {"completed", "completed_with_errors"} => batCommitted[i] = 1
          /\ o \in {"transient", "permanent"} /\ batBatches[i].ops = "given" => batCommitted[i] = 0
      BY <2>2, <1>1 DEF BatHeld
    <2>4. batBatches[i].retries = 0 => batBatches[i].ops = "given"
      BY <2>1, <2>3 DEF BatFine, BatStage
    <2>5. batCommitted[i] <= 1
      BY <2>1 DEF BatFine, BatStage
    <2>6. BatStage(row, batCommitted[i])
      BY <2>3, <2>4, <2>5, <1>5 DEF BatStage
    <2>7. i \notin batCancelled
      BY <2>1, <2>3 DEF BatFine
    <2>8. \A v \in BatWorkers : ~BatAt(batWork'[v], i)
      BY <2>1, <2>2, <1>7 DEF BatFine, BatAt, Bat!New
    <2> QED BY <2>6, <2>7, <2>8, <1>1, <1>6 DEF BatFine
  <1>10. \A v \in BatWorkers : \A j : j # i /\ BatAt(batWork'[v], j) => batWork'[v] = batWork[v]
    BY <1>7 DEF BatAt, Bat!New
  <1> HIDE DEF i
  <1> QED BY <1>1, <1>6, <1>8, <1>9, <1>10, BatMoved

LEMMA BatRetryInv == ASSUME BatInv, NEW i \in Bat!Ids, Bat!ManualRetry(i) PROVE BatInv'
  <1> DEFINE old == batBatches[i]
             k == old.retries + 1
             row == [old EXCEPT !.status = "queued", !.retries = k, !.retryable = TRUE]
  <1>1. /\ old.status \in {"failed", "completed_with_errors", "rolled_back"}
        /\ batBatches' = [batBatches EXCEPT ![i] = row]
        /\ batQueue' = Bat!Enqueued(i)
        /\ batRaced' = (IF Bat!At(i) # {} THEN batRaced \cup {i} ELSE batRaced)
        /\ batCancelled' = batCancelled \ {i}
        /\ UNCHANGED <<batWork, batReq, batCommitted>>
    BY DEF Bat!ManualRetry
  <1>2. BatTyped /\ i \in DOMAIN batBatches
    BY DEF BatInv, Bat!Ids
  <1>3. old \in BatRow /\ batCommitted[i] \in Nat
    BY <1>2, BatRead
  <1>4. row \in BatRow /\ row.status = "queued" /\ row.ops = old.ops /\ row.retries > 0
    <2>1. k \in Nat /\ k > 0
      BY <1>3 DEF BatRow
    <2> HIDE DEF k
    <2>2. row.retries = k
      BY <1>3 DEF BatRow
    <2> QED BY <1>3, <2>1, <2>2 DEF BatRow, BatStatuses
  <1> HIDE DEF row
  <1>5. /\ batBatches' \in Seq(BatRow) /\ Len(batBatches') = Len(batBatches) /\ DOMAIN batBatches' = DOMAIN batBatches
        /\ batBatches'[i] = row /\ \A j \in DOMAIN batBatches : j # i => batBatches'[j] = batBatches[j]
    BY <1>1, <1>2, <1>4, BatRowSaved
  <1>6. batQueue' \in Seq(Nat) /\ \A m \in DOMAIN batQueue' : batQueue'[m] \in DOMAIN batBatches'
    <2>1. i \in Nat /\ batQueue \in Seq(Nat) /\ \A m \in DOMAIN batQueue : batQueue[m] \in DOMAIN batBatches
      BY <1>2 DEF BatTyped
    <2> QED BY <2>1, <1>1, <1>2, <1>5, BatEnqueued
  <1>7. BatTyped'
    BY <1>1, <1>2, <1>5, <1>6 DEF BatTyped
  <1>8. ASSUME i \notin batRaced' PROVE BatFine(i, batBatches'[i], batCommitted'[i], batCancelled', batWork')
    <2>1. Bat!At(i) = {} /\ i \notin batRaced
      BY <1>1, <1>8
    <2>2. \A v \in BatWorkers : ~BatAt(batWork[v], i)
      BY <2>1, <1>2, BatTasks
    <2>3. BatStage(old, batCommitted[i])
      BY <2>1, <1>2 DEF BatInv, BatFine
    <2>4. BatStage(row, batCommitted[i])
      BY <2>3, <1>1, <1>3, <1>4 DEF BatStage
    <2> QED BY <2>2, <2>4, <1>1, <1>5 DEF BatFine
  <1> QED BY <1>1, <1>5, <1>7, <1>8, BatMoved

\* What concerns no batch: a request begins, an entry is queued again, the
\* process ends with its queue and its workers, time passes.
LEMMA BatOtherInv ==
    ASSUME BatInv,
           \/ \E r \in BatReqs, i \in Bat!Ids : Bat!CancelRead(r, i)
           \/ \E i \in Bat!Ids : Bat!ProcessPendingRetries(i)
           \/ Bat!Crash
           \/ Bat!Tick
           \/ UNCHANGED Bat!vars
    PROVE  BatInv'
  <1>0. BatTyped
    BY DEF BatInv
  <1>1. ASSUME NEW r \in BatReqs, NEW i \in Bat!Ids, Bat!CancelRead(r, i) PROVE BatInv'
    <2>1. /\ batReq' = [batReq EXCEPT ![r] = [pc |-> "cancel", id |-> i]] /\ i \in DOMAIN batBatches
          /\ UNCHANGED <<batBatches, batQueue, batWork, batCommitted, batCancelled, batRaced>>
      BY <1>1 DEF Bat!CancelRead, Bat!Ids
    <2>2. /\ batReq' = [x \in BatReqs |-> batReq'[x]]
          /\ \A x \in BatReqs : batReq'[x].pc = "cancel" => batReq'[x].id \in DOMAIN batBatches'
      BY <2>1, <1>0 DEF BatTyped
    <2> QED BY <2>1, <2>2 DEF BatInv, BatTyped
  <1>2. ASSUME NEW i \in Bat!Ids, Bat!ProcessPendingRetries(i) PROVE BatInv'
    <2>1. /\ batQueue' = Append(batQueue, i) /\ i \in DOMAIN batBatches
          /\ UNCHANGED <<batBatches, batReq, batWork, batCommitted, batCancelled, batRaced>>
      BY <1>2 DEF Bat!ProcessPendingRetries, Bat!Ids
    <2>2. batQueue' \in Seq(Nat) /\ \A k \in DOMAIN batQueue' : batQueue'[k] \in DOMAIN batBatches
      BY <2>1, <1>0, BatEnqueued DEF BatTyped
    <2> QED BY <2>1, <2>2 DEF BatInv, BatTyped
  <1>3. CASE Bat!Crash
    <2>1. /\ batQueue' = <<>> /\ batWork' = [w \in BatWorkers |-> Bat!New]
          /\ UNCHANGED <<batBatches, batReq, batCommitted, batCancelled, batRaced>>
      BY <1>3 DEF Bat!Crash
    <2>2. BatTyped'
      BY <2>1, <1>0 DEF BatTyped
    <2>3. \A w \in BatWorkers : \A j : ~BatAt(batWork'[w], j)
      BY <2>1 DEF BatAt, Bat!New
    <2> QED BY <2>1, <2>2, <2>3 DEF BatInv, BatFine
  <1>4. CASE Bat!Tick \/ UNCHANGED Bat!vars
    <2>1. UNCHANGED <<batBatches, batQueue, batWork, batReq, batCommitted, batCancelled, batRaced>>
      BY <1>4 DEF Bat!Tick, Bat!vars
    <2> QED BY <2>1 DEF BatInv, BatTyped
  <1> QED BY <1>1, <1>2, <1>3, <1>4

LEMMA BatNextInv == BatInv /\ [Bat!Next]_(Bat!vars) => BatInv'
  <1> SUFFICES ASSUME BatInv, [Bat!Next]_(Bat!vars) PROVE BatInv'
    OBVIOUS
  <1>1. CASE Bat!SubmitBatch
    BY <1>1, BatSubmitInv
  <1>2. CASE \E r \in BatReqs : Bat!CancelBatch(r)
    BY <1>2, BatCancelInv
  <1>3. CASE \E w \in BatWorkers : Bat!Take(w) \/ Bat!Mark(w) \/ Bat!Finish(w)
    BY <1>3, BatTakeInv, BatMarkInv, BatFinishInv
  <1>4. CASE \E w \in BatWorkers, o \in {"completed", "completed_with_errors", "transient", "permanent"} : Bat!Run(w, o)
    BY <1>4, BatRunInv DEF BatOutcomes
  <1>5. CASE \E i \in Bat!Ids : Bat!ManualRetry(i)
    BY <1>5, BatRetryInv
  <1>6. CASE \/ \E r \in BatReqs, i \in Bat!Ids : Bat!CancelRead(r, i)
             \/ \E i \in Bat!Ids : Bat!ProcessPendingRetries(i)
             \/ Bat!Crash \/ Bat!Tick \/ UNCHANGED Bat!vars
    BY <1>6, BatOtherInv
  <1> QED BY <1>1, <1>2, <1>3, <1>4, <1>5, <1>6 DEF Bat!Next

LEMMA BatInvInit == Bat!Init => BatInv
  <1> SUFFICES ASSUME Bat!Init PROVE BatInv
    OBVIOUS
  <1>1. /\ batBatches = <<>> /\ batQueue = <<>> /\ batCommitted = <<>> /\ batCancelled = {}
        /\ batWork = [w \in BatWorkers |-> Bat!New] /\ batReq = [r \in BatReqs |-> Bat!New]
    BY DEF Bat!Init
  <1>2. DOMAIN batBatches = {} /\ Len(batBatches) = 0
    BY <1>1
  <1>3. BatTyped
    BY <1>1, <1>2 DEF BatTyped, Bat!New
  <1> QED BY <1>2, <1>3 DEF BatInv

LEMMA BatInvMeans == BatInv => Bat!TransfersRunOnce
  <1> SUFFICES ASSUME BatInv, NEW i \in DOMAIN batBatches \ batRaced
               PROVE  /\ batCommitted[i] <= 1
                      /\ batBatches[i].status \in {"completed", "completed_with_errors"} => batCommitted[i] = 1
                      /\ batBatches[i].status = "failed" /\ batBatches[i].retries = 0 => batCommitted[i] = 0
                      /\ i \in batCancelled =>
                            batBatches[i].status = "rolled_back" /\ (batBatches[i].retries = 0 => batCommitted[i] = 0)
    BY DEF Bat!TransfersRunOnce, Bat!Ids
  <1>1. BatFine(i, batBatches[i], batCommitted[i], batCancelled, batWork)
    BY DEF BatInv
  <1> QED BY <1>1 DEF BatFine, BatStage

-----------------------------------------------------------------------------
(* Batches of operations                                                   *)

OpRow ==
    [status : {"processing", "completed", "completed_with_errors", "failed", "rolled_back"},
     ops : BatOpLists, hash : {"unset", "batch_tx"}, completed : Int, failed : Int]

OpRunner == [pc : {"run"}, batch : Nat, next : Nat, ok : SUBSET Nat, aborted : BOOLEAN]

OpTuples(b, ops, kind, s) == {<<b, i>> : i \in {j \in s : ops[j] = kind}}

OpThere(b, s) == {t \in s : t[1] = b}

OpTyped ==
    /\ batOpBatches \in Seq(OpRow)
    /\ batSucceeded \in Seq(SUBSET Nat) /\ Len(batSucceeded) = Len(batOpBatches)
    /\ \A b \in DOMAIN batOpBatches : batSucceeded[b] \subseteq DOMAIN batOpBatches[b].ops
    /\ \A t \in batTransactions : t[1] \in DOMAIN batOpBatches
    /\ \A l \in DOMAIN batListings : l[1] \in DOMAIN batOpBatches
    /\ batAborted \subseteq DOMAIN batOpBatches
    /\ batOpReq = [r \in BatOpReqs |-> batOpReq[r]]

\* What a status tells of the records of a batch whose reported successes
\* are s.
OpTold(b, status, ops, s, broken, trans, lists) ==
    /\ status \in {"completed", "completed_with_errors"} /\ b \notin broken =>
        /\ OpThere(b, trans) = OpTuples(b, ops, "transfer", s)
        /\ OpThere(b, DOMAIN lists) = OpTuples(b, ops, "list", s)
    /\ status = "failed" \/ (status = "completed_with_errors" /\ b \in broken) =>
        OpThere(b, trans) = {} /\ OpThere(b, DOMAIN lists) = {}
    /\ status = "completed" => b \notin broken
    /\ status = "rolled_back" => OpThere(b, trans) = {} /\ \A l \in OpThere(b, DOMAIN lists) : ~lists[l]

\* A batch that runs has left nothing; the status to be saved tells what the
\* commit has left; what is rolled back has ended.
OpAsks(q, rows, done, broken, trans, lists) ==
    /\ q.pc \in {"run", "save", "rollback"} => q.batch \in DOMAIN rows
    /\ q.pc \in {"run", "save"} => rows[q.batch].status = "processing"
    /\ q.pc = "run" =>
        /\ OpThere(q.batch, trans) = {} /\ OpThere(q.batch, DOMAIN lists) = {} /\ q.batch \notin broken
        /\ q.next \in 1..(Len(rows[q.batch].ops) + 1) /\ q.ok \subseteq 1..(q.next - 1)
        /\ q.aborted => \E j \in 1..(q.next - 1) : j \notin q.ok
        /\ q \in OpRunner
    /\ q.pc = "save" =>
        /\ q.status \in {"failed", "completed", "completed_with_errors"}
        /\ OpTold(q.batch, q.status, rows[q.batch].ops, done[q.batch], broken, trans, lists)
    /\ q.pc = "rollback" => rows[q.batch].status \in {"completed", "completed_with_errors", "rolled_back"}

OpRuns(q, b) == q.pc \in {"run", "save"} /\ q.batch = b

OpSays(b, rows, done, broken, trans, lists) ==
    OpTold(b, rows[b].status, rows[b].ops, done[b], broken, trans, lists)

OpInv ==
    /\ OpTyped
    /\ \A b \in DOMAIN batOpBatches : OpSays(b, batOpBatches, batSucceeded, batAborted, batTransactions, batListings)
    /\ \A r \in BatOpReqs :
        OpAsks(batOpReq[r], batOpBatches, batSucceeded, batAborted, batTransactions, batListings)
    /\ \A r, x \in BatOpReqs : \A b : OpRuns(batOpReq[r], b) /\ OpRuns(batOpReq[x], b) => r = x

\* The records of a batch stay, or its listings are withdrawn.
OpKept(c, broken, trans, lists, broken1, trans1, lists1) ==
    /\ c \in broken1 <=> c \in broken
    /\ OpThere(c, trans1) = OpThere(c, trans)
    /\ OpThere(c, DOMAIN lists1) = OpThere(c, DOMAIN lists)
    /\ \A l \in OpThere(c, DOMAIN lists) : ~lists[l] => ~lists1[l]

LEMMA OpToldKept ==
    ASSUME NEW c, NEW status, NEW ops, NEW s, NEW broken, NEW trans, NEW lists, NEW broken1, NEW trans1, NEW lists1,
           OpTold(c, status, ops, s, broken, trans, lists),
           OpKept(c, broken, trans, lists, broken1, trans1, lists1)
    PROVE  OpTold(c, status, ops, s, broken1, trans1, lists1)
  <1> DEFINE t == OpThere(c, trans)
             l == OpThere(c, DOMAIN lists)
  <1>1. OpThere(c, trans1) = t /\ OpThere(c, DOMAIN lists1) = l /\ (c \in broken1 <=> c \in broken)
    BY DEF OpKept
  <1>2. \A x \in l : ~lists[x] => ~lists1[x]
    BY DEF OpKept
  <1> HIDE DEF t, l
  <1> QED BY <1>1, <1>2 DEF OpTold, t, l

LEMMA OpAsksKept ==
    ASSUME NEW q, NEW rows, NEW done, NEW broken, NEW trans, NEW lists,
           NEW rows1, NEW done1, NEW broken1, NEW trans1, NEW lists1,
           OpAsks(q, rows, done, broken, trans, lists),
           q.pc \in {"run", "save", "rollback"} =>
                /\ q.batch \in DOMAIN rows1 /\ rows1[q.batch] = rows[q.batch] /\ done1[q.batch] = done[q.batch]
                /\ OpKept(q.batch, broken, trans, lists, broken1, trans1, lists1)
    PROVE  OpAsks(q, rows1, done1, broken1, trans1, lists1)
  <1>1. CASE q.pc = "run"
    BY <1>1 DEF OpAsks, OpKept
  <1>2. CASE q.pc = "save"
    <2> DEFINE b == q.batch
    <2>1. OpTold(b, q.status, rows[b].ops, done[b], broken, trans, lists)
      BY <1>2 DEF OpAsks
    <2>2. OpKept(b, broken, trans, lists, broken1, trans1, lists1) /\ rows1[b] = rows[b] /\ done1[b] = done[b]
      BY <1>2
    <2>3. OpTold(b, q.status, rows[b].ops, done[b], broken1, trans1, lists1)
      <3> HIDE DEF b
      <3> QED BY <2>1, <2>2, OpToldKept
    <2> QED BY <1>2, <2>2, <2>3 DEF OpAsks
  <1>3. CASE q.pc = "rollback"
    BY <1>3 DEF OpAsks
  <1>4. CASE q.pc \notin {"run", "save", "rollback"}
    BY <1>4 DEF OpAsks
  <1> QED BY <1>1, <1>2, <1>3, <1>4

\* A step that concerns the batch b: the other batches keep their rows and
\* records, nobody but r runs b, and who rolls it back still may.
OpOthers(b) ==
    /\ DOMAIN batOpBatches \subseteq DOMAIN batOpBatches'
    /\ \A c \in DOMAIN batOpBatches' : c # b =>
        /\ c \in DOMAIN batOpBatches
        /\ batOpBatches'[c] = batOpBatches[c] /\ batSucceeded'[c] = batSucceeded[c]
        /\ OpKept(c, batAborted, batTransactions, batListings, batAborted', batTransactions', batListings')

OpRest(b, r) ==
    \A x \in BatOpReqs : x # r =>
        /\ ~OpRuns(batOpReq[x], b)
        /\ batOpReq[x].pc = "rollback" /\ batOpReq[x].batch = b =>
            OpAsks(batOpReq[x], batOpBatches', batSucceeded', batAborted', batTransactions', batListings')

LEMMA OpPlaces ==
    ASSUME OpInv, NEW x \in BatOpReqs
    PROVE  /\ batOpReq[x].pc \in {"run", "save", "rollback"} => batOpReq[x].batch \in DOMAIN batOpBatches
           /\ batOpReq[x].pc \in {"run", "save"} => batOpBatches[batOpReq[x].batch].status = "processing"
           /\ batOpReq[x].pc = "rollback" =>
                batOpBatches[batOpReq[x].batch].status \in {"completed", "completed_with_errors", "rolled_back"}
  <1> DEFINE q == batOpReq[x]
  <1>1. OpAsks(q, batOpBatches, batSucceeded, batAborted, batTransactions, batListings)
    BY DEF OpInv
  <1> HIDE DEF q
  <1>2. /\ q.pc \in {"run", "save", "rollback"} => q.batch \in DOMAIN batOpBatches
        /\ q.pc \in {"run", "save"} => batOpBatches[q.batch].status = "processing"
        /\ q.pc = "rollback" => batOpBatches[q.batch].status \in {"completed", "completed_with_errors", "rolled_back"}
    BY <1>1 DEF OpAsks
  <1> QED BY <1>2 DEF q

\* A step of one request that concerns one batch.
LEMMA OpMoved ==
    ASSUME OpInv, OpTyped', NEW b, NEW r \in BatOpReqs, NEW q, batOpReq' = [batOpReq EXCEPT ![r] = q],
           OpOthers(b), OpRest(b, r),
           b \in DOMAIN batOpBatches' => OpSays(b, batOpBatches', batSucceeded', batAborted', batTransactions', batListings'),
           OpAsks(q, batOpBatches', batSucceeded', batAborted', batTransactions', batListings'),
           q.pc \in {"run", "save"} => q.batch = b
    PROVE  OpInv'
  <1>1. batOpReq'[r] = q /\ \A x \in BatOpReqs : x # r => batOpReq'[x] = batOpReq[x]
    BY DEF OpInv, OpTyped
  <1>2. ASSUME NEW c \in DOMAIN batOpBatches' PROVE OpSays(c, batOpBatches', batSucceeded', batAborted', batTransactions', batListings')
    <2>1. CASE c = b
      BY <2>1
    <2>2. CASE c # b
      <3>1. /\ batOpBatches'[c] = batOpBatches[c] /\ batSucceeded'[c] = batSucceeded[c] /\ c \in DOMAIN batOpBatches
            /\ OpKept(c, batAborted, batTransactions, batListings, batAborted', batTransactions', batListings')
        BY <2>2 DEF OpOthers
      <3>2. OpTold(c, batOpBatches[c].status, batOpBatches[c].ops, batSucceeded[c], batAborted, batTransactions, batListings)
        BY <3>1 DEF OpInv, OpSays
      <3>3. OpTold(c, batOpBatches[c].status, batOpBatches[c].ops, batSucceeded[c], batAborted', batTransactions', batListings')
        BY <3>1, <3>2, OpToldKept
      <3> QED BY <3>1, <3>3 DEF OpSays
    <2> QED BY <2>1, <2>2
  <1>3. ASSUME NEW x \in BatOpReqs
        PROVE  OpAsks(batOpReq'[x], batOpBatches', batSucceeded', batAborted', batTransactions', batListings')
    <2>1. CASE x = r
      BY <2>1, <1>1
    <2>2. CASE x # r /\ batOpReq[x].pc = "rollback" /\ batOpReq[x].batch = b
      BY <2>2, <1>1 DEF OpRest
    <2>3. CASE x # r /\ ~(batOpReq[x].pc = "rollback" /\ batOpReq[x].batch = b)
      <3> DEFINE p == batOpReq[x]
      <3>1. OpAsks(p, batOpBatches, batSucceeded, batAborted, batTransactions, batListings)
        BY DEF OpInv
      <3>2. p.pc \in {"run", "save", "rollback"} => p.batch # b /\ p.batch \in DOMAIN batOpBatches
        BY <2>3, OpPlaces DEF OpRest, OpRuns
      <3>3. p.pc \in {"run", "save", "rollback"} =>
                /\ p.batch \in DOMAIN batOpBatches' /\ batOpBatches'[p.batch] = batOpBatches[p.batch]
                /\ batSucceeded'[p.batch] = batSucceeded[p.batch]
                /\ OpKept(p.batch, batAborted, batTransactions, batListings, batAborted', batTransactions', batListings')
        <4> HIDE DEF p
        <4> QED BY <3>2 DEF OpOthers
      <3> HIDE DEF p
      <3>4. OpAsks(p, batOpBatches', batSucceeded', batAborted', batTransactions', batListings')
        BY <3>1, <3>3, OpAsksKept
      <3> QED BY <2>3, <3>4, <1>1 DEF p
    <2> QED BY <2>1, <2>2, <2>3
  <1>4. ASSUME NEW x \in BatOpReqs, NEW y \in BatOpReqs, NEW c, OpRuns(batOpReq'[x], c), OpRuns(batOpReq'[y], c)
        PROVE  x = y
    <2>1. CASE x # r /\ y # r
      BY <2>1, <1>1, <1>4 DEF OpInv
    <2>2. CASE x = r \/ y = r
      BY <2>2, <1>1, <1>4 DEF OpRuns, OpRest
    <2> QED BY <2>1, <2>2
  <1> QED BY <1>2, <1>3, <1>4 DEF OpInv

LEMMA OpUnmoved ==
    ASSUME NEW broken, NEW trans, NEW lists
    PROVE  \A c : OpKept(c, broken, trans, lists, broken, trans, lists)
  BY DEF OpKept

LEMMA OpRead ==
    ASSUME OpTyped, NEW b \in DOMAIN batOpBatches
    PROVE  /\ batOpBatches[b] \in OpRow
           /\ DOMAIN batOpBatches = 1..Len(batOpBatches) /\ Len(batOpBatches) \in Nat
           /\ Len(batOpBatches[b].ops) \in Nat /\ DOMAIN batOpBatches[b].ops = 1..Len(batOpBatches[b].ops)
           /\ b \in DOMAIN batSucceeded /\ DOMAIN batSucceeded = DOMAIN batOpBatches
  <1> DEFINE S == OpRow
  <1>1. batOpBatches \in Seq(S) /\ batSucceeded \in Seq(SUBSET Nat) /\ Len(batSucceeded) = Len(batOpBatches)
    BY DEF OpTyped
  <1>2. batOpBatches[b] \in OpRow
    <2> HIDE DEF S
    <2> QED BY <1>1 DEF S
  <1>3. batOpBatches[b].ops \in BatOpLists
    BY <1>2 DEF OpRow
  <1> HIDE DEF S
  <1>4. DOMAIN batOpBatches = 1..Len(batOpBatches) /\ Len(batOpBatches) \in Nat /\ b \in DOMAIN batSucceeded
        /\ DOMAIN batSucceeded = DOMAIN batOpBatches
    BY <1>1
  <1> QED BY <1>2, <1>3, <1>4, BatchAssumption DEF BatchAssumption

LEMMA OpSaved ==
    ASSUME OpTyped, NEW b \in DOMAIN batOpBatches, NEW row \in OpRow, row.ops = batOpBatches[b].ops,
           batOpBatches' = [batOpBatches EXCEPT ![b] = row]
    PROVE  /\ batOpBatches' \in Seq(OpRow) /\ Len(batOpBatches') = Len(batOpBatches)
           /\ DOMAIN batOpBatches' = DOMAIN batOpBatches
           /\ batOpBatches'[b] = row /\ \A c \in DOMAIN batOpBatches : c # b => batOpBatches'[c] = batOpBatches[c]
           /\ \A c \in DOMAIN batOpBatches : batOpBatches'[c].ops = batOpBatches[c].ops
  <1> DEFINE S == OpRow
  <1>1. batOpBatches \in Seq(S) /\ row \in S
    BY DEF OpTyped
  <1> HIDE DEF S
  <1> QED BY <1>1 DEF S

LEMMA OpExecuteInv ==
    ASSUME OpInv, NEW r \in BatOpReqs, NEW ops \in BatOpLists, Bat!ExecuteBatch(r, ops) PROVE OpInv'
  <1> DEFINE n == Len(batOpBatches)
             row == [status |-> "processing", ops |-> ops, hash |-> "unset", completed |-> 0, failed |-> 0]
             q == [pc |-> "run", batch |-> n + 1, next |-> 1, ok |-> {}, aborted |-> FALSE]
  <1>1. /\ batOpBatches' = Append(batOpBatches, row) /\ batSucceeded' = Append(batSucceeded, {})
        /\ batOpReq' = [batOpReq EXCEPT ![r] = q]
        /\ UNCHANGED <<batTransactions, batListings, batAborted>>
    BY DEF Bat!ExecuteBatch
  <1>2. OpTyped /\ row \in OpRow /\ row.status = "processing" /\ row.ops = ops
    BY DEF OpInv, OpRow
  <1> HIDE DEF row
  <1>3. n \in Nat /\ DOMAIN batOpBatches = 1..n /\ Len(batSucceeded) = n
    BY <1>2 DEF OpTyped
  <1>4. /\ batOpBatches' \in Seq(OpRow) /\ Len(batOpBatches') = n + 1 /\ DOMAIN batOpBatches' = 1..(n + 1)
        /\ batOpBatches'[n + 1] = row /\ \A c \in 1..n : batOpBatches'[c] = batOpBatches[c]
    <2> DEFINE S == OpRow
    <2>1. batOpBatches \in Seq(S) /\ row \in S
      BY <1>2 DEF OpTyped
    <2> HIDE DEF S, n
    <2> QED BY <1>1, <1>3, <2>1 DEF S, n
  <1>5. /\ batSucceeded' \in Seq(SUBSET Nat) /\ Len(batSucceeded') = n + 1
        /\ batSucceeded'[n + 1] = {} /\ \A c \in 1..n : batSucceeded'[c] = batSucceeded[c]
    BY <1>1, <1>2, <1>3 DEF OpTyped
  <1>6. OpTyped'
    <2>1. \A c \in 1..(n + 1) : batSucceeded'[c] \subseteq DOMAIN batOpBatches'[c].ops
      BY <1>2, <1>3, <1>4, <1>5 DEF OpTyped
    <2>2. /\ \A t \in batTransactions : t[1] \in 1..(n + 1)
          /\ \A l \in DOMAIN batListings : l[1] \in 1..(n + 1)
          /\ batAborted \subseteq 1..(n + 1)
      BY <1>2, <1>3 DEF OpTyped
    <2>3. batOpReq' = [x \in BatOpReqs |-> batOpReq'[x]]
      BY <1>1, <1>2 DEF OpTyped
    <2> QED BY <2>1, <2>2, <2>3, <1>1, <1>4, <1>5 DEF OpTyped
  <1>7. OpAsks(q, batOpBatches', batSucceeded', batAborted', batTransactions', batListings')
    <2>1. OpThere(n + 1, batTransactions) = {} /\ OpThere(n + 1, DOMAIN batListings) = {} /\ n + 1 \notin batAborted
      BY <1>2, <1>3 DEF OpTyped, OpThere
    <2>4. q \in OpRunner
      BY <1>3 DEF OpRunner
    <2>2. Len(ops) \in Nat
      BY BatchAssumption DEF BatchAssumption
    <2>3. batOpBatches'[n + 1].status = "processing" /\ batOpBatches'[n + 1].ops = ops /\ n + 1 \in DOMAIN batOpBatches'
      BY <1>2, <1>3, <1>4
    <2> HIDE DEF n
    <2> QED BY <2>1, <2>2, <2>3, <2>4, <1>1 DEF OpAsks
  <1>8. OpSays(n + 1, batOpBatches', batSucceeded', batAborted', batTransactions', batListings')
    BY <1>2, <1>4 DEF OpTold, OpSays
  <1>9. OpRest(n + 1, r)
    <2>1. \A x \in BatOpReqs : batOpReq[x].pc \in {"run", "save", "rollback"} => batOpReq[x].batch \in 1..n
      BY <1>3, OpPlaces
    <2>2. \A x \in BatOpReqs : batOpReq[x].pc \in {"run", "save", "rollback"} => batOpReq[x].batch # n + 1
      BY <2>1, <1>3
    <2> HIDE DEF n
    <2> QED BY <2>2 DEF OpRest, OpRuns
  <1>10. OpOthers(n + 1)
    BY <1>1, <1>3, <1>4, <1>5, OpUnmoved DEF OpOthers
  <1>11. q.pc = "run" /\ q.batch = n + 1
    OBVIOUS
  <1> HIDE DEF q, n
  <1> QED BY <1>1, <1>6, <1>7, <1>8, <1>9, <1>10, <1>11, OpMoved

\* A batch that runs: nobody else runs it or rolls it back.
LEMMA OpAlone ==
    ASSUME OpInv, NEW r \in BatOpReqs, batOpReq[r].pc \in {"run", "save"}
    PROVE  /\ OpTyped /\ batOpReq[r].batch \in DOMAIN batOpBatches
           /\ batOpBatches[batOpReq[r].batch].status = "processing"
           /\ OpAsks(batOpReq[r], batOpBatches, batSucceeded, batAborted, batTransactions, batListings)
           /\ OpRest(batOpReq[r].batch, r)
  <1> DEFINE b == batOpReq[r].batch
  <1>1. OpTyped /\ OpAsks(batOpReq[r], batOpBatches, batSucceeded, batAborted, batTransactions, batListings)
    BY DEF OpInv
  <1>2. b \in DOMAIN batOpBatches /\ batOpBatches[b].status = "processing"
    BY <1>1 DEF OpAsks
  <1>3. \A x \in BatOpReqs : x # r => ~OpRuns(batOpReq[x], b)
    <2>1. OpRuns(batOpReq[r], b)
      BY DEF OpRuns
    <2> QED BY <2>1 DEF OpInv
  <1>4. \A x \in BatOpReqs : batOpReq[x].pc = "rollback" => batOpReq[x].batch # b
    BY <1>2, OpPlaces
  <1>5. OpRest(b, r)
    <2> HIDE DEF b
    <2> QED BY <1>3, <1>4 DEF OpRest
  <1> QED BY <1>1, <1>2, <1>5

LEMMA OpFinite == ASSUME NEW n \in Nat, NEW s \in SUBSET (1..n) PROVE IsFiniteSet(s) /\ Bat!Cardinality(s) = Cardinality(s) /\ Cardinality(s) \in Nat
  <1>1. IsFiniteSet(1..n)
    BY FS_Interval
  <1>2. IsFiniteSet(s)
    BY <1>1, FS_Subset
  <1>3. Bat!Cardinality(s) = Cardinality(s)
    BY DEF Bat!Cardinality, Cardinality
  <1> QED BY <1>2, <1>3, FS_CardinalityType

LEMMA OpRunInv ==
    ASSUME OpInv, NEW r \in BatOpReqs, NEW o \in {"done", "refused", "failed"}, Bat!RunOperation(r, o) PROVE OpInv'
  <1> DEFINE p == batOpReq[r]
             b == p.batch
             ok == IF o = "done" THEN p.ok \cup {p.next} ELSE p.ok
             k == p.next + 1
             broken == p.aborted \/ o = "failed"
             q == [p EXCEPT !.next = k, !.ok = ok, !.aborted = broken]
             done == Bat!Cardinality(ok)
             rest == p.next - done
             row == [batOpBatches[b] EXCEPT !.completed = done, !.failed = rest]
  <1>1. /\ p.pc = "run" /\ p.next <= Len(batOpBatches[b].ops) /\ o \in Bat!OpOutcomes(p)
        /\ batOpReq' = [batOpReq EXCEPT ![r] = q]
        /\ UNCHANGED <<batTransactions, batListings, batAborted, batSucceeded>>
    BY DEF Bat!RunOperation
  <1>2. batOpBatches' = [batOpBatches EXCEPT ![b] = row]
    BY DEF Bat!RunOperation
  <1>3. /\ OpTyped /\ b \in DOMAIN batOpBatches /\ batOpBatches[b].status = "processing"
        /\ OpAsks(p, batOpBatches, batSucceeded, batAborted, batTransactions, batListings)
        /\ OpRest(b, r)
    BY <1>1, OpAlone
  <1>4. batOpBatches[b] \in OpRow /\ Len(batOpBatches[b].ops) \in Nat
    BY <1>3, OpRead
  <1>5. /\ p.next \in 1..(Len(batOpBatches[b].ops) + 1) /\ p.ok \subseteq 1..(p.next - 1) /\ p.aborted \in BOOLEAN
        /\ p.aborted => \E j \in 1..(p.next - 1) : j \notin p.ok
        /\ p \in OpRunner
        /\ OpThere(b, batTransactions) = {} /\ OpThere(b, DOMAIN batListings) = {} /\ b \notin batAborted
    BY <1>1, <1>3 DEF OpAsks, OpRunner
  <1>6. ok \in SUBSET (1..p.next) /\ p.next \in Nat /\ k \in Nat /\ broken \in BOOLEAN
    BY <1>4, <1>5
  <1>7. done \in Int /\ rest \in Int
    <2>1. done \in Nat
      <3> HIDE DEF ok
      <3> QED BY <1>6, OpFinite
    <2> HIDE DEF done
    <2> QED BY <2>1, <1>6
  <1>8. q \in OpRunner /\ q.pc = "run" /\ q.batch = b /\ q.next = k /\ q.ok = ok
    <2>1. ok \in SUBSET Nat
      BY <1>6
    <2> HIDE DEF k, ok, broken
    <2> QED BY <2>1, <1>5, <1>6 DEF OpRunner
  <1>15. q.aborted = broken
    <2> HIDE DEF k, ok, broken
    <2> QED BY <1>5, <1>6 DEF OpRunner
  <1>9. row \in OpRow /\ row.ops = batOpBatches[b].ops /\ row.status = "processing"
    <2> HIDE DEF done, rest, b
    <2> QED BY <1>3, <1>4, <1>7 DEF OpRow
  <1>10. /\ batOpBatches' \in Seq(OpRow) /\ Len(batOpBatches') = Len(batOpBatches)
         /\ DOMAIN batOpBatches' = DOMAIN batOpBatches
         /\ batOpBatches'[b] = row /\ \A c \in DOMAIN batOpBatches : c # b => batOpBatches'[c] = batOpBatches[c]
         /\ \A c \in DOMAIN batOpBatches : batOpBatches'[c].ops = batOpBatches[c].ops
    <2> HIDE DEF row, b
    <2> QED BY <1>2, <1>3, <1>9, OpSaved
  <1>11. (p.aborted \/ o = "failed") => \E j \in 1..p.next : j \notin ok
    <2>1. CASE o = "failed"
      BY <2>1, <1>4, <1>5
    <2>2. CASE p.aborted /\ o # "failed"
      <3>1. PICK j \in 1..(p.next - 1) : j \notin p.ok
        BY <2>2, <1>5
      <3> QED BY <3>1, <1>4, <1>5
    <2> QED BY <2>1, <2>2
  <1>12. OpAsks(q, batOpBatches', batSucceeded', batAborted', batTransactions', batListings')
    <2>3. batOpBatches'[b].ops = batOpBatches[b].ops /\ batOpBatches'[b].status = "processing" /\ b \in DOMAIN batOpBatches'
      BY <1>3, <1>9, <1>10
    <2>4. q.next - 1 = p.next /\ q.next \in 1..(Len(batOpBatches[b].ops) + 1)
      <3> DEFINE n == p.next
                 l == Len(batOpBatches[b].ops)
      <3>1. q.next = n + 1 /\ n \in 1..(l + 1) /\ n <= l /\ l \in Nat
        BY <1>1, <1>4, <1>5, <1>8
      <3> HIDE DEF q, n, l
      <3>2. q.next - 1 = n /\ q.next \in 1..(l + 1)
        BY ONLY <3>1
      <3> QED BY ONLY <3>2 DEF n, l
    <2>5. q.aborted => \E j \in 1..(q.next - 1) : j \notin q.ok
      BY <1>11, <1>8, <1>15, <2>4
    <2>6. q.ok \subseteq 1..(q.next - 1)
      BY <1>6, <1>8, <2>4
    <2> HIDE DEF q, b, ok
    <2> QED BY <2>3, <2>4, <2>5, <2>6, <1>1, <1>5, <1>8 DEF OpAsks
  <1>13. OpTyped'
    BY <1>1, <1>3, <1>10 DEF OpTyped
  <1>14. OpSays(b, batOpBatches', batSucceeded', batAborted', batTransactions', batListings')
    BY <1>9, <1>10 DEF OpTold, OpSays
  <1>16. OpOthers(b)
    BY <1>1, <1>10, OpUnmoved DEF OpOthers
  <1> HIDE DEF b, q
  <1> QED BY <1>1, <1>3, <1>8, <1>12, <1>13, <1>14, <1>16, OpMoved

\* The tuples of a batch are its own.
LEMMA OpOwn ==
    ASSUME NEW b, NEW ops, NEW kind, NEW s
    PROVE  /\ \A t \in OpTuples(b, ops, kind, s) : t[1] = b
           /\ OpThere(b, OpTuples(b, ops, kind, s)) = OpTuples(b, ops, kind, s)
           /\ \A c : c # b => OpThere(c, OpTuples(b, ops, kind, s)) = {}
  BY DEF OpTuples, OpThere

LEMMA OpThereUnion == ASSUME NEW c, NEW s, NEW t PROVE OpThere(c, s \cup t) = OpThere(c, s) \cup OpThere(c, t)
  BY DEF OpThere

\* What the end of a batch leaves: everything it reported, or nothing.
LEMMA OpFinishInv ==
    ASSUME OpInv, NEW r \in BatOpReqs, NEW withdrawn, Bat!OpFinish(r, withdrawn) PROVE OpInv'
  <1> DEFINE p == batOpReq[r]
             b == p.batch
             ops == batOpBatches[b].ops
             kept == p.ok # {} /\ ~p.aborted
             sent == OpTuples(b, ops, "transfer", p.ok)
             new == OpTuples(b, ops, "list", p.ok)
             status == IF p.ok = {} THEN "failed"
                       ELSE IF Bat!Cardinality(p.ok) < Len(ops) THEN "completed_with_errors" ELSE "completed"
             q == [pc |-> "save", batch |-> b, status |-> status]
  <1>1. /\ p.pc = "run" /\ p.next > Len(ops)
        /\ batAborted' = (IF p.aborted THEN batAborted \cup {b} ELSE batAborted)
        /\ batSucceeded' = [batSucceeded EXCEPT ![b] = p.ok]
        /\ batOpReq' = [batOpReq EXCEPT ![r] = q]
        /\ UNCHANGED batOpBatches
    BY DEF Bat!OpFinish
  <1>2. /\ OpTyped /\ b \in DOMAIN batOpBatches /\ batOpBatches[b].status = "processing"
        /\ OpAsks(p, batOpBatches, batSucceeded, batAborted, batTransactions, batListings)
        /\ OpRest(b, r)
    BY <1>1, OpAlone
  <1>3. /\ batOpBatches[b] \in OpRow /\ Len(ops) \in Nat /\ DOMAIN ops = 1..Len(ops)
        /\ b \in DOMAIN batSucceeded /\ DOMAIN batSucceeded = DOMAIN batOpBatches
    BY <1>2, OpRead
  <1>4. /\ p.next \in 1..(Len(ops) + 1) /\ p.ok \subseteq 1..(p.next - 1) /\ p.aborted \in BOOLEAN
        /\ p.aborted => \E j \in 1..(p.next - 1) : j \notin p.ok
        /\ OpThere(b, batTransactions) = {} /\ OpThere(b, DOMAIN batListings) = {} /\ b \notin batAborted
    BY <1>1, <1>2 DEF OpAsks, OpRunner
  <1>5. /\ p.ok \in SUBSET (1..Len(ops))
        /\ p.aborted => \E j \in 1..Len(ops) : j \notin p.ok
    <2> HIDE DEF p, ops
    <2>1. p.next - 1 = Len(ops)
      BY <1>1, <1>3, <1>4
    <2> QED BY <2>1, <1>4
  <1>6. kept => /\ batTransactions' = batTransactions \cup sent
                /\ DOMAIN batListings' = DOMAIN batListings \cup new
                /\ \A l \in DOMAIN batListings : l \notin new /\ ~batListings[l] => ~batListings'[l]
    <2> SUFFICES ASSUME kept
                 PROVE  /\ batTransactions' = batTransactions \cup sent
                        /\ DOMAIN batListings' = DOMAIN batListings \cup new
                        /\ \A l \in DOMAIN batListings : l \notin new /\ ~batListings[l] => ~batListings'[l]
      OBVIOUS
    <2>1. batTransactions' = batTransactions \cup sent /\ batListings' = Bat!Committed(p, withdrawn)
      BY DEF Bat!OpFinish, Bat!OpsOf, OpTuples
    <2>2. batListings' = [l \in DOMAIN batListings \cup new |-> IF l \in new THEN TRUE ELSE Bat!Deactivated(withdrawn)[l]]
      BY <2>1 DEF Bat!Committed, Bat!OpsOf, OpTuples
    <2>3. \A l \in DOMAIN batListings : Bat!Deactivated(withdrawn)[l] = IF l \in withdrawn THEN FALSE ELSE batListings[l]
      BY DEF Bat!Deactivated
    <2> HIDE DEF new, sent
    <2>4. DOMAIN batListings' = DOMAIN batListings \cup new
      BY <2>2
    <2>5. \A l \in DOMAIN batListings : l \notin new => batListings'[l] = IF l \in withdrawn THEN FALSE ELSE batListings[l]
      BY <2>2, <2>3
    <2> QED BY <2>1, <2>4, <2>5
  <1>7. ~kept => UNCHANGED <<batTransactions, batListings>>
    BY DEF Bat!OpFinish
  <1>8. /\ (\A t \in sent : t[1] = b) /\ OpThere(b, sent) = sent /\ (\A c : c # b => OpThere(c, sent) = {})
        /\ (\A t \in new : t[1] = b) /\ OpThere(b, new) = new /\ (\A c : c # b => OpThere(c, new) = {})
    BY OpOwn
  <1>9. kept => OpThere(b, batTransactions') = sent /\ OpThere(b, DOMAIN batListings') = new
    <2>1. /\ OpThere(b, batTransactions \cup sent) = OpThere(b, batTransactions) \cup OpThere(b, sent)
          /\ OpThere(b, DOMAIN batListings \cup new) = OpThere(b, DOMAIN batListings) \cup OpThere(b, new)
      BY OpThereUnion
    <2>2. OpThere(b, batTransactions) = {} /\ OpThere(b, DOMAIN batListings) = {}
      BY <1>4
    <2>3. OpThere(b, batTransactions \cup sent) = sent /\ OpThere(b, DOMAIN batListings \cup new) = new
      <3> HIDE DEF sent, new, b
      <3> QED BY <2>1, <2>2, <1>8
    <2> HIDE DEF sent, new, b, kept
    <2> QED BY <2>3, <1>6
  <1>10. /\ batSucceeded' \in Seq(SUBSET Nat) /\ Len(batSucceeded') = Len(batSucceeded) /\ batSucceeded'[b] = p.ok
         /\ \A c \in DOMAIN batOpBatches : c # b => batSucceeded'[c] = batSucceeded[c]
    <2>1. p.ok \in SUBSET Nat /\ batSucceeded \in Seq(SUBSET Nat)
      BY <1>2, <1>3, <1>5 DEF OpTyped
    <2> HIDE DEF b, p
    <2> QED BY <2>1, <1>1, <1>3
  <1>11. status \in {"failed", "completed", "completed_with_errors"}
    OBVIOUS
  <1>12. status = "completed" => ~p.aborted
    <2> SUFFICES ASSUME p.aborted, ~(Bat!Cardinality(p.ok) < Len(ops)) PROVE FALSE
      OBVIOUS
    <2>1. PICK j \in 1..Len(ops) : j \notin p.ok
      BY <1>5
    <2>2. IsFiniteSet(1..Len(ops)) /\ Cardinality(1..Len(ops)) = Len(ops)
      BY <1>3, FS_Interval
    <2>3. Cardinality(p.ok) <= Cardinality(1..Len(ops)) /\ (Cardinality(p.ok) = Cardinality(1..Len(ops)) => p.ok = 1..Len(ops))
      BY <1>5, <2>2, FS_Subset
    <2>4. Bat!Cardinality(p.ok) = Cardinality(p.ok) /\ Cardinality(p.ok) \in Nat
      BY <1>3, <1>5, OpFinite
    <2>5. Cardinality(p.ok) # Len(ops)
      BY <2>1, <2>2, <2>3
    <2> QED BY <2>2, <2>3, <2>4, <2>5, <1>3
  <1>13. OpTold(b, status, ops, p.ok, batAborted', batTransactions', batListings')
    <2>1. b \in batAborted' <=> p.aborted
      BY <1>1, <1>4
    <2>2. status = "failed" <=> p.ok = {}
      OBVIOUS
    <2>3. ~kept => OpThere(b, batTransactions') = {} /\ OpThere(b, DOMAIN batListings') = {}
      BY <1>4, <1>7
    <2> HIDE DEF status, b, ops
    <2> QED BY <2>1, <2>2, <2>3, <1>9, <1>11, <1>12 DEF OpTold
  <1>14. OpTyped'
    <2>1. \A c \in DOMAIN batOpBatches : batSucceeded'[c] \subseteq DOMAIN batOpBatches[c].ops
      BY <1>2, <1>3, <1>5, <1>10 DEF OpTyped
    <2>2. \A t \in batTransactions' : t[1] \in DOMAIN batOpBatches
      BY <1>2, <1>6, <1>7, <1>8 DEF OpTyped
    <2>3. \A l \in DOMAIN batListings' : l[1] \in DOMAIN batOpBatches
      BY <1>2, <1>6, <1>7, <1>8 DEF OpTyped
    <2>4. batAborted' \subseteq DOMAIN batOpBatches /\ batOpReq' = [x \in BatOpReqs |-> batOpReq'[x]]
      BY <1>1, <1>2 DEF OpTyped
    <2> QED BY <2>1, <2>2, <2>3, <2>4, <1>1, <1>2, <1>10 DEF OpTyped
  <1>15. ASSUME NEW c, c # b
         PROVE  OpKept(c, batAborted, batTransactions, batListings, batAborted', batTransactions', batListings')
    <2>1. c \in batAborted' <=> c \in batAborted
      BY <1>1, <1>15
    <2>2. CASE kept
      <3>1. OpThere(c, batTransactions') = OpThere(c, batTransactions) /\ OpThere(c, DOMAIN batListings') = OpThere(c, DOMAIN batListings)
        <4>1. /\ OpThere(c, batTransactions \cup sent) = OpThere(c, batTransactions) \cup OpThere(c, sent)
              /\ OpThere(c, DOMAIN batListings \cup new) = OpThere(c, DOMAIN batListings) \cup OpThere(c, new)
          BY OpThereUnion
        <4>2. OpThere(c, sent) = {} /\ OpThere(c, new) = {}
          BY <1>8, <1>15
        <4> HIDE DEF sent, new, b, kept
        <4> QED BY <2>2, <1>6, <4>1, <4>2
      <3>2. \A l \in OpThere(c, DOMAIN batListings) : l \in DOMAIN batListings /\ l \notin new
        BY <1>8, <1>15 DEF OpThere
      <3> HIDE DEF new, b
      <3> QED BY <2>1, <2>2, <3>1, <3>2, <1>6 DEF OpKept
    <2>3. CASE ~kept
      BY <2>1, <2>3, <1>7 DEF OpKept
    <2> QED BY <2>2, <2>3
  <1>16. q.pc = "save" /\ q.batch = b /\ q.status = status
    OBVIOUS
  <1>17. OpAsks(q, batOpBatches', batSucceeded', batAborted', batTransactions', batListings')
    <2> HIDE DEF q, status, b
    <2> QED BY <1>1, <1>2, <1>10, <1>11, <1>13, <1>16 DEF OpAsks
  <1>18. OpSays(b, batOpBatches', batSucceeded', batAborted', batTransactions', batListings')
    BY <1>1, <1>2 DEF OpTold, OpSays
  <1>19. OpOthers(b)
    BY <1>1, <1>10, <1>15 DEF OpOthers
  <1> HIDE DEF q, b, kept
  <1> QED BY <1>1, <1>2, <1>14, <1>16, <1>17, <1>18, <1>19, OpMoved

\* The status that is saved is the one the commit justified.
LEMMA OpSaveInv == ASSUME OpInv, NEW r \in BatOpReqs, Bat!SaveBatch(r) PROVE OpInv'
  <1> DEFINE p == batOpReq[r]
             b == p.batch
             row == [batOpBatches[b] EXCEPT !.status = p.status, !.hash = IF p.status = "failed" THEN "unset" ELSE "batch_tx"]
  <1>1. /\ p.pc = "save" /\ batOpReq' = [batOpReq EXCEPT ![r] = Bat!Done]
        /\ UNCHANGED <<batTransactions, batListings, batAborted, batSucceeded>>
    BY DEF Bat!SaveBatch
  <1>2. batOpBatches' = [batOpBatches EXCEPT ![b] = row]
    BY DEF Bat!SaveBatch
  <1>3. /\ OpTyped /\ b \in DOMAIN batOpBatches /\ batOpBatches[b].status = "processing"
        /\ OpAsks(p, batOpBatches, batSucceeded, batAborted, batTransactions, batListings)
        /\ OpRest(b, r)
    BY <1>1, OpAlone
  <1>4. batOpBatches[b] \in OpRow
    BY <1>3, OpRead
  <1>5. /\ p.status \in {"failed", "completed", "completed_with_errors"}
        /\ OpTold(b, p.status, batOpBatches[b].ops, batSucceeded[b], batAborted, batTransactions, batListings)
    BY <1>1, <1>3 DEF OpAsks
  <1>6. row \in OpRow /\ row.ops = batOpBatches[b].ops /\ row.status = p.status
    BY <1>4, <1>5 DEF OpRow
  <1> HIDE DEF row
  <1>7. /\ batOpBatches' \in Seq(OpRow) /\ Len(batOpBatches') = Len(batOpBatches)
        /\ DOMAIN batOpBatches' = DOMAIN batOpBatches
        /\ batOpBatches'[b] = row /\ \A c \in DOMAIN batOpBatches : c # b => batOpBatches'[c] = batOpBatches[c]
        /\ \A c \in DOMAIN batOpBatches : batOpBatches'[c].ops = batOpBatches[c].ops
    <2> HIDE DEF b
    <2> QED BY <1>2, <1>3, <1>6, OpSaved
  <1>8. OpTyped'
    BY <1>1, <1>3, <1>7 DEF OpTyped
  <1>9. OpSays(b, batOpBatches', batSucceeded', batAborted', batTransactions', batListings')
    BY <1>1, <1>5, <1>6, <1>7 DEF OpSays
  <1>10. Bat!Done.pc = "done" /\ OpAsks(Bat!Done, batOpBatches', batSucceeded', batAborted', batTransactions', batListings')
    BY DEF OpAsks, Bat!Done
  <1>11. OpOthers(b)
    BY <1>1, <1>7, OpUnmoved DEF OpOthers
  <1> HIDE DEF b
  <1> QED BY <1>1, <1>3, <1>8, <1>9, <1>10, <1>11, OpMoved

LEMMA OpRollbackReadInv ==
    ASSUME OpInv, NEW r \in BatOpReqs, NEW b \in Bat!OpIds, Bat!RollbackRead(r, b) PROVE OpInv'
  <1> DEFINE q == [pc |-> "rollback", batch |-> b]
  <1>1. /\ batOpBatches[b].status \in {"completed", "completed_with_errors"} /\ b \in DOMAIN batOpBatches
        /\ batOpReq' = [batOpReq EXCEPT ![r] = q]
        /\ UNCHANGED <<batOpBatches, batTransactions, batListings, batAborted, batSucceeded>>
    BY DEF Bat!RollbackRead, Bat!MayRollBack, Bat!OpIds
  <1>2. q.pc = "rollback" /\ q.batch = b
    OBVIOUS
  <1> HIDE DEF q
  <1>3. OpTyped'
    BY <1>1 DEF OpInv, OpTyped
  <1>4. OpAsks(q, batOpBatches', batSucceeded', batAborted', batTransactions', batListings')
    BY <1>1, <1>2 DEF OpAsks
  <1>5. 0 \notin DOMAIN batOpBatches
    BY DEF OpInv, OpTyped
  <1>6. OpRest(0, r)
    <2>1. \A x \in BatOpReqs : batOpReq[x].pc \in {"run", "save", "rollback"} => batOpReq[x].batch # 0
      BY <1>5, OpPlaces
    <2> QED BY <2>1 DEF OpRest, OpRuns
  <1>7. OpOthers(0)
    BY <1>1, OpUnmoved DEF OpOthers
  <1> QED BY <1>1, <1>2, <1>3, <1>4, <1>5, <1>6, <1>7, OpMoved

\* The records a batch may have left are all taken back.
LEMMA OpRollbackInv == ASSUME OpInv, NEW r \in BatOpReqs, Bat!RollbackBatch(r) PROVE OpInv'
  <1> DEFINE b == batOpReq[r].batch
             ops == batOpBatches[b].ops
             row == [batOpBatches[b] EXCEPT !.status = "rolled_back"]
             sent == OpTuples(b, ops, "transfer", DOMAIN ops)
             offered == OpTuples(b, ops, "list", DOMAIN ops)
  <1>1. /\ batOpReq[r].pc = "rollback" /\ batOpReq' = [batOpReq EXCEPT ![r] = Bat!Done]
        /\ batOpBatches' = [batOpBatches EXCEPT ![b] = row]
        /\ UNCHANGED <<batAborted, batSucceeded>>
    BY DEF Bat!RollbackBatch
  <1>2. batTransactions' = batTransactions \ sent /\ batListings' = Bat!Deactivated(offered)
    BY DEF Bat!RollbackBatch, Bat!Undone, Bat!OpsOf, OpTuples
  <1>3. /\ OpTyped /\ b \in DOMAIN batOpBatches
        /\ batOpBatches[b].status \in {"completed", "completed_with_errors", "rolled_back"}
    BY <1>1, OpPlaces DEF OpInv
  <1>4. batOpBatches[b] \in OpRow /\ batSucceeded[b] \subseteq DOMAIN ops
    BY <1>3, OpRead DEF OpTyped
  <1>5. row \in OpRow /\ row.ops = ops /\ row.status = "rolled_back"
    BY <1>4 DEF OpRow
  <1> HIDE DEF row
  <1>6. /\ batOpBatches' \in Seq(OpRow) /\ Len(batOpBatches') = Len(batOpBatches)
        /\ DOMAIN batOpBatches' = DOMAIN batOpBatches
        /\ batOpBatches'[b] = row /\ \A c \in DOMAIN batOpBatches : c # b => batOpBatches'[c] = batOpBatches[c]
        /\ \A c \in DOMAIN batOpBatches : batOpBatches'[c].ops = batOpBatches[c].ops
    <2> HIDE DEF b
    <2> QED BY <1>1, <1>3, <1>5, OpSaved
  <1>7. /\ DOMAIN batListings' = DOMAIN batListings
        /\ \A l \in DOMAIN batListings : l \in offered \/ ~batListings[l] => ~batListings'[l]
    <2> HIDE DEF offered
    <2>1. /\ DOMAIN batListings' = DOMAIN batListings
          /\ \A l \in DOMAIN batListings : batListings'[l] = IF l \in offered THEN FALSE ELSE batListings[l]
      BY <1>2 DEF Bat!Deactivated
    <2> QED BY <2>1
  <1>8. OpTyped'
    <2>1. /\ \A t \in batTransactions' : t[1] \in DOMAIN batOpBatches
          /\ \A l \in DOMAIN batListings' : l[1] \in DOMAIN batOpBatches
      BY <1>2, <1>3, <1>7 DEF OpTyped
    <2>2. batOpReq' = [x \in BatOpReqs |-> batOpReq'[x]]
      BY <1>1, <1>3 DEF OpTyped
    <2> QED BY <2>1, <2>2, <1>1, <1>3, <1>6 DEF OpTyped
  <1>9. OpThere(b, batTransactions') = {} /\ \A l \in OpThere(b, DOMAIN batListings') : ~batListings'[l]
    <2>1. OpTold(b, batOpBatches[b].status, ops, batSucceeded[b], batAborted, batTransactions, batListings)
      BY <1>3 DEF OpInv, OpSays
    <2>2. /\ OpThere(b, batTransactions) \subseteq sent
          /\ \A l \in OpThere(b, DOMAIN batListings) : l \in offered \/ ~batListings[l]
      <3>1. /\ OpTuples(b, ops, "transfer", batSucceeded[b]) \subseteq sent
            /\ OpTuples(b, ops, "list", batSucceeded[b]) \subseteq offered
        BY <1>4 DEF OpTuples
      <3> HIDE DEF sent, offered, b, ops
      <3> QED BY <2>1, <3>1, <1>3 DEF OpTold
    <2>3. OpThere(b, batTransactions') = {}
      <3> HIDE DEF sent, b
      <3> QED BY <2>2, <1>2 DEF OpThere
    <2> HIDE DEF offered, b
    <2> QED BY <2>2, <2>3, <1>7 DEF OpThere
  <1>10. OpSays(b, batOpBatches', batSucceeded', batAborted', batTransactions', batListings')
    <2> HIDE DEF b, ops
    <2> QED BY <1>5, <1>6, <1>9 DEF OpTold, OpSays
  <1>11. ASSUME NEW c, c # b
         PROVE  OpKept(c, batAborted, batTransactions, batListings, batAborted', batTransactions', batListings')
    <2>1. OpThere(c, batTransactions') = OpThere(c, batTransactions)
      <3>1. \A t \in sent : t[1] = b
        BY OpOwn
      <3> HIDE DEF sent, b
      <3> QED BY <3>1, <1>2, <1>11 DEF OpThere
    <2> HIDE DEF b, offered
    <2> QED BY <2>1, <1>1, <1>7 DEF OpKept, OpThere
  <1>12. Bat!Done.pc = "done" /\ OpAsks(Bat!Done, batOpBatches', batSucceeded', batAborted', batTransactions', batListings')
    BY DEF OpAsks, Bat!Done
  <1>13. ASSUME NEW x \in BatOpReqs, batOpReq[x].pc = "rollback", batOpReq[x].batch = b
         PROVE  OpAsks(batOpReq[x], batOpBatches', batSucceeded', batAborted', batTransactions', batListings')
    <2> HIDE DEF b
    <2> QED BY <1>13, <1>3, <1>5, <1>6 DEF OpAsks
  <1>14. OpRest(b, r)
    <2> HIDE DEF b
    <2>1. \A x \in BatOpReqs : ~OpRuns(batOpReq[x], b)
      BY <1>3, OpPlaces DEF OpRuns
    <2> QED BY <2>1, <1>13 DEF OpRest
  <1>15. OpOthers(b)
    BY <1>1, <1>6, <1>11 DEF OpOthers
  <1> HIDE DEF b
  <1> QED BY <1>1, <1>8, <1>10, <1>12, <1>14, <1>15, OpMoved

\* The requests that were running have gone, and their batches stay as they
\* were found.
LEMMA OpCrashInv == ASSUME OpInv, Bat!OpCrash \/ UNCHANGED Bat!opVars PROVE OpInv'
  <1>1. CASE UNCHANGED Bat!opVars
    BY <1>1 DEF Bat!opVars, OpInv, OpTyped, OpSays
  <1>2. CASE Bat!OpCrash
    <2>1. /\ batOpReq' = [r \in BatOpReqs |-> IF batOpReq[r] = Bat!New THEN Bat!New ELSE Bat!Done]
          /\ UNCHANGED <<batOpBatches, batTransactions, batListings, batAborted, batSucceeded>>
      BY <1>2 DEF Bat!OpCrash
    <2>2. \A r \in BatOpReqs : batOpReq'[r].pc \in {"new", "done"}
      BY <2>1 DEF Bat!New, Bat!Done
    <2>3. OpTyped'
      BY <2>1 DEF OpInv, OpTyped
    <2>4. \A r \in BatOpReqs : OpAsks(batOpReq'[r], batOpBatches', batSucceeded', batAborted', batTransactions', batListings')
      BY <2>2 DEF OpAsks
    <2>5. \A r \in BatOpReqs : \A b : ~OpRuns(batOpReq'[r], b)
      BY <2>2 DEF OpRuns
    <2> QED BY <2>1, <2>3, <2>4, <2>5 DEF OpInv, OpSays
  <1> QED BY <1>1, <1>2

LEMMA OpNextInv == OpInv /\ [Bat!OpNext]_(Bat!opVars) => OpInv'
  <1> SUFFICES ASSUME OpInv, [Bat!OpNext]_(Bat!opVars) PROVE OpInv'
    OBVIOUS
  <1>1. CASE Bat!OpCrash \/ UNCHANGED Bat!opVars
    BY <1>1, OpCrashInv
  <1>2. CASE \E r \in BatOpReqs :
                \/ \E ops \in BatOpLists : Bat!ExecuteBatch(r, ops)
                \/ \E o \in {"done", "refused", "failed"} : Bat!RunOperation(r, o)
                \/ \E c \in {{}} \cup {{l} : l \in DOMAIN batListings} : Bat!OpFinish(r, c)
                \/ Bat!SaveBatch(r) \/ Bat!RollbackBatch(r)
                \/ \E b \in Bat!OpIds : Bat!RollbackRead(r, b)
    BY <1>2, OpExecuteInv, OpRunInv, OpFinishInv, OpSaveInv, OpRollbackInv, OpRollbackReadInv
  <1> QED BY <1>1, <1>2 DEF Bat!OpNext

LEMMA OpInvInit == Bat!OpInit => OpInv
  <1> SUFFICES ASSUME Bat!OpInit PROVE OpInv
    OBVIOUS
  <1>1. /\ batOpBatches = <<>> /\ batSucceeded = <<>> /\ batTransactions = {} /\ batListings = << >> /\ batAborted = {}
        /\ batOpReq = [r \in BatOpReqs |-> Bat!New]
    BY DEF Bat!OpInit
  <1>2. DOMAIN batOpBatches = {} /\ Len(batOpBatches) = 0 /\ DOMAIN batListings = {}
    BY <1>1
  <1>3. OpTyped
    BY <1>1, <1>2 DEF OpTyped
  <1>4. \A r \in BatOpReqs : batOpReq[r].pc = "new"
    BY <1>1 DEF Bat!New
  <1> QED BY <1>2, <1>3, <1>4 DEF OpInv, OpAsks, OpRuns

LEMMA OpInvMeans == OpInv => Bat!BatchStatusTellsRecords
  <1> SUFFICES ASSUME OpInv, NEW b \in DOMAIN batOpBatches
               PROVE  LET done == Bat!OpsOf(b, "transfer", batSucceeded[b])
                          there == {t \in batTransactions : t[1] = b}
                          offers == {l \in DOMAIN batListings : l[1] = b}
                      IN /\ batOpBatches[b].status = "completed" =>
                              there = done /\ offers = Bat!OpsOf(b, "list", batSucceeded[b])
                         /\ batOpBatches[b].status = "completed_with_errors" =>
                              IF b \in batAborted THEN there = {} /\ offers = {} ELSE there = done
                         /\ batOpBatches[b].status = "failed" => there = {} /\ offers = {}
                         /\ batOpBatches[b].status = "rolled_back" => there = {} /\ \A l \in offers : ~batListings[l]
    BY DEF Bat!BatchStatusTellsRecords, Bat!OpIds
  <1> DEFINE s == batSucceeded[b]
             ops == batOpBatches[b].ops
             status == batOpBatches[b].status
             there == OpThere(b, batTransactions)
             offers == OpThere(b, DOMAIN batListings)
             done == OpTuples(b, ops, "transfer", s)
             new == OpTuples(b, ops, "list", s)
  <1>1. OpTold(b, status, ops, s, batAborted, batTransactions, batListings)
    BY DEF OpInv, OpSays
  <1>2. /\ Bat!OpsOf(b, "transfer", s) = done /\ Bat!OpsOf(b, "list", s) = new
        /\ {t \in batTransactions : t[1] = b} = there /\ {l \in DOMAIN batListings : l[1] = b} = offers
    BY DEF Bat!OpsOf, OpTuples, OpThere
  <1>3. /\ status = "completed" => there = done /\ offers = new
        /\ status = "completed_with_errors" => IF b \in batAborted THEN there = {} /\ offers = {} ELSE there = done
        /\ status = "failed" => there = {} /\ offers = {}
        /\ status = "rolled_back" => there = {} /\ \A l \in offers : ~batListings[l]
    BY <1>1 DEF OpTold
  <1> HIDE DEF there, offers, done, new, s
  <1> QED BY <1>2, <1>3 DEF s

(***************************************************************************)
(* However often batches of transfers are queued, taken, retried, cut off  *)
(* by crashes and cancelled, each commits its transfers at most once and   *)
(* its status says whether it has; and the status of a batch of operations *)
(* says which of its records exist, whatever commits failed unseen and     *)
(* however requests, rollbacks and crashes interleave.                     *)
(***************************************************************************)
THEOREM BatchesTold == Bat!Spec /\ Bat!OpSpec => []BatchesAreTold
  <1>1. Bat!Spec => []BatInv
    BY BatInvInit, BatNextInv, PTL DEF Bat!Spec
  <1>2. Bat!OpSpec => []OpInv
    BY OpInvInit, OpNextInv, PTL DEF Bat!OpSpec
  <1>3. BatInv /\ OpInv => BatchesAreTold
    BY BatInvMeans, OpInvMeans DEF BatchesAreTold
  <1> QED BY <1>1, <1>2, <1>3, PTL

-----------------------------------------------------------------------------
(* Scheduled reports                                                       *)

RepStatuses == {"pending", "success", "failed", "purged"}

RepRow == [status : {s.status : s \in RepInputs}, cron : {s.cron : s \in RepInputs}, deleted : BOOLEAN,
           retention : {RepDefaultRetention} \cup {s.retention : s \in RepInputs}]

RepEntry == [schedule : Nat, status : RepStatuses, at : Nat]

RepChanging == {"save", "unregister", "register"}

RepRunning == {"deliver", "delivered", "refused"}

RepRun(n) == [pc : RepRunning, id : Nat, row : RepRow, run : 1..n]

RepAsked(q, ids, n) ==
    /\ q.pc \in RepChanging => q.id \in ids
    /\ q.pc = "save" => q.row \in RepRow /\ ~q.row.deleted
    /\ q.pc = "unregister" => q.again \in BOOLEAN
    /\ q.pc \in RepRunning => q \in RepRun(n)

RepTyped ==
    /\ repRows \in Seq(RepRow) /\ Len(repRows) <= RepMaxSchedules
    /\ repEntries = [i \in 1..RepMaxSchedules |-> repEntries[i]]
    /\ \A i \in 1..RepMaxSchedules : i \notin DOMAIN repRows => repEntries[i] = None
    /\ repHistory \in Seq(RepEntry) /\ repSent \subseteq DOMAIN repHistory /\ repNow \in Nat
    /\ repReq = [r \in RepReqs |-> repReq[r]]
    /\ \A r \in RepReqs : RepAsked(repReq[r], DOMAIN repRows, Len(repHistory))
    /\ repUp \/ \A r \in RepReqs : repReq[r].pc = "done"

RepWant(row) == IF ~row.deleted /\ row.status = "active" THEN row.cron ELSE None

\* What a request that has saved the row of a schedule still has to do.
RepKnows(q, row) ==
    /\ q.pc = "unregister" =>
        /\ q.again <=> ~row.deleted /\ row.status = "active"
        /\ q.again => q.cron = row.cron
    /\ q.pc = "register" => ~row.deleted /\ row.status = "active" /\ q.cron = row.cron

RepAt(q, i) == q.pc \in RepChanging /\ q.id = i

\* One request at most is changing the schedule, and it knows the row; with
\* none, the entry is the row's.
RepFine(i, row, entry, asks) ==
    /\ \A r, p \in RepReqs : RepAt(asks[r], i) /\ RepAt(asks[p], i) => r = p
    /\ \A r \in RepReqs : RepAt(asks[r], i) => RepKnows(asks[r], row)
    /\ (\A r \in RepReqs : ~RepAt(asks[r], i)) => entry = RepWant(row)

RepPlanned == repUp => \A i \in DOMAIN repRows \ repRaced : RepFine(i, repRows[i], repEntries[i], repReq)

\* A run under way has no outcome yet and is its own request's; the others
\* have told theirs, or were lost.
RepUnderWay(q, ran, sent) ==
    q.pc \in RepRunning =>
        /\ ran[q.run].status \in {"pending", "purged"}
        /\ q.run \in sent <=> q.pc = "delivered"

RepOutcome(h, entry, sent, lost, asks) ==
    /\ h \notin lost => (entry.status = "success" => h \in sent) /\ (entry.status = "failed" => h \notin sent)
    /\ entry.status = "pending" => h \in lost \/ \E r \in RepReqs : asks[r].pc \in RepRunning /\ asks[r].run = h

RepTold ==
    /\ \A r \in RepReqs : RepUnderWay(repReq[r], repHistory, repSent)
    /\ \A r, p \in RepReqs : repReq[r].pc \in RepRunning /\ repReq[p].pc \in RepRunning /\ repReq[r].run = repReq[p].run => r = p
    /\ \A h \in DOMAIN repHistory : RepOutcome(h, repHistory[h], repSent, repLost, repReq)

RepInv == RepTyped /\ RepPlanned /\ RepTold

LEMMA RepRead == ASSUME RepTyped, NEW i \in DOMAIN repRows PROVE repRows[i] \in RepRow /\ i \in Nat /\ i \in 1..RepMaxSchedules
  <1> DEFINE S == RepRow
  <1>1. repRows \in Seq(S) /\ Len(repRows) <= RepMaxSchedules
    BY DEF RepTyped
  <1> HIDE DEF S
  <1>2. repRows[i] \in S /\ i \in 1..Len(repRows) /\ Len(repRows) \in Nat
    BY <1>1
  <1> QED BY <1>1, <1>2, ReportAssumption DEF S

LEMMA RepOthers ==
    ASSUME NEW r, NEW i
    PROVE  Rep!Others(r, i) = {} <=> \A p \in RepReqs : p # r => ~RepAt(repReq[p], i)
  BY DEF Rep!Others, RepAt, RepChanging

\* A request's next state is put into the table of requests.
LEMMA RepReqSaved ==
    ASSUME RepTyped, NEW r \in RepReqs, NEW q, repReq' = [repReq EXCEPT ![r] = q]
    PROVE  /\ repReq' = [p \in RepReqs |-> repReq'[p]]
           /\ repReq'[r] = q /\ \A p \in RepReqs : p # r => repReq'[p] = repReq[p]
  BY DEF RepTyped

LEMMA RepRowSaved ==
    ASSUME RepTyped, NEW i \in DOMAIN repRows, NEW row \in RepRow,
           repRows' = [repRows EXCEPT ![i] = row]
    PROVE  /\ repRows' \in Seq(RepRow) /\ Len(repRows') = Len(repRows) /\ DOMAIN repRows' = DOMAIN repRows
           /\ repRows'[i] = row /\ \A j \in DOMAIN repRows : j # i => repRows'[j] = repRows[j]
  <1> DEFINE S == RepRow
  <1>1. repRows \in Seq(S) /\ row \in S
    BY DEF RepTyped
  <1> HIDE DEF S
  <1> QED BY <1>1 DEF S

\* A request that moves on keeps to its types.
LEMMA RepAskedSaved ==
    ASSUME RepTyped, NEW r \in RepReqs, NEW q, repReq' = [repReq EXCEPT ![r] = q],
           RepAsked(q, DOMAIN repRows', Len(repHistory')),
           DOMAIN repRows \subseteq DOMAIN repRows',
           Len(repHistory) \in Nat, Len(repHistory') \in Nat, Len(repHistory) <= Len(repHistory')
    PROVE  \A p \in RepReqs : RepAsked(repReq'[p], DOMAIN repRows', Len(repHistory'))
  <1>1. repReq'[r] = q /\ \A p \in RepReqs : p # r => repReq'[p] = repReq[p]
    BY RepReqSaved
  <1>2. SUFFICES ASSUME NEW p \in RepReqs, p # r PROVE RepAsked(repReq[p], DOMAIN repRows', Len(repHistory'))
    BY <1>1
  <1>3. RepAsked(repReq[p], DOMAIN repRows, Len(repHistory))
    BY DEF RepTyped
  <1>4. RepRun(Len(repHistory)) \subseteq RepRun(Len(repHistory'))
    BY DEF RepRun
  <1> QED BY <1>3, <1>4 DEF RepAsked

\* What a step leaves alone.
LEMMA RepPlanKept ==
    ASSUME RepPlanned, UNCHANGED <<repRows, repEntries, repRaced, repUp>>,
           \A r \in RepReqs : repReq[r].pc \in RepChanging \/ repReq'[r].pc \in RepChanging => repReq'[r] = repReq[r]
    PROVE  RepPlanned'
  <1> SUFFICES ASSUME repUp, NEW i \in DOMAIN repRows \ repRaced PROVE RepFine(i, repRows[i], repEntries[i], repReq')
    BY DEF RepPlanned
  <1>1. RepFine(i, repRows[i], repEntries[i], repReq)
    BY DEF RepPlanned
  <1>2. \A r \in RepReqs : /\ RepAt(repReq'[r], i) <=> RepAt(repReq[r], i)
                           /\ RepAt(repReq'[r], i) => repReq'[r] = repReq[r]
    BY DEF RepAt
  <1> QED BY <1>1, <1>2 DEF RepFine

LEMMA RepToldKept ==
    ASSUME RepTold, UNCHANGED <<repHistory, repSent, repLost>>,
           \A r \in RepReqs : repReq[r].pc \in RepRunning \/ repReq'[r].pc \in RepRunning => repReq'[r] = repReq[r]
    PROVE  RepTold'
  <1>1. \A r \in RepReqs : RepUnderWay(repReq'[r], repHistory', repSent')
    BY DEF RepTold, RepUnderWay
  <1>2. \A r, p \in RepReqs : repReq'[r].pc \in RepRunning /\ repReq'[p].pc \in RepRunning /\ repReq'[r].run = repReq'[p].run => r = p
    BY DEF RepTold
  <1>3. \A h \in DOMAIN repHistory' : RepOutcome(h, repHistory'[h], repSent', repLost', repReq')
    BY DEF RepTold, RepOutcome
  <1> QED BY <1>1, <1>2, <1>3 DEF RepTold

\* A step that concerns one schedule leaves the others as they are.
LEMMA RepMoved ==
    ASSUME RepPlanned, repUp, NEW i, repRaced \subseteq repRaced',
           \A j \in DOMAIN repRows' : j # i =>
               j \in DOMAIN repRows /\ repRows'[j] = repRows[j] /\ repEntries'[j] = repEntries[j],
           \A r \in RepReqs : \A j : j # i /\ (RepAt(repReq[r], j) \/ RepAt(repReq'[r], j)) => repReq'[r] = repReq[r],
           i \in DOMAIN repRows' \ repRaced' => RepFine(i, repRows'[i], repEntries'[i], repReq')
    PROVE  RepPlanned'
  <1> SUFFICES ASSUME NEW j \in DOMAIN repRows' \ repRaced', j # i PROVE RepFine(j, repRows'[j], repEntries'[j], repReq')
    BY DEF RepPlanned
  <1>1. RepFine(j, repRows[j], repEntries[j], repReq) /\ repRows'[j] = repRows[j] /\ repEntries'[j] = repEntries[j]
    BY DEF RepPlanned
  <1>2. \A r \in RepReqs : /\ RepAt(repReq'[r], j) <=> RepAt(repReq[r], j)
                           /\ RepAt(repReq'[r], j) => repReq'[r] = repReq[r]
    OBVIOUS
  <1> QED BY <1>1, <1>2 DEF RepFine

\* A step of a request on the schedules keeps the runs' results.
LEMMA RepScheduleTold ==
    ASSUME RepTyped, RepTold, UNCHANGED <<repHistory, repSent, repLost>>, NEW r \in RepReqs, NEW q,
           repReq' = [repReq EXCEPT ![r] = q], repReq[r].pc \notin RepRunning, q.pc \notin RepRunning
    PROVE  RepTold'
  BY RepReqSaved, RepToldKept

LEMMA RepAtWork == ASSUME RepTyped, NEW r \in RepReqs, repReq[r].pc # "done" PROVE repUp
  BY DEF RepTyped

LEMMA RepCreateInv == ASSUME RepInv, NEW r \in RepReqs, NEW s \in RepInputs, Rep!CreateSchedule(r, s) PROVE RepInv'
  <1> DEFINE n == Len(repRows)
             row == Rep!normalizeSchedule(s)
             q == IF s.status = "active" THEN [pc |-> "register", id |-> n + 1, cron |-> s.cron] ELSE Rep!Done
  <1>1. /\ repUp /\ repReq[r] = Rep!New /\ n < RepMaxSchedules
        /\ repRows' = Append(repRows, row) /\ repReq' = [repReq EXCEPT ![r] = q]
        /\ UNCHANGED <<repEntries, repHistory, repUp, repSent, repLost, repRaced, repNow>>
    BY DEF Rep!CreateSchedule
  <1>2. RepTyped /\ RepPlanned /\ RepTold
    BY DEF RepInv
  <1>3. row \in RepRow /\ row.status = s.status /\ row.cron = s.cron /\ ~row.deleted
    BY DEF Rep!normalizeSchedule, RepRow
  <1>4. /\ q.pc \in {"register", "done"} /\ (q.pc = "register" <=> s.status = "active")
        /\ q.pc = "register" => q.id = n + 1 /\ q.cron = s.cron
    BY DEF Rep!Done
  <1> HIDE DEF row, q
  <1>5. n \in Nat /\ DOMAIN repRows = 1..n /\ n + 1 \notin 1..n /\ n + 1 \in 1..RepMaxSchedules
    BY <1>1, <1>2, ReportAssumption DEF RepTyped
  <1>6. /\ repRows' \in Seq(RepRow) /\ DOMAIN repRows' = 1..(n + 1) /\ Len(repRows') = n + 1
        /\ repRows'[n + 1] = row /\ \A j \in 1..n : repRows'[j] = repRows[j]
    <2> DEFINE S == RepRow
    <2>1. repRows \in Seq(S) /\ row \in S
      BY <1>2, <1>3 DEF RepTyped
    <2> HIDE DEF S
    <2> QED BY <1>1, <2>1 DEF S
  <1>7. repReq' = [p \in RepReqs |-> repReq'[p]] /\ repReq'[r] = q /\ \A p \in RepReqs : p # r => repReq'[p] = repReq[p]
    BY <1>1, <1>2, RepReqSaved
  <1>8. RepTyped'
    <2>1. Len(repHistory) \in Nat /\ Len(repHistory') = Len(repHistory) /\ Len(repHistory) <= Len(repHistory')
      BY <1>1, <1>2 DEF RepTyped
    <2>2. RepAsked(q, DOMAIN repRows', Len(repHistory'))
      BY <1>4, <1>5, <1>6 DEF RepAsked, RepChanging, RepRunning
    <2>3. \A p \in RepReqs : RepAsked(repReq'[p], DOMAIN repRows', Len(repHistory'))
      <3> HIDE DEF n
      <3>1. DOMAIN repRows \subseteq DOMAIN repRows'
        BY <1>5, <1>6
      <3> QED BY <2>1, <2>2, <3>1, <1>1, <1>2, RepAskedSaved
    <2>4. \A i \in 1..RepMaxSchedules : i \notin DOMAIN repRows' => repEntries'[i] = None
      BY <1>1, <1>2, <1>5, <1>6 DEF RepTyped
    <2> QED BY <2>3, <2>4, <1>1, <1>2, <1>5, <1>6, <1>7, ReportAssumption DEF RepTyped
  <1>9. \A p \in RepReqs : ~RepAt(repReq[p], n + 1)
    BY <1>2, <1>5 DEF RepTyped, RepAsked, RepAt
  <1>10. RepFine(n + 1, repRows'[n + 1], repEntries'[n + 1], repReq')
    <2>1. repEntries'[n + 1] = None
      BY <1>1, <1>2, <1>5 DEF RepTyped
    <2>2. \A p \in RepReqs : RepAt(repReq'[p], n + 1) => p = r
      BY <1>7, <1>9
    <2>3. RepAt(repReq'[r], n + 1) <=> s.status = "active"
      BY <1>4, <1>7 DEF RepAt, RepChanging
    <2>4. RepAt(repReq'[r], n + 1) => RepKnows(repReq'[r], repRows'[n + 1])
      BY <2>3, <1>3, <1>4, <1>6, <1>7 DEF RepKnows
    <2>5. s.status # "active" => RepWant(row) = None
      BY <1>3 DEF RepWant
    <2> QED BY <2>1, <2>2, <2>3, <2>4, <2>5, <1>6 DEF RepFine
  <1>11. \A p \in RepReqs : \A j : j # n + 1 /\ (RepAt(repReq[p], j) \/ RepAt(repReq'[p], j)) => repReq'[p] = repReq[p]
    BY <1>1, <1>4, <1>7 DEF RepAt, RepChanging, Rep!New
  <1>12. \A j \in DOMAIN repRows' : j # n + 1 => j \in DOMAIN repRows /\ repRows'[j] = repRows[j] /\ repEntries'[j] = repEntries[j]
    BY <1>1, <1>5, <1>6
  <1>13. RepPlanned'
    <2> HIDE DEF n
    <2> QED BY <1>1, <1>2, <1>10, <1>11, <1>12, RepMoved
  <1>14. RepTold'
    <2>1. repReq[r].pc \notin RepRunning /\ q.pc \notin RepRunning
      BY <1>1, <1>4 DEF Rep!New, RepRunning
    <2> HIDE DEF n
    <2> QED BY <2>1, <1>1, <1>2, RepScheduleTold
  <1> QED BY <1>8, <1>13, <1>14 DEF RepInv

\* The steps of a request on a schedule that is there.
LEMMA RepChanged ==
    ASSUME RepInv, NEW r \in RepReqs, NEW i \in DOMAIN repRows, NEW row \in RepRow, NEW entry, NEW q, repUp,
           repReq[r].pc \notin RepRunning,
           \A j : j # i => ~RepAt(repReq[r], j),
           repRows' = [repRows EXCEPT ![i] = row], repEntries' = [repEntries EXCEPT ![i] = entry],
           repReq' = [repReq EXCEPT ![r] = q],
           q.pc \in RepChanging => q.id = i,
           q.pc = "save" => q.row \in RepRow /\ ~q.row.deleted,
           q.pc = "unregister" => q.again \in BOOLEAN,
           q.pc \notin RepRunning,
           repRaced \subseteq repRaced',
           i \notin repRaced' =>
               /\ \A p \in RepReqs : p # r => ~RepAt(repReq[p], i)
               /\ q.pc \in RepChanging => RepKnows(q, row)
               /\ q.pc \notin RepChanging => entry = RepWant(row),
           UNCHANGED <<repHistory, repUp, repSent, repLost, repNow>>
    PROVE  RepInv'
  <1>1. RepTyped /\ RepPlanned /\ RepTold
    BY DEF RepInv
  <1>2. i \in 1..RepMaxSchedules
    BY <1>1, RepRead
  <1>3. /\ repRows' \in Seq(RepRow) /\ Len(repRows') = Len(repRows) /\ DOMAIN repRows' = DOMAIN repRows
        /\ repRows'[i] = row /\ \A j \in DOMAIN repRows : j # i => repRows'[j] = repRows[j]
    BY <1>1, RepRowSaved
  <1>4. repReq' = [p \in RepReqs |-> repReq'[p]] /\ repReq'[r] = q /\ \A p \in RepReqs : p # r => repReq'[p] = repReq[p]
    BY <1>1, RepReqSaved
  <1>5. /\ repEntries' = [j \in 1..RepMaxSchedules |-> repEntries'[j]] /\ repEntries'[i] = entry
        /\ \A j \in 1..RepMaxSchedules : j # i => repEntries'[j] = repEntries[j]
    BY <1>1, <1>2 DEF RepTyped
  <1>6. \A j \in DOMAIN repRows : j \in 1..RepMaxSchedules
    BY <1>1, RepRead
  <1>7. RepTyped'
    <2>1. Len(repHistory) \in Nat /\ Len(repHistory') = Len(repHistory) /\ Len(repHistory) <= Len(repHistory')
      BY <1>1 DEF RepTyped
    <2>2. RepAsked(q, DOMAIN repRows', Len(repHistory'))
      BY <1>3 DEF RepAsked
    <2>3. \A p \in RepReqs : RepAsked(repReq'[p], DOMAIN repRows', Len(repHistory'))
      BY <2>1, <2>2, <1>1, <1>3, RepAskedSaved
    <2>4. \A j \in 1..RepMaxSchedules : j \notin DOMAIN repRows' => repEntries'[j] = None
      BY <1>1, <1>3, <1>5 DEF RepTyped
    <2> QED BY <2>3, <2>4, <1>1, <1>3, <1>4, <1>5 DEF RepTyped
  <1>8. ASSUME i \notin repRaced' PROVE RepFine(i, repRows'[i], repEntries'[i], repReq')
    <2>1. \A p \in RepReqs : RepAt(repReq'[p], i) => p = r
      BY <1>4, <1>8
    <2>2. RepAt(repReq'[r], i) <=> q.pc \in RepChanging
      BY <1>4 DEF RepAt
    <2> QED BY <2>1, <2>2, <1>3, <1>4, <1>5, <1>8 DEF RepFine
  <1>9. \A p \in RepReqs : \A j : j # i /\ (RepAt(repReq[p], j) \/ RepAt(repReq'[p], j)) => repReq'[p] = repReq[p]
    BY <1>4 DEF RepAt
  <1>10. \A j \in DOMAIN repRows' : j # i => j \in DOMAIN repRows /\ repRows'[j] = repRows[j] /\ repEntries'[j] = repEntries[j]
    BY <1>3, <1>5, <1>6
  <1>11. RepPlanned'
    BY <1>1, <1>8, <1>9, <1>10, RepMoved
  <1>12. RepTold'
    BY <1>1, RepScheduleTold
  <1> QED BY <1>7, <1>11, <1>12 DEF RepInv

\* What RepChanged asks for when the row or the entry stays.
LEMMA RepStays ==
    ASSUME RepTyped, NEW i \in DOMAIN repRows
    PROVE  /\ repRows[i] \in RepRow /\ repRows = [repRows EXCEPT ![i] = repRows[i]]
           /\ repEntries = [repEntries EXCEPT ![i] = repEntries[i]]
  <1>1. repRows[i] \in RepRow
    BY RepRead
  <1>2. repRows = [repRows EXCEPT ![i] = repRows[i]]
    <2> DEFINE S == RepRow
    <2>1. repRows \in Seq(S)
      BY DEF RepTyped
    <2> HIDE DEF S
    <2> QED BY <2>1
  <1>3. repEntries = [repEntries EXCEPT ![i] = repEntries[i]]
    BY DEF RepTyped
  <1> QED BY <1>1, <1>2, <1>3

LEMMA RepFresh == ASSUME NEW r, repReq[r] = Rep!New PROVE repReq[r].pc \notin RepRunning /\ repReq[r].pc = "new" /\ \A j : ~RepAt(repReq[r], j)
  BY DEF Rep!New, RepRunning, RepAt, RepChanging

LEMMA RepUpdateReadInv ==
    ASSUME RepInv, NEW r \in RepReqs, NEW i \in DOMAIN repRows, NEW s \in RepInputs, Rep!UpdateRead(r, i, s)
    PROVE  RepInv'
  <1> DEFINE row == Rep!normalizeSchedule(s)
             q == [pc |-> "save", id |-> i, row |-> row]
  <1>1. /\ repUp /\ repReq[r] = Rep!New /\ repReq' = [repReq EXCEPT ![r] = q] /\ repRaced' = Rep!Raced(r, i)
        /\ UNCHANGED <<repRows, repEntries, repHistory, repUp, repSent, repLost, repNow>>
    BY DEF Rep!UpdateRead
  <1>2. row \in RepRow /\ ~row.deleted
    BY DEF Rep!normalizeSchedule, RepRow
  <1>3. q.pc = "save" /\ q.pc \in RepChanging /\ q.pc \notin RepRunning /\ q.id = i /\ q.row = row
    BY DEF RepChanging, RepRunning
  <1> HIDE DEF row, q
  <1>4. /\ repRows[i] \in RepRow /\ repRows' = [repRows EXCEPT ![i] = repRows[i]]
        /\ repEntries' = [repEntries EXCEPT ![i] = repEntries[i]]
    BY <1>1, RepStays DEF RepInv
  <1>5. /\ repRaced \subseteq repRaced'
        /\ i \notin repRaced' => \A p \in RepReqs : p # r => ~RepAt(repReq[p], i)
    BY <1>1, RepOthers DEF Rep!Raced
  <1>6. RepKnows(q, repRows[i])
    BY <1>3 DEF RepKnows
  <1>7. repReq[r].pc \notin RepRunning /\ \A j : j # i => ~RepAt(repReq[r], j)
    BY <1>1, RepFresh
  <1>8. /\ q.pc \in RepChanging => q.id = i
        /\ q.pc = "save" => q.row \in RepRow /\ ~q.row.deleted
        /\ q.pc = "unregister" => q.again \in BOOLEAN
    BY <1>2, <1>3
  <1>9. i \notin repRaced' =>
            /\ \A p \in RepReqs : p # r => ~RepAt(repReq[p], i)
            /\ q.pc \in RepChanging => RepKnows(q, repRows[i])
            /\ q.pc \notin RepChanging => repEntries[i] = RepWant(repRows[i])
    BY <1>3, <1>5, <1>6
  <1>10. /\ repUp /\ repReq' = [repReq EXCEPT ![r] = q] /\ repRaced \subseteq repRaced'
         /\ UNCHANGED <<repHistory, repUp, repSent, repLost, repNow>>
    BY <1>1, <1>5
  <1> QED BY <1>3, <1>4, <1>7, <1>8, <1>9, <1>10, RepChanged

\* The schedule a request is at, when it is the only one.
LEMMA RepAlone ==
    ASSUME RepInv, NEW r \in RepReqs, repReq[r].pc \in RepChanging
    PROVE  /\ repUp /\ repReq[r].id \in DOMAIN repRows /\ repReq[r].pc \notin RepRunning
           /\ \A j : j # repReq[r].id => ~RepAt(repReq[r], j)
           /\ repReq[r].id \notin repRaced =>
                /\ \A p \in RepReqs : p # r => ~RepAt(repReq[p], repReq[r].id)
                /\ RepKnows(repReq[r], repRows[repReq[r].id])
  <1>1. repUp /\ repReq[r].id \in DOMAIN repRows /\ repReq[r].pc \notin RepRunning
    BY DEF RepInv, RepTyped, RepAsked, RepChanging, RepRunning
  <1>2. RepAt(repReq[r], repReq[r].id)
    BY DEF RepAt
  <1>3. ASSUME repReq[r].id \notin repRaced
        PROVE  RepFine(repReq[r].id, repRows[repReq[r].id], repEntries[repReq[r].id], repReq)
    BY <1>1, <1>3 DEF RepInv, RepPlanned
  <1> QED BY <1>1, <1>2, <1>3 DEF RepFine, RepAt

LEMMA RepUpdateSaveInv == ASSUME RepInv, NEW r \in RepReqs, Rep!UpdateSave(r) PROVE RepInv'
  <1> DEFINE i == repReq[r].id
             row == repReq[r].row
             q == [pc |-> "unregister", id |-> i, cron |-> row.cron, again |-> row.status = "active"]
  <1>1. /\ repReq[r].pc = "save" /\ repRows' = [repRows EXCEPT ![i] = row]
        /\ repReq' = [repReq EXCEPT ![r] = q]
        /\ UNCHANGED <<repEntries, repHistory, repUp, repSent, repLost, repRaced, repNow>>
    BY DEF Rep!UpdateSave
  <1>2. /\ q.pc = "unregister" /\ q.pc \in RepChanging /\ q.pc \notin RepRunning /\ q.id = i
        /\ q.again \in BOOLEAN /\ q.cron = row.cron /\ (q.again <=> row.status = "active")
    BY DEF RepChanging, RepRunning
  <1>3. row \in RepRow /\ ~row.deleted
    BY <1>1 DEF RepInv, RepTyped, RepAsked
  <1>4. RepKnows(q, row)
    BY <1>2, <1>3 DEF RepKnows
  <1>5. repReq[r].pc \in RepChanging
    BY <1>1 DEF RepChanging
  <1> HIDE DEF q, row
  <1>6. /\ repUp /\ i \in DOMAIN repRows /\ repReq[r].pc \notin RepRunning
        /\ \A j : j # i => ~RepAt(repReq[r], j)
        /\ i \notin repRaced => \A p \in RepReqs : p # r => ~RepAt(repReq[p], i)
    BY <1>5, RepAlone
  <1> HIDE DEF i
  <1>7. repEntries' = [repEntries EXCEPT ![i] = repEntries[i]]
    BY <1>1, <1>6, RepStays DEF RepInv
  <1>8. /\ q.pc \in RepChanging => q.id = i
        /\ q.pc = "save" => q.row \in RepRow /\ ~q.row.deleted
        /\ q.pc = "unregister" => q.again \in BOOLEAN
    BY <1>2
  <1>9. i \notin repRaced' =>
            /\ \A p \in RepReqs : p # r => ~RepAt(repReq[p], i)
            /\ q.pc \in RepChanging => RepKnows(q, row)
            /\ q.pc \notin RepChanging => repEntries[i] = RepWant(row)
    BY <1>1, <1>2, <1>4, <1>6
  <1> QED BY <1>1, <1>2, <1>3, <1>6, <1>7, <1>8, <1>9, RepChanged

LEMMA RepDeleteInv == ASSUME RepInv, NEW r \in RepReqs, NEW i \in DOMAIN repRows, Rep!DeleteSchedule(r, i) PROVE RepInv'
  <1> DEFINE row == [repRows[i] EXCEPT !.deleted = TRUE]
             q == [pc |-> "unregister", id |-> i, cron |-> None, again |-> FALSE]
  <1>1. /\ repUp /\ repReq[r] = Rep!New /\ repRows' = [repRows EXCEPT ![i] = row]
        /\ repReq' = [repReq EXCEPT ![r] = q] /\ repRaced' = Rep!Raced(r, i)
        /\ UNCHANGED <<repEntries, repHistory, repUp, repSent, repLost, repNow>>
    BY DEF Rep!DeleteSchedule
  <1>2. /\ q.pc = "unregister" /\ q.pc \in RepChanging /\ q.pc \notin RepRunning /\ q.id = i
        /\ q.again \in BOOLEAN /\ ~q.again
    BY DEF RepChanging, RepRunning
  <1>3. repRows[i] \in RepRow /\ repEntries' = [repEntries EXCEPT ![i] = repEntries[i]]
    BY <1>1, RepStays DEF RepInv
  <1>4. row \in RepRow /\ row.deleted
    BY <1>3 DEF RepRow
  <1>5. RepKnows(q, row)
    BY <1>2, <1>4 DEF RepKnows
  <1> HIDE DEF row, q
  <1>6. /\ repRaced \subseteq repRaced'
        /\ i \notin repRaced' => \A p \in RepReqs : p # r => ~RepAt(repReq[p], i)
    BY <1>1, RepOthers DEF Rep!Raced
  <1>7. repReq[r].pc \notin RepRunning /\ \A j : j # i => ~RepAt(repReq[r], j)
    BY <1>1, RepFresh
  <1>8. /\ q.pc \in RepChanging => q.id = i
        /\ q.pc = "save" => q.row \in RepRow /\ ~q.row.deleted
        /\ q.pc = "unregister" => q.again \in BOOLEAN
    BY <1>2
  <1>9. i \notin repRaced' =>
            /\ \A p \in RepReqs : p # r => ~RepAt(repReq[p], i)
            /\ q.pc \in RepChanging => RepKnows(q, row)
            /\ q.pc \notin RepChanging => repEntries[i] = RepWant(row)
    BY <1>2, <1>5, <1>6
  <1>10. /\ repUp /\ repReq' = [repReq EXCEPT ![r] = q] /\ repRaced \subseteq repRaced'
         /\ repRows' = [repRows EXCEPT ![i] = row]
         /\ UNCHANGED <<repHistory, repUp, repSent, repLost, repNow>>
    BY <1>1, <1>6
  <1> QED BY <1>2, <1>3, <1>4, <1>7, <1>8, <1>9, <1>10, RepChanged

LEMMA RepUnregisterInv == ASSUME RepInv, NEW r \in RepReqs, Rep!UnregisterSchedule(r) PROVE RepInv'
  <1> DEFINE i == repReq[r].id
             old == repReq[r]
             q == IF old.again THEN [pc |-> "register", id |-> i, cron |-> old.cron] ELSE Rep!Done
  <1>1. /\ old.pc = "unregister" /\ repEntries' = [repEntries EXCEPT ![i] = None]
        /\ repReq' = [repReq EXCEPT ![r] = q]
        /\ UNCHANGED <<repRows, repHistory, repUp, repSent, repLost, repRaced, repNow>>
    BY DEF Rep!UnregisterSchedule, Rep!Removed
  <1>2. /\ q.pc \in {"register", "done"} /\ (q.pc = "register" <=> old.again)
        /\ q.pc = "register" => q.id = i /\ q.cron = old.cron
    BY DEF Rep!Done
  <1>3. q.pc \notin RepRunning /\ (q.pc \in RepChanging <=> old.again)
    BY <1>2 DEF RepChanging, RepRunning
  <1>4. old.pc \in RepChanging
    BY <1>1 DEF RepChanging
  <1> HIDE DEF q
  <1>5. /\ repUp /\ i \in DOMAIN repRows /\ old.pc \notin RepRunning
        /\ \A j : j # i => ~RepAt(old, j)
        /\ i \notin repRaced => (\A p \in RepReqs : p # r => ~RepAt(repReq[p], i)) /\ RepKnows(old, repRows[i])
    BY <1>4, RepAlone
  <1>6. repRows[i] \in RepRow /\ repRows' = [repRows EXCEPT ![i] = repRows[i]]
    BY <1>1, <1>5, RepStays DEF RepInv
  <1>7. ASSUME i \notin repRaced'
        PROVE  /\ q.pc \in RepChanging => RepKnows(q, repRows[i])
               /\ q.pc \notin RepChanging => None = RepWant(repRows[i])
    <2>1. /\ old.again <=> ~repRows[i].deleted /\ repRows[i].status = "active"
          /\ old.again => old.cron = repRows[i].cron
      BY <1>1, <1>5, <1>7 DEF RepKnows
    <2> QED BY <2>1, <1>2, <1>3 DEF RepKnows, RepWant
  <1>8. q.pc # "save" /\ q.pc # "unregister" /\ (q.pc \in RepChanging => q.id = i)
    BY <1>2, <1>3
  <1>9. /\ i \notin repRaced' => \A p \in RepReqs : p # r => ~RepAt(repReq[p], i)
        /\ repRaced \subseteq repRaced'
    BY <1>1, <1>5
  <1> HIDE DEF i
  <1> QED BY <1>1, <1>3, <1>5, <1>6, <1>7, <1>8, <1>9, RepChanged

LEMMA RepRegisterInv == ASSUME RepInv, NEW r \in RepReqs, Rep!RegisterSchedule(r) PROVE RepInv'
  <1> DEFINE i == repReq[r].id
             old == repReq[r]
             q == Rep!Done
  <1>1. /\ old.pc = "register" /\ repEntries' = [repEntries EXCEPT ![i] = old.cron]
        /\ repReq' = [repReq EXCEPT ![r] = q]
        /\ UNCHANGED <<repRows, repHistory, repUp, repSent, repLost, repRaced, repNow>>
    BY DEF Rep!RegisterSchedule
  <1>2. q.pc = "done" /\ q.pc \notin RepRunning /\ q.pc \notin RepChanging
    BY DEF Rep!Done, RepChanging, RepRunning
  <1>3. old.pc \in RepChanging
    BY <1>1 DEF RepChanging
  <1> HIDE DEF q
  <1>4. /\ repUp /\ i \in DOMAIN repRows /\ old.pc \notin RepRunning
        /\ \A j : j # i => ~RepAt(old, j)
        /\ i \notin repRaced => (\A p \in RepReqs : p # r => ~RepAt(repReq[p], i)) /\ RepKnows(old, repRows[i])
    BY <1>3, RepAlone
  <1>5. repRows[i] \in RepRow /\ repRows' = [repRows EXCEPT ![i] = repRows[i]]
    BY <1>1, <1>4, RepStays DEF RepInv
  <1>6. i \notin repRaced' => old.cron = RepWant(repRows[i])
    BY <1>1, <1>4 DEF RepKnows, RepWant
  <1>7. /\ i \notin repRaced' => \A p \in RepReqs : p # r => ~RepAt(repReq[p], i)
        /\ repRaced \subseteq repRaced'
    BY <1>1, <1>4
  <1> HIDE DEF i
  <1> QED BY <1>1, <1>2, <1>4, <1>5, <1>6, <1>7, RepChanged

\* A step of a run keeps the plan.
LEMMA RepRunStep ==
    ASSUME RepInv, NEW r \in RepReqs, NEW q, repUp, repReq' = [repReq EXCEPT ![r] = q],
           repReq[r].pc \notin RepChanging, q.pc \notin RepChanging,
           q.pc \in RepRunning => q \in RepRun(Len(repHistory')),
           repHistory' \in Seq(RepEntry), Len(repHistory) <= Len(repHistory'),
           repSent' \subseteq DOMAIN repHistory',
           UNCHANGED <<repRows, repEntries, repUp, repRaced, repNow>>
    PROVE  RepTyped' /\ RepPlanned' /\ repReq'[r] = q /\ \A p \in RepReqs : p # r => repReq'[p] = repReq[p]
  <1>1. RepTyped /\ RepPlanned
    BY DEF RepInv
  <1>2. repReq' = [p \in RepReqs |-> repReq'[p]] /\ repReq'[r] = q /\ \A p \in RepReqs : p # r => repReq'[p] = repReq[p]
    BY <1>1, RepReqSaved
  <1>3. RepPlanned'
    BY <1>1, <1>2, RepPlanKept
  <1>4. Len(repHistory) \in Nat /\ Len(repHistory') \in Nat /\ Len(repHistory) <= Len(repHistory') /\ DOMAIN repRows \subseteq DOMAIN repRows'
    BY <1>1 DEF RepTyped
  <1>5. RepAsked(q, DOMAIN repRows', Len(repHistory'))
    BY DEF RepAsked, RepChanging
  <1>6. \A p \in RepReqs : RepAsked(repReq'[p], DOMAIN repRows', Len(repHistory'))
    BY <1>1, <1>4, <1>5, RepAskedSaved
  <1>7. RepTyped'
    BY <1>1, <1>2, <1>6 DEF RepTyped
  <1> QED BY <1>2, <1>3, <1>7

LEMMA RepHistory ==
    ASSUME RepTyped
    PROVE  /\ Len(repHistory) \in Nat /\ DOMAIN repHistory = 1..Len(repHistory)
           /\ \A h \in DOMAIN repHistory : repHistory[h] \in RepEntry
  <1> DEFINE S == RepEntry
  <1>1. repHistory \in Seq(S)
    BY DEF RepTyped
  <1> HIDE DEF S
  <1> QED BY <1>1 DEF S

\* A new run is pending, and its request's alone.
LEMMA RepStartedInv ==
    ASSUME RepInv, NEW r \in RepReqs, NEW i \in DOMAIN repRows, Rep!Started(r, i)
    PROVE  RepInv'
  <1> DEFINE n == Len(repHistory)
             entry == [schedule |-> i, status |-> "pending", at |-> repNow]
             q == [pc |-> "deliver", id |-> i, row |-> repRows[i], run |-> n + 1]
  <1>1. /\ repUp /\ repReq[r] = Rep!New
        /\ repHistory' = Append(repHistory, entry) /\ repReq' = [repReq EXCEPT ![r] = q]
        /\ UNCHANGED <<repRows, repEntries, repUp, repSent, repLost, repRaced, repNow>>
    BY DEF Rep!Started
  <1>2. RepTyped /\ RepTold
    BY DEF RepInv
  <1>3. n \in Nat /\ DOMAIN repHistory = 1..n
    BY <1>2, RepHistory
  <1>4. repRows[i] \in RepRow /\ i \in Nat
    BY <1>2, RepRead
  <1>5. entry \in RepEntry /\ entry.status = "pending"
    BY <1>2, <1>4 DEF RepEntry, RepStatuses, RepTyped
  <1>6. q \in RepRun(n + 1) /\ q.pc = "deliver" /\ q.run = n + 1
    BY <1>3, <1>4 DEF RepRun, RepRunning
  <1> HIDE DEF entry, q
  <1>7. /\ repHistory' \in Seq(RepEntry) /\ Len(repHistory') = n + 1 /\ DOMAIN repHistory' = 1..(n + 1)
        /\ repHistory'[n + 1] = entry /\ \A h \in 1..n : repHistory'[h] = repHistory[h]
    <2> DEFINE S == RepEntry
    <2>1. repHistory \in Seq(S) /\ entry \in S
      BY <1>2, <1>5 DEF RepTyped
    <2> HIDE DEF S
    <2> QED BY <1>1, <2>1 DEF S
  <1>8. repSent \subseteq 1..n /\ n + 1 \notin repSent /\ repSent' \subseteq DOMAIN repHistory'
    BY <1>1, <1>2, <1>3, <1>7 DEF RepTyped
  <1>9. repReq[r].pc \notin RepRunning /\ repReq[r].pc \notin RepChanging /\ q.pc \notin RepChanging /\ q.pc \in RepRunning
    BY <1>1, <1>6 DEF Rep!New, RepRunning, RepChanging
  <1>10. RepTyped' /\ RepPlanned' /\ repReq'[r] = q /\ \A p \in RepReqs : p # r => repReq'[p] = repReq[p]
    <2>1. Len(repHistory) <= Len(repHistory') /\ q \in RepRun(Len(repHistory'))
      BY <1>3, <1>6, <1>7
    <2> HIDE DEF n
    <2> QED BY <2>1, <1>1, <1>7, <1>8, <1>9, RepRunStep
  <1>11. \A p \in RepReqs : p # r /\ repReq[p].pc \in RepRunning => repReq[p].run \in 1..n
    <2>1. \A p \in RepReqs : repReq[p].pc \in RepRunning => repReq[p] \in RepRun(n)
      BY <1>2 DEF RepTyped, RepAsked
    <2> QED BY <2>1 DEF RepRun
  <1>12. \A p \in RepReqs : RepUnderWay(repReq'[p], repHistory', repSent')
    <2>1. RepUnderWay(q, repHistory', repSent')
      BY <1>1, <1>5, <1>6, <1>7, <1>8 DEF RepUnderWay
    <2>2. ASSUME NEW p \in RepReqs, p # r PROVE RepUnderWay(repReq[p], repHistory', repSent')
      BY <2>2, <1>1, <1>2, <1>7, <1>11 DEF RepTold, RepUnderWay
    <2> QED BY <2>1, <2>2, <1>10
  <1>13. \A p, v \in RepReqs : repReq'[p].pc \in RepRunning /\ repReq'[v].pc \in RepRunning /\ repReq'[p].run = repReq'[v].run => p = v
    <2>1. \A p \in RepReqs : p # r /\ repReq[p].pc \in RepRunning => repReq[p].run # n + 1
      BY <1>3, <1>11
    <2> QED BY <2>1, <1>2, <1>6, <1>10 DEF RepTold
  <1>14. \A h \in DOMAIN repHistory' : RepOutcome(h, repHistory'[h], repSent', repLost', repReq')
    <2>1. RepOutcome(n + 1, entry, repSent', repLost', repReq')
      BY <1>5, <1>6, <1>9, <1>10 DEF RepOutcome
    <2>2. ASSUME NEW h \in 1..n PROVE RepOutcome(h, repHistory[h], repSent', repLost', repReq')
      <3>1. RepOutcome(h, repHistory[h], repSent, repLost, repReq)
        BY <2>2, <1>2, <1>3 DEF RepTold
      <3> QED BY <3>1, <1>1, <1>9, <1>10 DEF RepOutcome
    <2>3. \A h \in DOMAIN repHistory' : h = n + 1 \/ h \in 1..n
      BY <1>3, <1>7
    <2> QED BY <2>1, <2>2, <2>3, <1>7
  <1> QED BY <1>10, <1>12, <1>13, <1>14 DEF RepInv, RepTold

\* A run under way.
LEMMA RepRunFacts ==
    ASSUME RepInv, NEW r \in RepReqs, repReq[r].pc \in RepRunning
    PROVE  /\ repUp /\ repReq[r] \in RepRun(Len(repHistory)) /\ repReq[r].run \in DOMAIN repHistory /\ repReq[r].pc \notin RepChanging
           /\ repHistory[repReq[r].run].status \in {"pending", "purged"}
           /\ repReq[r].run \in repSent <=> repReq[r].pc = "delivered"
           /\ \A p \in RepReqs : p # r /\ repReq[p].pc \in RepRunning => repReq[p].run # repReq[r].run
  <1>1. repUp /\ repReq[r] \in RepRun(Len(repHistory)) /\ repReq[r].pc \notin RepChanging
    BY DEF RepInv, RepTyped, RepAsked, RepChanging, RepRunning
  <1>2. repReq[r].run \in DOMAIN repHistory
    <2>1. repReq[r].run \in 1..Len(repHistory)
      BY <1>1 DEF RepRun
    <2> QED BY <2>1, RepHistory DEF RepInv
  <1>3. RepUnderWay(repReq[r], repHistory, repSent)
    BY DEF RepInv, RepTold
  <1>4. \A p \in RepReqs : p # r /\ repReq[p].pc \in RepRunning => repReq[p].run # repReq[r].run
    BY DEF RepInv, RepTold
  <1> QED BY <1>1, <1>2, <1>3, <1>4 DEF RepUnderWay

LEMMA RepDeliverInv ==
    ASSUME RepInv, NEW r \in RepReqs, NEW ok \in BOOLEAN, Rep!deliver(r, ok)
    PROVE  RepInv'
  <1> DEFINE old == repReq[r]
             k == old.run
             next == IF ok THEN "delivered" ELSE "refused"
             q == [old EXCEPT !.pc = next]
  <1>1. /\ old.pc = "deliver" /\ repSent' = (IF ok THEN repSent \cup {k} ELSE repSent)
        /\ repReq' = [repReq EXCEPT ![r] = q]
        /\ UNCHANGED <<repRows, repEntries, repHistory, repUp, repLost, repRaced, repNow>>
    BY DEF Rep!deliver
  <1>2. RepTyped /\ RepTold /\ old.pc \in RepRunning
    BY <1>1 DEF RepInv, RepRunning
  <1>3. /\ repUp /\ old \in RepRun(Len(repHistory)) /\ k \in DOMAIN repHistory /\ old.pc \notin RepChanging
        /\ repHistory[k].status \in {"pending", "purged"} /\ k \notin repSent
        /\ \A p \in RepReqs : p # r /\ repReq[p].pc \in RepRunning => repReq[p].run # k
    BY <1>1, <1>2, RepRunFacts
  <1>4. q \in RepRun(Len(repHistory)) /\ q.run = k /\ q.pc = next
    BY <1>3 DEF RepRun, RepRunning
  <1>5. next \in RepRunning /\ next \notin RepChanging /\ (next = "delivered" <=> ok)
    BY DEF RepRunning, RepChanging
  <1> HIDE DEF q, next
  <1>6. /\ \A h : h # k => (h \in repSent' <=> h \in repSent)
        /\ k \in repSent' <=> ok
        /\ repSent' \subseteq DOMAIN repHistory'
    BY <1>1, <1>2, <1>3 DEF RepTyped
  <1>7. RepTyped' /\ RepPlanned' /\ repReq'[r] = q /\ \A p \in RepReqs : p # r => repReq'[p] = repReq[p]
    <2>1. /\ repHistory' \in Seq(RepEntry) /\ Len(repHistory) <= Len(repHistory')
          /\ q \in RepRun(Len(repHistory'))
      BY <1>1, <1>2, <1>4, RepHistory DEF RepTyped
    <2> HIDE DEF old, k
    <2>2. repReq[r].pc \notin RepChanging /\ q.pc \notin RepChanging
      BY <1>3, <1>4, <1>5 DEF old
    <2> QED BY <2>1, <2>2, <1>1, <1>3, <1>6, RepRunStep
  <1>8. \A p \in RepReqs : RepUnderWay(repReq'[p], repHistory', repSent')
    <2>1. RepUnderWay(q, repHistory', repSent')
      BY <1>1, <1>3, <1>4, <1>5, <1>6 DEF RepUnderWay
    <2>2. ASSUME NEW p \in RepReqs, p # r PROVE RepUnderWay(repReq[p], repHistory', repSent')
      BY <2>2, <1>1, <1>2, <1>3, <1>6 DEF RepTold, RepUnderWay
    <2> QED BY <2>1, <2>2, <1>7
  <1>9. \A p, v \in RepReqs : repReq'[p].pc \in RepRunning /\ repReq'[v].pc \in RepRunning /\ repReq'[p].run = repReq'[v].run => p = v
    BY <1>2, <1>3, <1>4, <1>7 DEF RepTold
  <1>10. \A h \in DOMAIN repHistory' : RepOutcome(h, repHistory'[h], repSent', repLost', repReq')
    <2> SUFFICES ASSUME NEW h \in DOMAIN repHistory PROVE RepOutcome(h, repHistory[h], repSent', repLost, repReq')
      BY <1>1
    <2>1. RepOutcome(h, repHistory[h], repSent, repLost, repReq)
      BY <1>2 DEF RepTold
    <2>2. CASE h = k
      BY <2>2, <1>3, <1>4, <1>5, <1>7 DEF RepOutcome
    <2>3. CASE h # k
      BY <2>1, <2>3, <1>6, <1>7 DEF RepOutcome
    <2> QED BY <2>2, <2>3
  <1> QED BY <1>7, <1>8, <1>9, <1>10 DEF RepInv, RepTold

\* What saving an outcome and removing the old history leave of the entries.
LEMMA RepCleaned ==
    ASSUME RepTyped, NEW k \in DOMAIN repHistory, NEW i, NEW retention, NEW told \in RepStatuses, told # "pending",
           repHistory' = Rep!cleanupHistory(i, retention, [repHistory EXCEPT ![k].status = told])
    PROVE  /\ repHistory' \in Seq(RepEntry) /\ DOMAIN repHistory' = DOMAIN repHistory /\ Len(repHistory') = Len(repHistory)
           /\ repHistory'[k].status \in {told, "purged"}
           /\ \A h \in DOMAIN repHistory : h # k => repHistory'[h].status \in {repHistory[h].status, "purged"}
  <1> DEFINE n == Len(repHistory)
             entry == [repHistory[k] EXCEPT !.status = told]
             rest == [repHistory EXCEPT ![k] = entry]
             cut(h) == [rest[h] EXCEPT !.status = "purged"]
             old(h) == rest[h].schedule = i /\ rest[h].at < repNow - retention
  <1>1. n \in Nat /\ DOMAIN repHistory = 1..n /\ \A h \in 1..n : repHistory[h] \in RepEntry
    BY RepHistory
  <1>2. entry \in RepEntry /\ entry.status = told
    BY <1>1 DEF RepEntry
  <1>3. rest = [repHistory EXCEPT ![k].status = told] /\ DOMAIN rest = 1..n
    BY <1>1
  <1> HIDE DEF entry
  <1>4. rest[k] = entry /\ \A h \in 1..n : h # k => rest[h] = repHistory[h]
    BY <1>1
  <1> HIDE DEF rest
  <1>5. \A h \in 1..n : rest[h] \in RepEntry
    BY <1>1, <1>2, <1>4
  <1>6. \A h \in 1..n : cut(h) \in RepEntry /\ cut(h).status = "purged"
    <2> SUFFICES ASSUME NEW h \in 1..n PROVE cut(h) \in RepEntry /\ cut(h).status = "purged"
      OBVIOUS
    <2>1. rest[h] \in RepEntry
      BY <1>5
    <2> QED BY <2>1 DEF RepEntry, RepStatuses
  <1>7. repHistory' = [h \in 1..n |-> IF old(h) THEN cut(h) ELSE rest[h]]
    BY <1>3 DEF Rep!cleanupHistory
  <1> HIDE DEF cut, old
  <1>8. \A h \in 1..n : repHistory'[h] \in RepEntry
    BY <1>5, <1>6, <1>7
  <1>9. repHistory' \in [1..n -> RepEntry]
    BY <1>7, <1>8
  <1>10. repHistory' \in Seq(RepEntry) /\ Len(repHistory') = n /\ DOMAIN repHistory' = 1..n
    <2> DEFINE S == RepEntry
    <2>1. repHistory' \in Seq(S)
      <3>1. repHistory' \in [1..n -> S] /\ n \in Nat
        BY <1>1, <1>9
      <3> HIDE DEF S, n
      <3> QED BY <3>1, SeqDef, Zenon
    <2>2. DOMAIN repHistory' = 1..n
      BY <1>9
    <2> QED BY <2>1, <2>2, <1>1, LenProperties
  <1>11. \A h \in 1..n : repHistory'[h].status \in {rest[h].status, "purged"}
    BY <1>6, <1>7
  <1> QED BY <1>1, <1>2, <1>4, <1>10, <1>11

LEMMA RepRecordInv == ASSUME RepInv, NEW r \in RepReqs, Rep!RecordRun(r) PROVE RepInv'
  <1> DEFINE old == repReq[r]
             k == old.run
             told == Rep!Outcome(old)
  <1>1. /\ old.pc \in {"delivered", "refused"}
        /\ repHistory' = Rep!cleanupHistory(old.id, old.row.retention, [repHistory EXCEPT ![k].status = told])
        /\ repReq' = [repReq EXCEPT ![r] = Rep!Done]
        /\ UNCHANGED <<repRows, repEntries, repUp, repSent, repLost, repRaced, repNow>>
    BY DEF Rep!RecordRun
  <1>0. repSent' = repSent /\ repLost' = repLost
    BY <1>1
  <1>2. RepTyped /\ RepTold /\ old.pc \in RepRunning
    BY <1>1 DEF RepInv, RepRunning
  <1>3. /\ repUp /\ k \in DOMAIN repHistory /\ old.pc \notin RepChanging
        /\ k \in repSent <=> old.pc = "delivered"
        /\ \A p \in RepReqs : p # r /\ repReq[p].pc \in RepRunning => repReq[p].run # k
    BY <1>2, RepRunFacts
  <1>4. told \in RepStatuses /\ told # "pending" /\ (told = "success" => k \in repSent) /\ (told = "failed" => k \notin repSent) /\ told # "purged"
    BY <1>1, <1>3 DEF Rep!Outcome, RepStatuses
  <1> HIDE DEF told
  <1>5. /\ repHistory' \in Seq(RepEntry) /\ DOMAIN repHistory' = DOMAIN repHistory /\ Len(repHistory') = Len(repHistory)
        /\ repHistory'[k].status \in {told, "purged"}
        /\ \A h \in DOMAIN repHistory : h # k => repHistory'[h].status \in {repHistory[h].status, "purged"}
    <2> HIDE DEF old, k
    <2> QED BY <1>1, <1>2, <1>3, <1>4, RepCleaned
  <1>6. Rep!Done.pc \notin RepChanging /\ Rep!Done.pc \notin RepRunning
    BY DEF Rep!Done, RepChanging, RepRunning
  <1>7. RepTyped' /\ RepPlanned' /\ repReq'[r] = Rep!Done /\ \A p \in RepReqs : p # r => repReq'[p] = repReq[p]
    <2>1. Len(repHistory) <= Len(repHistory') /\ repSent' \subseteq DOMAIN repHistory'
      <3>1. Len(repHistory) \in Nat /\ repSent \subseteq DOMAIN repHistory
        BY <1>2, RepHistory DEF RepTyped
      <3> QED BY <3>1, <1>0, <1>5
    <2>2. /\ repReq' = [repReq EXCEPT ![r] = Rep!Done]
          /\ UNCHANGED <<repRows, repEntries, repUp, repRaced, repNow>>
      BY <1>1
    <2> DEFINE q == Rep!Done
    <2> HIDE DEF q
    <2>3. /\ q.pc \notin RepChanging /\ q.pc \notin RepRunning
          /\ repReq' = [repReq EXCEPT ![r] = q] /\ repReq[r].pc \notin RepChanging
      BY <2>2, <1>3, <1>6 DEF q
    <2>4. RepTyped' /\ RepPlanned' /\ repReq'[r] = q /\ \A p \in RepReqs : p # r => repReq'[p] = repReq[p]
      BY <2>1, <2>2, <2>3, <1>3, <1>5, RepRunStep
    <2> QED BY <2>4 DEF q
  <1>8. \A p \in RepReqs : RepUnderWay(repReq'[p], repHistory', repSent')
    <2>1. RepUnderWay(repReq'[r], repHistory', repSent')
      BY <1>6, <1>7 DEF RepUnderWay
    <2>2. ASSUME NEW p \in RepReqs, p # r PROVE RepUnderWay(repReq[p], repHistory', repSent')
      <3>1. CASE repReq[p].pc \in RepRunning
        <4>1. repReq[p].run \in DOMAIN repHistory /\ repReq[p].run # k /\ repHistory[repReq[p].run].status \in {"pending", "purged"}
              /\ (repReq[p].run \in repSent <=> repReq[p].pc = "delivered")
          BY <2>2, <3>1, <1>3, RepRunFacts
        <4>2. repHistory'[repReq[p].run].status \in {"pending", "purged"} /\ repSent' = repSent
          BY <4>1, <1>0, <1>5
        <4> QED BY <4>1, <4>2 DEF RepUnderWay
      <3> QED BY <3>1 DEF RepUnderWay
    <2> QED BY <2>1, <2>2, <1>7
  <1>9. \A p, v \in RepReqs : repReq'[p].pc \in RepRunning /\ repReq'[v].pc \in RepRunning /\ repReq'[p].run = repReq'[v].run => p = v
    BY <1>2, <1>6, <1>7 DEF RepTold
  <1>10. \A h \in DOMAIN repHistory' : RepOutcome(h, repHistory'[h], repSent', repLost', repReq')
    <2> SUFFICES ASSUME NEW h \in DOMAIN repHistory PROVE RepOutcome(h, repHistory'[h], repSent, repLost, repReq')
      <3>1. DOMAIN repHistory' = DOMAIN repHistory /\ repSent' = repSent /\ repLost' = repLost
        BY <1>0, <1>5
      <3> QED BY <3>1
    <2>1. RepOutcome(h, repHistory[h], repSent, repLost, repReq)
      BY <1>2 DEF RepTold
    <2>2. CASE h = k
      BY <2>2, <1>4, <1>5 DEF RepOutcome
    <2>3. CASE h # k
      <3>1. repHistory'[h].status \in {repHistory[h].status, "purged"}
        BY <2>3, <1>5
      <3>2. \A p \in RepReqs : repReq[p].pc \in RepRunning /\ repReq[p].run = h => repReq'[p] = repReq[p]
        BY <2>3, <1>7
      <3> HIDE DEF old, k
      <3> QED BY <2>1, <3>1, <3>2 DEF RepOutcome
    <2> QED BY <2>2, <2>3
  <1> QED BY <1>7, <1>8, <1>9, <1>10 DEF RepInv, RepTold

\* A crash cuts the runs off; a start registers what is active.
LEMMA RepCrashInv == ASSUME RepInv, Rep!Crash PROVE RepInv'
  <1>1. /\ repUp' = FALSE /\ repEntries' = [i \in 1..RepMaxSchedules |-> None]
        /\ repLost' = repLost \cup {repReq[r].run : r \in {p \in RepReqs : repReq[p].pc \in {"deliver", "delivered", "refused"}}}
        /\ repReq' = [r \in RepReqs |-> Rep!Done]
        /\ UNCHANGED <<repRows, repHistory, repSent, repNow>>
    BY DEF Rep!Crash
  <1>2. RepTyped /\ RepTold
    BY DEF RepInv
  <1>3. \A r \in RepReqs : repReq'[r].pc = "done"
    BY <1>1 DEF Rep!Done
  <1>4. RepTyped'
    <2>1. \A r \in RepReqs : RepAsked(repReq'[r], DOMAIN repRows', Len(repHistory'))
      BY <1>3 DEF RepAsked, RepChanging, RepRunning
    <2>2. repReq' = [r \in RepReqs |-> repReq'[r]]
      BY <1>1
    <2> QED BY <2>1, <2>2, <1>1, <1>2, <1>3 DEF RepTyped
  <1>5. RepPlanned'
    BY <1>1 DEF RepPlanned
  <1>6. ASSUME NEW h \in DOMAIN repHistory PROVE RepOutcome(h, repHistory[h], repSent, repLost', repReq')
    <2>1. RepOutcome(h, repHistory[h], repSent, repLost, repReq)
      BY <1>2 DEF RepTold
    <2>2. repLost \subseteq repLost' /\ \A r \in RepReqs : repReq[r].pc \in RepRunning => repReq[r].run \in repLost'
      BY <1>1 DEF RepRunning
    <2> QED BY <2>1, <2>2 DEF RepOutcome
  <1>7. RepTold'
    BY <1>1, <1>3, <1>6 DEF RepTold, RepUnderWay, RepRunning
  <1> QED BY <1>4, <1>5, <1>7 DEF RepInv

LEMMA RepStartInv == ASSUME RepInv, Rep!Start PROVE RepInv'
  <1> DEFINE want(i) == IF i \in Rep!Ids /\ Rep!Live(i) /\ repRows[i].status = "active" THEN repRows[i].cron ELSE None
  <1>1. /\ ~repUp /\ repEntries' = [i \in 1..RepMaxSchedules |-> want(i)]
        /\ repReq' = [r \in RepReqs |-> Rep!New]
        /\ UNCHANGED <<repRows, repHistory, repSent, repLost, repRaced, repNow>>
    BY DEF Rep!Start
  <1>2. RepTyped /\ RepTold
    BY DEF RepInv
  <1>3. \A r \in RepReqs : repReq'[r].pc = "new" /\ repReq[r].pc = "done"
    BY <1>1, <1>2 DEF Rep!New, RepTyped
  <1>4. \A i \in DOMAIN repRows : want(i) = RepWant(repRows[i]) /\ i \in 1..RepMaxSchedules
    BY <1>2, RepRead DEF Rep!Ids, Rep!Live, RepWant
  <1>5. \A i : i \notin DOMAIN repRows => want(i) = None
    BY DEF Rep!Ids
  <1> HIDE DEF want
  <1>6. RepTyped'
    <2>1. \A r \in RepReqs : RepAsked(repReq'[r], DOMAIN repRows', Len(repHistory'))
      BY <1>3 DEF RepAsked, RepChanging, RepRunning
    <2>2. repReq' = [r \in RepReqs |-> repReq'[r]] /\ repEntries' = [i \in 1..RepMaxSchedules |-> repEntries'[i]]
      BY <1>1
    <2>3. \A i \in 1..RepMaxSchedules : i \notin DOMAIN repRows' => repEntries'[i] = None
      BY <1>1, <1>5
    <2>4. repUp' = TRUE
      BY DEF Rep!Start
    <2> QED BY <2>1, <2>2, <2>3, <2>4, <1>1, <1>2 DEF RepTyped
  <1>7. \A i \in DOMAIN repRows' : RepFine(i, repRows'[i], repEntries'[i], repReq')
    <2> SUFFICES ASSUME NEW i \in DOMAIN repRows PROVE RepFine(i, repRows[i], repEntries'[i], repReq')
      BY <1>1
    <2>1. \A r \in RepReqs : ~RepAt(repReq'[r], i)
      BY <1>3 DEF RepAt, RepChanging
    <2>2. repEntries'[i] = RepWant(repRows[i])
      BY <1>1, <1>4
    <2> QED BY <2>1, <2>2 DEF RepFine
  <1>8. RepTold'
    <2>1. \A r \in RepReqs : ~(repReq[r].pc \in RepRunning \/ repReq'[r].pc \in RepRunning)
      BY <1>3 DEF RepRunning
    <2> QED BY <2>1, <1>1, <1>2, RepToldKept
  <1> QED BY <1>6, <1>7, <1>8 DEF RepInv, RepPlanned

LEMMA RepTickInv == ASSUME RepInv, Rep!Tick \/ UNCHANGED Rep!vars PROVE RepInv'
  <1>1. /\ repNow' = repNow + 1 \/ repNow' = repNow
        /\ UNCHANGED <<repRows, repEntries, repHistory, repReq, repUp, repSent, repLost, repRaced>>
    BY DEF Rep!Tick, Rep!vars
  <1>2. RepTyped'
    BY <1>1 DEF RepInv, RepTyped
  <1>3. RepPlanned' /\ RepTold'
    BY <1>1, RepPlanKept, RepToldKept DEF RepInv
  <1> QED BY <1>2, <1>3 DEF RepInv

LEMMA RepNextInv == RepInv /\ [Rep!Next]_(Rep!vars) => RepInv'
  <1> SUFFICES ASSUME RepInv, [Rep!Next]_(Rep!vars) PROVE RepInv'
    OBVIOUS
  <1>1. CASE Rep!Tick \/ UNCHANGED Rep!vars
    BY <1>1, RepTickInv
  <1>2. CASE Rep!Crash \/ Rep!Start
    BY <1>2, RepCrashInv, RepStartInv
  <1>3. CASE \E r \in RepReqs, s \in RepInputs : Rep!CreateSchedule(r, s)
    BY <1>3, RepCreateInv
  <1>4. CASE \E r \in RepReqs, i \in Rep!Ids, s \in RepInputs : Rep!UpdateRead(r, i, s)
    BY <1>4, RepUpdateReadInv DEF Rep!Ids
  <1>5. CASE \E r \in RepReqs : Rep!UpdateSave(r) \/ Rep!UnregisterSchedule(r) \/ Rep!RegisterSchedule(r) \/ Rep!RecordRun(r)
    BY <1>5, RepUpdateSaveInv, RepUnregisterInv, RepRegisterInv, RepRecordInv
  <1>6. CASE \E r \in RepReqs, i \in Rep!Ids : Rep!DeleteSchedule(r, i) \/ Rep!CronJob(r, i) \/ Rep!RunScheduleNow(r, i)
    BY <1>6, RepDeleteInv, RepStartedInv DEF Rep!Ids, Rep!CronJob, Rep!RunScheduleNow
  <1>7. CASE \E r \in RepReqs, ok \in BOOLEAN : Rep!deliver(r, ok)
    BY <1>7, RepDeliverInv
  <1> QED BY <1>1, <1>2, <1>3, <1>4, <1>5, <1>6, <1>7 DEF Rep!Next

LEMMA RepInvInit == Rep!Init => RepInv
  <1> SUFFICES ASSUME Rep!Init PROVE RepInv
    OBVIOUS
  <1>1. /\ repRows = <<>> /\ repHistory = <<>> /\ repSent = {} /\ repNow = 0 /\ repUp = TRUE
        /\ repEntries = [i \in 1..RepMaxSchedules |-> None] /\ repReq = [r \in RepReqs |-> Rep!New]
    BY DEF Rep!Init
  <1>2. /\ DOMAIN repRows = {} /\ Len(repRows) = 0 /\ DOMAIN repHistory = {} /\ Len(repHistory) = 0
        /\ repRows \in Seq(RepRow) /\ repHistory \in Seq(RepEntry)
    BY <1>1
  <1>3. \A r \in RepReqs : repReq[r].pc = "new"
    BY <1>1 DEF Rep!New
  <1>4. RepTyped
    <2>1. \A r \in RepReqs : RepAsked(repReq[r], DOMAIN repRows, Len(repHistory))
      BY <1>3 DEF RepAsked, RepChanging, RepRunning
    <2> QED BY <2>1, <1>1, <1>2, ReportAssumption DEF RepTyped
  <1>5. RepPlanned
    BY <1>2 DEF RepPlanned
  <1>6. RepTold
    BY <1>2, <1>3 DEF RepTold, RepUnderWay, RepRunning
  <1> QED BY <1>4, <1>5, <1>6 DEF RepInv

LEMMA RepInvMeans == RepInv => Rep!SchedulesAreKept
  <1> SUFFICES ASSUME RepInv PROVE Rep!SchedulesAreKept
    OBVIOUS
  <1>1. ASSUME repUp, NEW i \in DOMAIN repRows \ repRaced, Rep!Others(None, i) = {}
        PROVE  repEntries[i] = IF Rep!Live(i) /\ repRows[i].status = "active" THEN repRows[i].cron ELSE None
    <2>1. \A p \in RepReqs : ~RepAt(repReq[p], i)
      BY <1>1, RepOthers, ReportAssumption
    <2>2. RepFine(i, repRows[i], repEntries[i], repReq)
      BY <1>1 DEF RepInv, RepPlanned
    <2> QED BY <2>1, <2>2 DEF RepFine, RepWant, Rep!Live
  <1>2. ASSUME NEW h \in DOMAIN repHistory
        PROVE  /\ h \notin repLost =>
                    (repHistory[h].status \in {"success", "failed"} =>
                        (repHistory[h].status = "success") = (h \in repSent))
               /\ repHistory[h].status = "pending" =>
                    h \in repLost \/ \E r \in RepReqs : repReq[r].pc \in {"deliver", "delivered", "refused"} /\ repReq[r].run = h
    <2>1. RepOutcome(h, repHistory[h], repSent, repLost, repReq)
      BY DEF RepInv, RepTold
    <2> QED BY <2>1 DEF RepOutcome, RepRunning
  <1> QED BY <1>1, <1>2 DEF Rep!SchedulesAreKept, Rep!Ids, Rep!Runs

(***************************************************************************)
(* Once nobody is at work on a schedule, the cron entry is its row's,      *)
(* however creations, updates, deletions, runs and crashes interleave,     *)
(* unless two requests changed the same schedule at once; and the history  *)
(* of a run that no crash cut off says whether its report was delivered.   *)
(***************************************************************************)
THEOREM SchedulesKept == Rep!Spec => []SchedulesAreKept
  <1>1. Rep!Spec => []RepInv
    BY RepInvInit, RepNextInv, PTL DEF Rep!Spec
  <1>2. RepInv => SchedulesAreKept
    BY RepInvMeans DEF SchedulesAreKept
  <1> QED BY <1>1, <1>2, PTL

-----------------------------------------------------------------------------
(* Outgoing webhooks                                                       *)

HookRow == [sub : HookSubs, status : {"pending", "success", "failed", "abandoned"}, attempts : Nat,
            next : Nat, dlq : BOOLEAN, at : Nat]

HookTask == [pc : {"reset", "deliver"}, id : Nat, row : HookRow]

HookTyped ==
    /\ hookLogs \in Seq(HookRow \cup {None}) /\ hookPosts \in Seq(Nat) /\ Len(hookPosts) = Len(hookLogs)
    /\ hookWork = [w \in HookWorkers |-> hookWork[w]]
    /\ \A w \in HookWorkers : hookWork[w] = Hook!New \/ (hookWork[w] \in HookTask /\ hookWork[w].id \in DOMAIN hookLogs)
    /\ hookAccepted \subseteq DOMAIN hookLogs /\ hookNow \in Nat

HookAt(q, i) == q.pc # "new" /\ q.id = i

\* What a goroutine's copy of a row has to do with the row: the first post of
\* a delivery is still to count, a reset replaces whatever is there.
HookHeld(q, row) ==
    /\ q.pc = "deliver" =>
        /\ row # None /\ row.status \in {"pending", "failed"} /\ row.attempts < HookMaxRetries
        /\ q.row.attempts = row.attempts /\ q.row.dlq = row.dlq
    /\ q.pc = "reset" => q.row.attempts = 0 /\ q.row.status = "pending" /\ ~q.row.dlq

HookSays(row, n, arrived) ==
    /\ row.attempts = n /\ n <= HookMaxRetries
    /\ row.status = "success" <=> arrived
    /\ row.status = "abandoned" <=> row.dlq

\* A row that is gone, or at work, has not been accepted.
HookFine(i, row, n, arrived, work) ==
    /\ row # None => HookSays(row, n, arrived)
    /\ row = None => ~arrived
    /\ \A w \in HookWorkers : HookAt(work[w], i) => HookHeld(work[w], row) /\ ~arrived
    /\ \A w, v \in HookWorkers : HookAt(work[w], i) /\ HookAt(work[v], i) => w = v

HookInv ==
    /\ HookTyped
    /\ \A i \in DOMAIN hookLogs \ hookCrossed :
        HookFine(i, hookLogs[i], hookPosts[i], i \in hookAccepted, hookWork)

LEMMA HookRead ==
    ASSUME HookTyped
    PROVE  /\ Len(hookLogs) \in Nat /\ DOMAIN hookLogs = 1..Len(hookLogs) /\ DOMAIN hookPosts = DOMAIN hookLogs
           /\ \A i \in DOMAIN hookLogs : hookLogs[i] \in HookRow \cup {None} /\ hookPosts[i] \in Nat
           /\ \A i \in Hook!Ids : i \in DOMAIN hookLogs /\ hookLogs[i] \in HookRow /\ hookLogs[i] # None
           /\ None \notin HookRow
  <1> DEFINE S == HookRow \cup {None}
  <1>1. hookLogs \in Seq(S) /\ hookPosts \in Seq(Nat) /\ Len(hookPosts) = Len(hookLogs)
    BY DEF HookTyped
  <1>2. None \notin HookRow
    BY DeliveryAssumption DEF HookRow
  <1> HIDE DEF S
  <1>3. /\ Len(hookLogs) \in Nat /\ DOMAIN hookLogs = 1..Len(hookLogs) /\ DOMAIN hookPosts = DOMAIN hookLogs
        /\ \A i \in DOMAIN hookLogs : hookLogs[i] \in S /\ hookPosts[i] \in Nat
    BY <1>1
  <1> QED BY <1>2, <1>3 DEF S, Hook!Ids

LEMMA HookBusy ==
    ASSUME HookTyped, NEW i
    PROVE  Hook!Busy(i) = {} <=> \A w \in HookWorkers : ~HookAt(hookWork[w], i)
  <1>1. \A w \in HookWorkers : hookWork[w] # Hook!New <=> hookWork[w].pc # "new"
    BY DEF HookTyped, HookTask, Hook!New
  <1> QED BY <1>1 DEF Hook!Busy, HookAt

\* A step of a goroutine concerns the row it works on.
LEMMA HookMoved ==
    ASSUME HookInv, NEW w \in HookWorkers, NEW i \in DOMAIN hookLogs', NEW q,
           hookWork' = [hookWork EXCEPT ![w] = q],
           q = Hook!New \/ (q \in HookTask /\ q.id = i),
           hookWork[w] = Hook!New \/ hookWork[w].id = i,
           hookLogs' \in Seq(HookRow \cup {None}), hookPosts' \in Seq(Nat), Len(hookPosts') = Len(hookLogs'),
           DOMAIN hookLogs \subseteq DOMAIN hookLogs',
           hookAccepted' \subseteq DOMAIN hookLogs', hookNow' \in Nat,
           hookCrossed \subseteq hookCrossed',
           \A j \in DOMAIN hookLogs' : j # i =>
               /\ j \in DOMAIN hookLogs
               /\ hookLogs'[j] = hookLogs[j] /\ hookPosts'[j] = hookPosts[j]
               /\ j \in hookAccepted' <=> j \in hookAccepted,
           i \notin hookCrossed' => HookFine(i, hookLogs'[i], hookPosts'[i], i \in hookAccepted', hookWork')
    PROVE  HookInv'
  <1>1. /\ hookWork' = [v \in HookWorkers |-> hookWork'[v]]
        /\ hookWork'[w] = q /\ \A v \in HookWorkers : v # w => hookWork'[v] = hookWork[v]
    BY DEF HookInv, HookTyped
  <1>2. HookTyped'
    <2>1. ASSUME NEW v \in HookWorkers
          PROVE  hookWork'[v] = Hook!New \/ (hookWork'[v] \in HookTask /\ hookWork'[v].id \in DOMAIN hookLogs')
      <3>1. CASE v = w
        BY <3>1, <1>1
      <3>2. CASE v # w
        BY <3>2, <1>1 DEF HookInv, HookTyped
      <3> QED BY <3>1, <3>2
    <2> QED BY <2>1, <1>1 DEF HookTyped
  <1>3. ASSUME NEW j \in DOMAIN hookLogs' \ hookCrossed', j # i
        PROVE  HookFine(j, hookLogs'[j], hookPosts'[j], j \in hookAccepted', hookWork')
    <2>1. HookFine(j, hookLogs[j], hookPosts[j], j \in hookAccepted, hookWork)
      BY <1>3 DEF HookInv
    <2>2. \A v \in HookWorkers : HookAt(hookWork'[v], j) => v # w /\ hookWork'[v] = hookWork[v]
      BY <1>1, <1>3 DEF HookAt, Hook!New
    <2>3. hookLogs'[j] = hookLogs[j] /\ hookPosts'[j] = hookPosts[j] /\ (j \in hookAccepted' <=> j \in hookAccepted)
      BY <1>3
    <2> QED BY <2>1, <2>2, <2>3 DEF HookFine, HookSays
  <1> QED BY <1>2, <1>3 DEF HookInv

\* A row that is replaced.
LEMMA HookSaved ==
    ASSUME HookTyped, NEW i \in DOMAIN hookLogs, NEW row \in HookRow, NEW n \in Nat,
           hookLogs' = [hookLogs EXCEPT ![i] = row], hookPosts' = [hookPosts EXCEPT ![i] = n]
    PROVE  /\ hookLogs' \in Seq(HookRow \cup {None}) /\ hookPosts' \in Seq(Nat) /\ Len(hookPosts') = Len(hookLogs')
           /\ DOMAIN hookLogs' = DOMAIN hookLogs /\ hookLogs'[i] = row /\ hookPosts'[i] = n
           /\ \A j \in DOMAIN hookLogs : j # i => hookLogs'[j] = hookLogs[j] /\ hookPosts'[j] = hookPosts[j]
  <1> DEFINE S == HookRow \cup {None}
  <1>1. hookLogs \in Seq(S) /\ row \in S /\ hookPosts \in Seq(Nat) /\ Len(hookPosts) = Len(hookLogs)
    BY DEF HookTyped
  <1> HIDE DEF S
  <1> QED BY <1>1 DEF S

LEMMA HookDispatchInv ==
    ASSUME HookInv, NEW w \in HookWorkers, NEW s \in HookSubs, Hook!Dispatch(w, s)
    PROVE  HookInv'
  <1> DEFINE n == Len(hookLogs)
             row == Hook!Fresh(s)
             q == [pc |-> "deliver", id |-> n + 1, row |-> row]
  <1>1. /\ hookWork[w] = Hook!New
        /\ hookLogs' = Append(hookLogs, row) /\ hookPosts' = Append(hookPosts, 0)
        /\ hookWork' = [hookWork EXCEPT ![w] = q]
        /\ UNCHANGED <<hookAccepted, hookCrossed, hookNow>>
    BY DEF Hook!Dispatch
  <1>2. HookTyped
    BY DEF HookInv
  <1>3. n \in Nat /\ DOMAIN hookLogs = 1..n
    BY <1>2, HookRead
  <1>4. row \in HookRow /\ row.status = "pending" /\ row.attempts = 0 /\ ~row.dlq
    BY <1>2 DEF HookRow, HookTyped, Hook!Fresh
  <1> HIDE DEF row
  <1>5. q \in HookTask /\ q.pc = "deliver" /\ q.id = n + 1 /\ q.row = row
    BY <1>3, <1>4 DEF HookTask
  <1> HIDE DEF q
  <1>6. /\ hookLogs' \in Seq(HookRow \cup {None}) /\ hookPosts' \in Seq(Nat) /\ Len(hookPosts') = Len(hookLogs')
        /\ DOMAIN hookLogs' = 1..(n + 1) /\ hookLogs'[n + 1] = row /\ hookPosts'[n + 1] = 0
        /\ \A j \in 1..n : hookLogs'[j] = hookLogs[j] /\ hookPosts'[j] = hookPosts[j]
    <2> DEFINE S == HookRow \cup {None}
    <2>1. hookLogs \in Seq(S) /\ row \in S /\ hookPosts \in Seq(Nat) /\ Len(hookPosts) = Len(hookLogs)
      BY <1>2, <1>4 DEF HookTyped
    <2> HIDE DEF S
    <2> QED BY <2>1, <1>1 DEF S
  <1>7. n + 1 \notin hookAccepted' /\ hookAccepted' \subseteq DOMAIN hookLogs' /\ hookNow' \in Nat
    BY <1>1, <1>2, <1>3, <1>6 DEF HookTyped
  <1>8. \A v \in HookWorkers : ~HookAt(hookWork[v], n + 1)
    BY <1>2, <1>3 DEF HookTyped, HookAt, Hook!New
  <1>9. hookWork'[w] = q /\ \A v \in HookWorkers : v # w => hookWork'[v] = hookWork[v]
    BY <1>1, <1>2 DEF HookTyped
  <1>10. HookFine(n + 1, hookLogs'[n + 1], hookPosts'[n + 1], n + 1 \in hookAccepted', hookWork')
    <2>1. HookSays(row, 0, n + 1 \in hookAccepted')
      BY <1>4, <1>7, DeliveryAssumption DEF HookSays
    <2>2. HookHeld(q, row)
      BY <1>4, <1>5, HookRead, <1>2, DeliveryAssumption DEF HookHeld
    <2>3. \A v \in HookWorkers : HookAt(hookWork'[v], n + 1) => v = w
      BY <1>8, <1>9
    <2>4. row # None
      BY <1>2, <1>4, HookRead
    <2>5. HookFine(n + 1, row, 0, n + 1 \in hookAccepted', hookWork')
      <3> DEFINE k == n + 1
      <3>1. k \notin hookAccepted' /\ HookSays(row, 0, k \in hookAccepted') /\ \A v \in HookWorkers : HookAt(hookWork'[v], k) => v = w
        BY <2>1, <2>3, <1>7
      <3> HIDE DEF k
      <3> QED BY <3>1, <2>2, <2>4, <1>9 DEF HookFine, k
    <2> QED BY <2>5, <1>6
  <1>11. \A j \in DOMAIN hookLogs' : j # n + 1 =>
            /\ j \in DOMAIN hookLogs
            /\ hookLogs'[j] = hookLogs[j] /\ hookPosts'[j] = hookPosts[j]
            /\ j \in hookAccepted' <=> j \in hookAccepted
    BY <1>1, <1>3, <1>6
  <1>12. n + 1 \in DOMAIN hookLogs' /\ DOMAIN hookLogs \subseteq DOMAIN hookLogs' /\ hookCrossed \subseteq hookCrossed'
    BY <1>1, <1>3, <1>6
  <1> DEFINE i == n + 1
  <1>13. /\ hookWork' = [hookWork EXCEPT ![w] = q]
         /\ q = Hook!New \/ (q \in HookTask /\ q.id = i)
         /\ hookWork[w] = Hook!New \/ hookWork[w].id = i
         /\ i \in DOMAIN hookLogs' /\ DOMAIN hookLogs \subseteq DOMAIN hookLogs'
         /\ \A j \in DOMAIN hookLogs' : j # i =>
               /\ j \in DOMAIN hookLogs
               /\ hookLogs'[j] = hookLogs[j] /\ hookPosts'[j] = hookPosts[j]
               /\ j \in hookAccepted' <=> j \in hookAccepted
         /\ i \notin hookCrossed' => HookFine(i, hookLogs'[i], hookPosts'[i], i \in hookAccepted', hookWork')
    BY <1>1, <1>5, <1>10, <1>11, <1>12
  <1>14. /\ hookLogs' \in Seq(HookRow \cup {None}) /\ hookPosts' \in Seq(Nat) /\ Len(hookPosts') = Len(hookLogs')
         /\ hookAccepted' \subseteq DOMAIN hookLogs' /\ hookNow' \in Nat /\ hookCrossed \subseteq hookCrossed'
    BY <1>6, <1>7, <1>12
  <1> HIDE DEF i, n
  <1> QED BY <1>13, <1>14, HookMoved

\* A goroutine that starts on a row, alone or crossing another.
LEMMA HookTaken ==
    ASSUME HookInv, NEW w \in HookWorkers, NEW i \in DOMAIN hookLogs, NEW q \in HookTask, q.id = i,
           hookWork[w] = Hook!New, hookWork' = [hookWork EXCEPT ![w] = q],
           hookCrossed' = Hook!Crossed(i),
           i \notin hookCrossed => HookHeld(q, hookLogs[i]) /\ i \notin hookAccepted,
           UNCHANGED <<hookLogs, hookPosts, hookAccepted, hookNow>>
    PROVE  HookInv'
  <1>1. HookTyped
    BY DEF HookInv
  <1>2. hookWork'[w] = q /\ \A v \in HookWorkers : v # w => hookWork'[v] = hookWork[v]
    BY <1>1 DEF HookTyped
  <1>3. hookCrossed \subseteq hookCrossed' /\ (i \notin hookCrossed' => i \notin hookCrossed /\ Hook!Busy(i) = {})
    BY DEF Hook!Crossed
  <1>4. ASSUME i \notin hookCrossed' PROVE HookFine(i, hookLogs'[i], hookPosts'[i], i \in hookAccepted', hookWork')
    <2>1. HookFine(i, hookLogs[i], hookPosts[i], i \in hookAccepted, hookWork)
      BY <1>3, <1>4 DEF HookInv
    <2>2. \A v \in HookWorkers : ~HookAt(hookWork[v], i)
      BY <1>1, <1>3, <1>4, HookBusy
    <2>3. \A v \in HookWorkers : HookAt(hookWork'[v], i) => v = w
      BY <2>2, <1>2
    <2>4. HookHeld(q, hookLogs[i]) /\ i \notin hookAccepted
      BY <1>3, <1>4
    <2> QED BY <2>1, <2>3, <2>4, <1>2 DEF HookFine
  <1>5. /\ hookLogs' \in Seq(HookRow \cup {None}) /\ hookPosts' \in Seq(Nat) /\ Len(hookPosts') = Len(hookLogs')
        /\ hookAccepted' \subseteq DOMAIN hookLogs' /\ hookNow' \in Nat
    BY <1>1 DEF HookTyped
  <1> QED BY <1>3, <1>4, <1>5, HookMoved

LEMMA HookRetryPendingInv ==
    ASSUME HookInv, NEW w \in HookWorkers, NEW i \in Hook!Ids, Hook!RetryPending(w, i)
    PROVE  HookInv'
  <1> DEFINE q == [pc |-> "deliver", id |-> i, row |-> hookLogs[i]]
  <1>1. /\ hookWork[w] = Hook!New /\ hookWork' = [hookWork EXCEPT ![w] = q] /\ hookCrossed' = Hook!Crossed(i)
        /\ hookLogs[i].status \in {"pending", "failed"} /\ hookLogs[i].attempts < HookMaxRetries
        /\ UNCHANGED <<hookLogs, hookPosts, hookAccepted, hookNow>>
    BY DEF Hook!RetryPending, Hook!Due
  <1>2. i \in DOMAIN hookLogs /\ hookLogs[i] \in HookRow /\ hookLogs[i] # None /\ i \in Nat
    BY HookRead DEF HookInv
  <1>3. q \in HookTask /\ q.id = i /\ q.pc = "deliver" /\ q.row = hookLogs[i]
    BY <1>2 DEF HookTask
  <1> HIDE DEF q
  <1>4. HookHeld(q, hookLogs[i])
    BY <1>1, <1>2, <1>3 DEF HookHeld
  <1>5. i \notin hookCrossed => i \notin hookAccepted
    BY <1>1, <1>2 DEF HookInv, HookFine, HookSays
  <1> QED BY <1>1, <1>2, <1>3, <1>4, <1>5, HookTaken

LEMMA HookRetrySpecificInv ==
    ASSUME HookInv, NEW w \in HookWorkers, NEW i \in Hook!Ids, Hook!RetrySpecific(w, i)
    PROVE  HookInv'
  <1> DEFINE row == [hookLogs[i] EXCEPT !.attempts = 0, !.status = "pending", !.dlq = FALSE]
             q == [pc |-> "reset", id |-> i, row |-> row]
  <1>1. /\ hookWork[w] = Hook!New /\ hookWork' = [hookWork EXCEPT ![w] = q] /\ hookCrossed' = Hook!Crossed(i)
        /\ hookLogs[i].status # "success"
        /\ UNCHANGED <<hookLogs, hookPosts, hookAccepted, hookNow>>
    BY DEF Hook!RetrySpecific
  <1>2. i \in DOMAIN hookLogs /\ hookLogs[i] \in HookRow /\ hookLogs[i] # None /\ i \in Nat
    BY HookRead DEF HookInv
  <1>3. row \in HookRow /\ row.attempts = 0 /\ row.status = "pending" /\ ~row.dlq
    BY <1>2 DEF HookRow
  <1> HIDE DEF row
  <1>4. q \in HookTask /\ q.id = i /\ q.pc = "reset" /\ q.row = row
    BY <1>2, <1>3 DEF HookTask
  <1> HIDE DEF q
  <1>5. HookHeld(q, hookLogs[i])
    BY <1>3, <1>4 DEF HookHeld
  <1>6. i \notin hookCrossed => i \notin hookAccepted
    BY <1>1, <1>2 DEF HookInv, HookFine, HookSays
  <1> QED BY <1>1, <1>2, <1>4, <1>5, <1>6, HookTaken

\* The goroutine that is alone on a row.
LEMMA HookAlone ==
    ASSUME HookInv, NEW w \in HookWorkers, hookWork[w].pc # "new"
    PROVE  /\ hookWork[w] \in HookTask /\ hookWork[w].id \in DOMAIN hookLogs
           /\ hookWork[w].id \notin hookCrossed =>
                /\ HookHeld(hookWork[w], hookLogs[hookWork[w].id]) /\ hookWork[w].id \notin hookAccepted
                /\ hookLogs[hookWork[w].id] # None =>
                     HookSays(hookLogs[hookWork[w].id], hookPosts[hookWork[w].id], FALSE)
                /\ \A v \in HookWorkers : v # w => ~HookAt(hookWork[v], hookWork[w].id)
  <1> DEFINE i == hookWork[w].id
  <1>1. hookWork[w] \in HookTask /\ i \in DOMAIN hookLogs
    BY DEF HookInv, HookTyped, Hook!New
  <1>2. HookAt(hookWork[w], i)
    BY DEF HookAt
  <1> HIDE DEF i
  <1>3. ASSUME i \notin hookCrossed
        PROVE  /\ HookHeld(hookWork[w], hookLogs[i]) /\ i \notin hookAccepted
               /\ hookLogs[i] # None => HookSays(hookLogs[i], hookPosts[i], FALSE)
               /\ \A v \in HookWorkers : v # w => ~HookAt(hookWork[v], i)
    <2>1. HookFine(i, hookLogs[i], hookPosts[i], i \in hookAccepted, hookWork)
      BY <1>1, <1>3 DEF HookInv
    <2> QED BY <2>1, <1>2 DEF HookFine, HookSays
  <1> QED BY <1>1, <1>3 DEF i

LEMMA HookSaveResetInv == ASSUME HookInv, NEW w \in HookWorkers, Hook!SaveReset(w) PROVE HookInv'
  <1> DEFINE old == hookWork[w]
             i == old.id
             row == [old.row EXCEPT !.at = hookNow]
             q == [old EXCEPT !.pc = "deliver"]
  <1>1. /\ old.pc = "reset" /\ hookLogs' = [hookLogs EXCEPT ![i] = row] /\ hookPosts' = [hookPosts EXCEPT ![i] = 0]
        /\ hookWork' = [hookWork EXCEPT ![w] = q]
        /\ UNCHANGED <<hookAccepted, hookCrossed, hookNow>>
    BY DEF Hook!SaveReset
  <1>2. /\ old \in HookTask /\ i \in DOMAIN hookLogs
        /\ i \notin hookCrossed =>
            /\ HookHeld(old, hookLogs[i]) /\ i \notin hookAccepted
            /\ \A v \in HookWorkers : v # w => ~HookAt(hookWork[v], i)
    BY <1>1, HookAlone
  <1>3. HookTyped
    BY DEF HookInv
  <1>4. row \in HookRow /\ row.attempts = old.row.attempts /\ row.status = old.row.status /\ row.dlq = old.row.dlq
    BY <1>2, <1>3 DEF HookTask, HookRow, HookTyped
  <1>5. q \in HookTask /\ q.id = i /\ q.pc = "deliver" /\ q.row = old.row
    BY <1>2 DEF HookTask
  <1> HIDE DEF row, q
  <1>6. hookWork'[w] = q /\ \A v \in HookWorkers : v # w => hookWork'[v] = hookWork[v]
    BY <1>1, <1>3 DEF HookTyped
  <1>7. ASSUME i \notin hookCrossed' PROVE HookFine(i, row, 0, i \in hookAccepted', hookWork')
    <2>1. row.attempts = 0 /\ row.status = "pending" /\ ~row.dlq /\ i \notin hookAccepted'
      BY <1>1, <1>2, <1>4, <1>7 DEF HookHeld
    <2>2. row # None
      BY <1>3, <1>4, HookRead
    <2>3. HookHeld(q, row)
      BY <2>1, <2>2, <1>4, <1>5, DeliveryAssumption DEF HookHeld
    <2>4. HookSays(row, 0, i \in hookAccepted')
      BY <2>1, DeliveryAssumption DEF HookSays
    <2>5. \A v \in HookWorkers : HookAt(hookWork'[v], i) => v = w
      BY <1>1, <1>2, <1>6, <1>7
    <2> HIDE DEF i
    <2> QED BY <2>1, <2>2, <2>3, <2>4, <2>5, <1>6 DEF HookFine
  <1> HIDE DEF i, old
  <1>8. /\ hookLogs' \in Seq(HookRow \cup {None}) /\ hookPosts' \in Seq(Nat) /\ Len(hookPosts') = Len(hookLogs')
        /\ DOMAIN hookLogs' = DOMAIN hookLogs /\ hookLogs'[i] = row /\ hookPosts'[i] = 0
        /\ \A j \in DOMAIN hookLogs : j # i => hookLogs'[j] = hookLogs[j] /\ hookPosts'[j] = hookPosts[j]
    BY <1>1, <1>2, <1>3, <1>4, HookSaved
  <1>9. hookAccepted' \subseteq DOMAIN hookLogs' /\ hookNow' \in Nat /\ hookCrossed \subseteq hookCrossed'
    BY <1>1, <1>3, <1>8 DEF HookTyped
  <1>10. hookWork[w].id = i
    BY DEF i, old
  <1>11. /\ hookWork' = [hookWork EXCEPT ![w] = q]
         /\ q = Hook!New \/ (q \in HookTask /\ q.id = i)
         /\ hookWork[w] = Hook!New \/ hookWork[w].id = i
         /\ i \in DOMAIN hookLogs' /\ DOMAIN hookLogs \subseteq DOMAIN hookLogs'
         /\ \A j \in DOMAIN hookLogs' : j # i =>
               /\ j \in DOMAIN hookLogs
               /\ hookLogs'[j] = hookLogs[j] /\ hookPosts'[j] = hookPosts[j]
               /\ j \in hookAccepted' <=> j \in hookAccepted
         /\ i \notin hookCrossed' => HookFine(i, hookLogs'[i], hookPosts'[i], i \in hookAccepted', hookWork')
    BY <1>1, <1>2, <1>5, <1>7, <1>8, <1>10
  <1>12. hookLogs' \in Seq(HookRow \cup {None}) /\ hookPosts' \in Seq(Nat) /\ Len(hookPosts') = Len(hookLogs')
    BY <1>8
  <1> QED BY <1>9, <1>11, <1>12, HookMoved

\* The row after an answer.
LEMMA HookOutcome ==
    ASSUME NEW row \in HookRow, NEW answer \in Hook!Answers, hookNow \in Nat
    PROVE  /\ Hook!Outcome(Hook!Attempted(row), answer) \in HookRow
           /\ Hook!Outcome(Hook!Attempted(row), answer).attempts = row.attempts + 1
           /\ Hook!Outcome(Hook!Attempted(row), answer).status = "success" <=> answer = "accepted"
           /\ Hook!Outcome(Hook!Attempted(row), answer).status # "pending"
           /\ Hook!Outcome(Hook!Attempted(row), answer).status = "abandoned" => Hook!Outcome(Hook!Attempted(row), answer).dlq
           /\ Hook!Outcome(Hook!Attempted(row), answer).status # "abandoned" =>
                Hook!Outcome(Hook!Attempted(row), answer).dlq = row.dlq
  <1> DEFINE new == Hook!Attempted(row)
             after == Hook!Outcome(new, answer)
             n == Hook!calculateBackoff(new.attempts)
  <1>1. new \in HookRow /\ new.attempts = row.attempts + 1 /\ new.dlq = row.dlq /\ new.attempts \in Nat \ {0}
    <2> DEFINE k == row.attempts + 1
    <2>1. new = [row EXCEPT !.attempts = k, !.at = hookNow]
      BY DEF Hook!Attempted
    <2>2. k \in Nat \ {0}
      BY DEF HookRow
    <2> HIDE DEF k, new
    <2>3. new \in HookRow /\ new.attempts = k /\ new.dlq = row.dlq
      BY <2>1, <2>2 DEF HookRow
    <2> QED BY <2>2, <2>3 DEF k
  <1> HIDE DEF new
  <1>2. n \in Nat
    BY <1>1, DeliveryAssumption DEF Hook!calculateBackoff
  <1>3. hookNow + n \in Nat
    BY <1>2
  <1> HIDE DEF n
  <1>4. /\ Hook!scheduleRetry(new) \in HookRow /\ Hook!scheduleRetry(new).status = "failed"
        /\ Hook!scheduleRetry(new).dlq = new.dlq /\ Hook!scheduleRetry(new).attempts = new.attempts
    <2> DEFINE t == hookNow + n
    <2>1. Hook!scheduleRetry(new) = [new EXCEPT !.status = "failed", !.next = t]
      BY DEF Hook!scheduleRetry, n
    <2>2. t \in Nat
      BY <1>3
    <2> HIDE DEF t
    <2> QED BY <2>1, <2>2, <1>1 DEF HookRow
  <1>5. /\ Hook!moveToDLQ(new) \in HookRow /\ Hook!moveToDLQ(new).status = "abandoned"
        /\ Hook!moveToDLQ(new).dlq /\ Hook!moveToDLQ(new).attempts = new.attempts
    BY <1>1 DEF HookRow, Hook!moveToDLQ
  <1> DEFINE done == [new EXCEPT !.status = "success"]
  <1>6. done \in HookRow /\ done.status = "success" /\ done.dlq = new.dlq /\ done.attempts = new.attempts
    BY <1>1 DEF HookRow
  <1> HIDE DEF done
  <1>7. after = (CASE answer = "accepted"     -> done
                   [] answer = "client_error" -> Hook!moveToDLQ(new)
                   [] answer = "server_error" -> IF Hook!IsExhausted(new) THEN Hook!moveToDLQ(new) ELSE Hook!scheduleRetry(new)
                   [] answer = "no_answer"    -> Hook!scheduleRetry(new))
    BY DEF Hook!Outcome, done
  <1>8. answer \in {"accepted", "client_error", "server_error", "no_answer"}
    BY DEF Hook!Answers
  <1> HIDE DEF after
  <1>9. \/ answer = "accepted" /\ after = done
        \/ answer # "accepted" /\ (after = Hook!moveToDLQ(new) \/ after = Hook!scheduleRetry(new))
    BY <1>7, <1>8
  <1>10. /\ after \in HookRow /\ after.attempts = row.attempts + 1 /\ (after.status = "success" <=> answer = "accepted")
         /\ after.status # "pending" /\ (after.status = "abandoned" => after.dlq) /\ (after.status # "abandoned" => after.dlq = row.dlq)
    BY <1>1, <1>4, <1>5, <1>6, <1>9
  <1> QED BY <1>10 DEF after, new

LEMMA HookDeliverInv ==
    ASSUME HookInv, NEW w \in HookWorkers, NEW answer \in Hook!Answers, Hook!deliver(w, answer)
    PROVE  HookInv'
  <1> DEFINE old == hookWork[w]
             i == old.id
             row == Hook!Outcome(Hook!Attempted(old.row), answer)
             n == hookPosts[i] + 1
             q == Hook!New
  <1>1. /\ old.pc = "deliver" /\ hookLogs' = [hookLogs EXCEPT ![i] = row] /\ hookPosts' = [hookPosts EXCEPT ![i] = n]
        /\ hookAccepted' = (IF answer = "accepted" THEN hookAccepted \cup {i} ELSE hookAccepted)
        /\ hookWork' = [hookWork EXCEPT ![w] = q]
        /\ UNCHANGED <<hookCrossed, hookNow>>
    BY DEF Hook!deliver
  <1>2. /\ old \in HookTask /\ i \in DOMAIN hookLogs
        /\ i \notin hookCrossed =>
            /\ HookHeld(old, hookLogs[i]) /\ i \notin hookAccepted
            /\ hookLogs[i] # None => HookSays(hookLogs[i], hookPosts[i], FALSE)
            /\ \A v \in HookWorkers : v # w => ~HookAt(hookWork[v], i)
    BY <1>1, HookAlone
  <1>3. HookTyped
    BY DEF HookInv
  <1>4. old.row \in HookRow /\ hookNow \in Nat /\ n \in Nat /\ hookPosts[i] \in Nat
    BY <1>2, <1>3, HookRead DEF HookTask, HookTyped
  <1>5. /\ row \in HookRow /\ row.attempts = old.row.attempts + 1 /\ (row.status = "success" <=> answer = "accepted")
        /\ row.status # "pending" /\ (row.status = "abandoned" => row.dlq) /\ (row.status # "abandoned" => row.dlq = old.row.dlq)
    BY <1>4, HookOutcome
  <1>6. q.pc = "new"
    BY DEF Hook!New
  <1> HIDE DEF row, q
  <1>7. hookWork'[w] = q /\ \A v \in HookWorkers : v # w => hookWork'[v] = hookWork[v]
    BY <1>1, <1>3 DEF HookTyped
  <1>8. ASSUME i \notin hookCrossed' PROVE HookFine(i, row, n, i \in hookAccepted', hookWork')
    <2>1. /\ hookLogs[i].attempts < HookMaxRetries /\ hookLogs[i].attempts = hookPosts[i]
          /\ old.row.attempts = hookLogs[i].attempts /\ (old.row.dlq = hookLogs[i].dlq)
          /\ hookLogs[i].status # "abandoned" /\ (hookLogs[i].status = "abandoned" <=> hookLogs[i].dlq)
      BY <1>1, <1>2, <1>8 DEF HookHeld, HookSays
    <2>2. ~old.row.dlq
      BY <2>1
    <2>3. row.attempts = n /\ n <= HookMaxRetries
      BY <2>1, <1>4, <1>5, DeliveryAssumption
    <2>4. i \in hookAccepted' <=> answer = "accepted"
      BY <1>1, <1>2, <1>8
    <2>5. HookSays(row, n, i \in hookAccepted')
      BY <2>2, <2>3, <2>4, <1>5 DEF HookSays
    <2>6. \A v \in HookWorkers : ~HookAt(hookWork'[v], i)
      BY <1>1, <1>2, <1>6, <1>7, <1>8 DEF HookAt
    <2>7. row # None
      BY <1>3, <1>5, HookRead
    <2> QED BY <2>5, <2>6, <2>7 DEF HookFine
  <1>9. hookWork[w].id = i /\ q = Hook!New
    BY DEF q
  <1> HIDE DEF i, old, n
  <1>10. /\ hookLogs' \in Seq(HookRow \cup {None}) /\ hookPosts' \in Seq(Nat) /\ Len(hookPosts') = Len(hookLogs')
         /\ DOMAIN hookLogs' = DOMAIN hookLogs /\ hookLogs'[i] = row /\ hookPosts'[i] = n
         /\ \A j \in DOMAIN hookLogs : j # i => hookLogs'[j] = hookLogs[j] /\ hookPosts'[j] = hookPosts[j]
    BY <1>1, <1>2, <1>3, <1>4, <1>5, HookSaved
  <1>11. /\ hookAccepted' \subseteq DOMAIN hookLogs' /\ hookNow' \in Nat /\ hookCrossed \subseteq hookCrossed'
         /\ \A j : j # i => (j \in hookAccepted' <=> j \in hookAccepted)
    BY <1>1, <1>2, <1>3, <1>10 DEF HookTyped
  <1>12. /\ hookWork' = [hookWork EXCEPT ![w] = q]
         /\ q = Hook!New \/ (q \in HookTask /\ q.id = i)
         /\ hookWork[w] = Hook!New \/ hookWork[w].id = i
         /\ i \in DOMAIN hookLogs' /\ DOMAIN hookLogs \subseteq DOMAIN hookLogs'
         /\ \A j \in DOMAIN hookLogs' : j # i =>
               /\ j \in DOMAIN hookLogs
               /\ hookLogs'[j] = hookLogs[j] /\ hookPosts'[j] = hookPosts[j]
               /\ j \in hookAccepted' <=> j \in hookAccepted
         /\ i \notin hookCrossed' => HookFine(i, hookLogs'[i], hookPosts'[i], i \in hookAccepted', hookWork')
    BY <1>1, <1>2, <1>8, <1>9, <1>10, <1>11
  <1>13. hookLogs' \in Seq(HookRow \cup {None}) /\ hookPosts' \in Seq(Nat) /\ Len(hookPosts') = Len(hookLogs')
    BY <1>10
  <1> QED BY <1>11, <1>12, <1>13, HookMoved

\* A purged row had been given up.
LEMMA HookPurgeInv == ASSUME HookInv, Hook!PurgeOldDLQ PROVE HookInv'
  <1> DEFINE gone(i) == i \in Hook!Ids /\ hookLogs[i].status = "abandoned" /\ hookLogs[i].at < hookNow - HookRetention
             n == Len(hookLogs)
  <1>1. /\ hookLogs' = [i \in DOMAIN hookLogs |-> IF gone(i) THEN None ELSE hookLogs[i]]
        /\ UNCHANGED <<hookWork, hookPosts, hookAccepted, hookCrossed, hookNow>>
    BY DEF Hook!PurgeOldDLQ
  <1>2. \A i : gone(i) => hookLogs[i] # None /\ hookLogs[i].status = "abandoned"
    BY DEF Hook!Ids
  <1> HIDE DEF gone
  <1>3. HookTyped
    BY DEF HookInv
  <1>4. n \in Nat /\ DOMAIN hookLogs = 1..n /\ \A i \in 1..n : hookLogs[i] \in HookRow \cup {None}
    BY <1>3, HookRead
  <1>5. \A i \in 1..n : hookLogs'[i] \in HookRow \cup {None}
    BY <1>1, <1>4
  <1>6. hookLogs' \in Seq(HookRow \cup {None}) /\ Len(hookLogs') = n /\ DOMAIN hookLogs' = 1..n
    <2> DEFINE S == HookRow \cup {None}
    <2>1. hookLogs' \in [1..n -> S]
      BY <1>1, <1>4, <1>5
    <2>2. hookLogs' \in Seq(S)
      <3> HIDE DEF S, n
      <3> QED BY <2>1, <1>4, SeqDef, Zenon
    <2>3. DOMAIN hookLogs' = 1..n
      BY <2>1
    <2> HIDE DEF S
    <2> QED BY <2>2, <2>3, <1>4, LenProperties DEF S
  <1>7. HookTyped'
    BY <1>1, <1>3, <1>4, <1>6 DEF HookTyped
  <1>8. ASSUME NEW i \in DOMAIN hookLogs \ hookCrossed PROVE HookFine(i, hookLogs'[i], hookPosts[i], i \in hookAccepted, hookWork)
    <2>1. HookFine(i, hookLogs[i], hookPosts[i], i \in hookAccepted, hookWork)
      BY DEF HookInv
    <2>2. CASE gone(i)
      <3>1. hookLogs'[i] = None /\ hookLogs[i] # None /\ hookLogs[i].status = "abandoned"
        BY <2>2, <1>1, <1>2, <1>8
      <3>2. i \notin hookAccepted
        BY <2>1, <3>1 DEF HookFine, HookSays
      <3> QED BY <2>1, <3>1, <3>2 DEF HookFine, HookHeld
    <2>3. CASE ~gone(i)
      BY <2>1, <2>3, <1>1, <1>8
    <2> QED BY <2>2, <2>3
  <1> QED BY <1>1, <1>4, <1>6, <1>7, <1>8 DEF HookInv

LEMMA HookCrashInv == ASSUME HookInv, Hook!Crash PROVE HookInv'
  <1>1. PICK arrived \in SUBSET {hookWork[w].id : w \in {v \in HookWorkers : hookWork[v] # Hook!New /\ hookWork[v].pc = "deliver"}} :
            hookAccepted' = hookAccepted \cup arrived
    BY DEF Hook!Crash
  <1>2. /\ hookCrossed' = hookCrossed \cup {hookWork[w].id : w \in {v \in HookWorkers : hookWork[v] # Hook!New}}
        /\ hookWork' = [w \in HookWorkers |-> Hook!New]
        /\ UNCHANGED <<hookLogs, hookPosts, hookNow>>
    BY DEF Hook!Crash
  <1>3. HookTyped
    BY DEF HookInv
  <1>4. arrived \subseteq hookCrossed' /\ hookCrossed \subseteq hookCrossed'
    BY <1>1, <1>2
  <1>5. arrived \subseteq DOMAIN hookLogs
    BY <1>1, <1>3 DEF HookTyped
  <1>6. HookTyped'
    BY <1>1, <1>2, <1>3, <1>5 DEF HookTyped
  <1>7. ASSUME NEW i \in DOMAIN hookLogs \ hookCrossed' PROVE HookFine(i, hookLogs[i], hookPosts[i], i \in hookAccepted', hookWork')
    <2>1. HookFine(i, hookLogs[i], hookPosts[i], i \in hookAccepted, hookWork)
      BY <1>4, <1>7 DEF HookInv
    <2>2. i \in hookAccepted' <=> i \in hookAccepted
      BY <1>1, <1>4, <1>7
    <2>3. \A w \in HookWorkers : ~HookAt(hookWork'[w], i)
      BY <1>2 DEF HookAt, Hook!New
    <2> QED BY <2>1, <2>2, <2>3 DEF HookFine, HookSays
  <1> QED BY <1>2, <1>6, <1>7 DEF HookInv

LEMMA HookNextInv == HookInv /\ [Hook!Next]_(Hook!vars) => HookInv'
  <1> SUFFICES ASSUME HookInv, [Hook!Next]_(Hook!vars) PROVE HookInv'
    OBVIOUS
  <1>1. ASSUME UNCHANGED <<hookLogs, hookWork, hookPosts, hookAccepted, hookCrossed>>, hookNow' \in {hookNow, hookNow + 1}
        PROVE  HookInv'
    BY <1>1 DEF HookInv, HookTyped
  <1>2. CASE Hook!Tick \/ UNCHANGED Hook!vars \/ \E s \in HookSubs, status \in {"active", "inactive", "deleted"} : Hook!SetSubscription(s, status)
    BY <1>1, <1>2 DEF Hook!Tick, Hook!vars, Hook!SetSubscription
  <1>3. CASE \E w \in HookWorkers, s \in HookSubs : Hook!Dispatch(w, s)
    BY <1>3, HookDispatchInv
  <1>4. CASE \E w \in HookWorkers, i \in Hook!Ids : Hook!RetryPending(w, i) \/ Hook!RetrySpecific(w, i)
    BY <1>4, HookRetryPendingInv, HookRetrySpecificInv
  <1>5. CASE \E w \in HookWorkers : Hook!SaveReset(w)
    BY <1>5, HookSaveResetInv
  <1>6. CASE \E w \in HookWorkers, a \in Hook!Answers : Hook!deliver(w, a)
    BY <1>6, HookDeliverInv
  <1>7. CASE Hook!PurgeOldDLQ \/ Hook!Crash
    BY <1>7, HookPurgeInv, HookCrashInv
  <1> QED BY <1>2, <1>3, <1>4, <1>5, <1>6, <1>7 DEF Hook!Next

LEMMA HookInvInit == Hook!Init => HookInv
  <1> SUFFICES ASSUME Hook!Init PROVE HookInv
    OBVIOUS
  <1>1. /\ hookLogs = <<>> /\ hookPosts = <<>> /\ hookAccepted = {} /\ hookNow = 0
        /\ hookWork = [w \in HookWorkers |-> Hook!New]
    BY DEF Hook!Init
  <1>2. DOMAIN hookLogs = {} /\ Len(hookLogs) = 0 /\ Len(hookPosts) = 0 /\ hookLogs \in Seq(HookRow \cup {None}) /\ hookPosts \in Seq(Nat)
    BY <1>1
  <1> QED BY <1>1, <1>2 DEF HookInv, HookTyped

LEMMA HookInvMeans == HookInv => Hook!LogTellsDelivery
  <1> SUFFICES ASSUME HookInv, NEW i \in Hook!Ids \ hookCrossed
               PROVE  /\ hookLogs[i].attempts = hookPosts[i] /\ hookPosts[i] <= HookMaxRetries
                      /\ hookLogs[i].status = "success" <=> i \in hookAccepted
                      /\ hookLogs[i].status = "success" => Hook!Busy(i) = {}
                      /\ hookLogs[i].status = "abandoned" <=> hookLogs[i].dlq
    BY DEF Hook!LogTellsDelivery
  <1>1. HookTyped /\ i \in DOMAIN hookLogs \ hookCrossed /\ hookLogs[i] # None
    BY HookRead DEF HookInv
  <1>2. HookFine(i, hookLogs[i], hookPosts[i], i \in hookAccepted, hookWork)
    BY <1>1 DEF HookInv
  <1> QED BY <1>1, <1>2, HookBusy DEF HookFine, HookSays

-----------------------------------------------------------------------------
(* Sending mail                                                            *)

MailPlaces == DOMAIN MailProviders

MailCount == 0..MailMaxRetries

MailWork == [mail : Nat, candidates : SUBSET MailPlaces, attempt : 1..MailMaxRetries]

MailTyped ==
    /\ mailQueue \in Seq(Nat) /\ mailAccepted \in Nat
    /\ mailOutcome \in Seq(Mail!Providers \cup {"failed"})
    /\ mailTried \in Seq([Mail!Providers -> MailCount])
    /\ mailCurrent # None => mailCurrent \in MailWork

\* What was tried for the mail at the worker: everything of a provider that
\* is no longer a candidate, unless it was left out from the start; of the
\* first candidate the attempts before this one.
MailTriedBy(f, c, out) ==
    \A k \in MailPlaces :
        /\ k \notin c.candidates =>
            f[MailProviders[k]] = IF MailProviders[k] \in out THEN 0 ELSE MailMaxRetries
        /\ k \in c.candidates =>
            /\ MailProviders[k] \notin out
            /\ f[MailProviders[k]] = IF k = Mail!Min(c.candidates) THEN c.attempt - 1 ELSE 0

MailFails(f, out) ==
    \A k \in MailPlaces : f[MailProviders[k]] = IF MailProviders[k] \in out THEN 0 ELSE MailMaxRetries

MailInv ==
    /\ MailTyped
    /\ mailQueue = [k \in 1..Len(mailQueue) |-> mailAccepted - Len(mailQueue) + k]
    /\ Len(mailTried) + Len(mailQueue) = mailAccepted
    /\ mailCurrent = None => Len(mailOutcome) = Len(mailTried)
    /\ mailCurrent # None =>
        /\ Len(mailOutcome) + 1 = Len(mailTried)
        /\ mailCurrent.mail = Len(mailTried) /\ mailCurrent.candidates # {}
        /\ MailTriedBy(mailTried[Len(mailTried)], mailCurrent, mailSkipped)
    /\ \A m \in DOMAIN mailOutcome : mailOutcome[m] = "failed" =>
        /\ \E p \in Mail!Providers : mailTried[m][p] = MailMaxRetries
        /\ m = Len(mailTried) => MailFails(mailTried[m], mailSkipped)

LEMMA MailPlace ==
    /\ \A p \in Mail!Providers : \E k \in MailPlaces : p = MailProviders[k]
    /\ \A k \in MailPlaces : MailProviders[k] \in Mail!Providers /\ MailProviders[k] # "failed"
    /\ MailPlaces # {}
    /\ \A j, k \in MailPlaces : MailProviders[j] = MailProviders[k] => j = k
  <1>1. Mail!Providers = {MailProviders[k] : k \in MailPlaces}
    BY DEF Mail!Providers, Mail!Range, MailPlaces
  <1>2. MailPlaces # {}
    <2>1. MailPlaces = 1..Len(MailProviders) /\ Len(MailProviders) \in Nat \ {0}
      BY DeliveryAssumption DEF MailPlaces
    <2>2. 1 \in MailPlaces
      BY <2>1
    <2> QED BY <2>2
  <1>3. \A k \in MailPlaces : MailProviders[k] # "failed"
    BY DeliveryAssumption DEF MailPlaces
  <1>4. \A j, k \in MailPlaces : MailProviders[j] = MailProviders[k] => j = k
    BY DeliveryAssumption DEF MailPlaces
  <1> QED BY <1>1, <1>2, <1>3, <1>4

LEMMA MailFirst == ASSUME NEW A \in SUBSET MailPlaces, A # {} PROVE Mail!Min(A) \in A
  <1> DEFINE n == Len(MailProviders)
  <1>1. n \in Nat /\ MailPlaces = 1..n
    BY DeliveryAssumption DEF MailPlaces
  <1> HIDE DEF n
  <1>2. A \in SUBSET (0..n)
    BY <1>1
  <1>3. PICK k \in A : \A j \in A : k <= j
    BY <1>1, <1>2, LeastNumber
  <1> QED BY <1>3 DEF Mail!Min

LEMMA MailCandidates == Mail!Candidates \in SUBSET MailPlaces /\ Mail!Candidates # {}
  <1> DEFINE up == {k \in MailPlaces : Mail!IsHealthy(MailProviders[k])}
  <1>1. Mail!Candidates = IF up = {} THEN MailPlaces ELSE up
    BY DEF Mail!Candidates, MailPlaces
  <1> QED BY <1>1, MailPlace

LEMMA MailQueueInv == ASSUME MailInv, Mail!queueEmail PROVE MailInv'
  <1> DEFINE n == Len(mailQueue)
             a == mailAccepted
  <1>1. /\ mailQueue' = Append(mailQueue, a + 1) /\ mailAccepted' = a + 1
        /\ UNCHANGED <<mailCurrent, mailOutcome, mailTried, mailSkipped>>
    BY DEF Mail!queueEmail
  <1>2. mailQueue \in Seq(Nat) /\ a \in Nat /\ mailQueue = [k \in 1..n |-> a - n + k]
    BY DEF MailInv, MailTyped
  <1>3. n \in Nat /\ mailQueue' \in Seq(Nat) /\ Len(mailQueue') = n + 1
    BY <1>1, <1>2
  <1>4. mailQueue' = [k \in 1..(n + 1) |-> (a + 1) - (n + 1) + k]
    <2>1. mailQueue' = [k \in 1..(n + 1) |-> IF k = n + 1 THEN a + 1 ELSE mailQueue[k]]
      <3> DEFINE b == a + 1
      <3>1. mailQueue' = Append(mailQueue, b) /\ b \in Nat /\ mailQueue \in Seq(Nat) /\ Len(mailQueue) = n
        BY <1>1, <1>2
      <3> HIDE DEF b, a, n
      <3>2. /\ mailQueue' = [k \in 1..(n + 1) |-> mailQueue'[k]]
            /\ \A k \in 1..(n + 1) : mailQueue'[k] = IF k = n + 1 THEN b ELSE mailQueue[k]
        <4>1. DOMAIN mailQueue' = 1..(n + 1) /\ mailQueue'[n + 1] = b
          BY <1>3, <3>1
        <4>2. \A k \in 1..n : mailQueue'[k] = mailQueue[k]
          BY <1>3, <3>1
        <4>3. mailQueue' = [k \in DOMAIN mailQueue' |-> mailQueue'[k]]
          BY <1>3
        <4>4. \A k \in 1..(n + 1) : k # n + 1 => k \in 1..n
          BY <1>3
        <4> QED BY <4>1, <4>2, <4>3, <4>4
      <3> QED BY <3>2 DEF b
    <2>2. \A k \in 1..(n + 1) : (IF k = n + 1 THEN a + 1 ELSE mailQueue[k]) = (a + 1) - (n + 1) + k
      <3> SUFFICES ASSUME NEW k \in 1..(n + 1) PROVE (IF k = n + 1 THEN a + 1 ELSE mailQueue[k]) = (a + 1) - (n + 1) + k
        OBVIOUS
      <3>1. k # n + 1 => mailQueue[k] = a - n + k
        BY <1>2, <1>3
      <3> HIDE DEF a, n
      <3> QED BY <1>2, <1>3, <3>1
    <2> QED BY <2>1, <2>2
  <1>5. mailQueue' = [k \in 1..Len(mailQueue') |-> mailAccepted' - Len(mailQueue') + k]
    BY <1>1, <1>3, <1>4
  <1>6. mailAccepted' \in Nat /\ Len(mailTried) + Len(mailQueue') = mailAccepted'
    <2>1. Len(mailTried) \in Nat /\ Len(mailTried) + n = a
      BY DEF MailInv, MailTyped
    <2> HIDE DEF n, a
    <2> QED BY <1>1, <1>2, <1>3, <2>1
  <1>7. MailTyped'
    BY <1>1, <1>3, <1>6 DEF MailInv, MailTyped
  <1> QED BY <1>1, <1>5, <1>6, <1>7 DEF MailInv

LEMMA MailWorkerInv == ASSUME MailInv, Mail!worker PROVE MailInv'
  <1> DEFINE n == Len(mailQueue)
             a == mailAccepted
             t == Len(mailTried)
             f == [p \in Mail!Providers |-> 0]
             c == [mail |-> t + 1, candidates |-> Mail!Candidates, attempt |-> 1]
  <1>1. /\ mailCurrent = None /\ mailQueue # <<>> /\ mailQueue' = Tail(mailQueue)
        /\ mailTried' = Append(mailTried, f)
        /\ mailSkipped' = Mail!Providers \ {MailProviders[k] : k \in Mail!Candidates}
        /\ mailCurrent' = [mail |-> Head(mailQueue), candidates |-> Mail!Candidates, attempt |-> 1]
        /\ UNCHANGED <<mailAccepted, mailOutcome>>
    BY DEF Mail!worker
  <1>2. mailQueue \in Seq(Nat) /\ a \in Nat /\ mailQueue = [k \in 1..n |-> a - n + k]
    BY DEF MailInv, MailTyped
  <1>3. n \in Nat /\ n # 0
    BY <1>1, <1>2
  <1>4. mailTried \in Seq([Mail!Providers -> MailCount]) /\ t \in Nat /\ t + n = a /\ Len(mailOutcome) = t
    BY <1>1 DEF MailInv, MailTyped
  <1>5. Head(mailQueue) = t + 1
    <2>1. Head(mailQueue) = mailQueue[1] /\ mailQueue[1] = a - n + 1
      BY <1>2, <1>3
    <2> HIDE DEF n, a, t
    <2> QED BY <2>1, <1>2, <1>3, <1>4
  <1>6. mailQueue' \in Seq(Nat) /\ Len(mailQueue') = n - 1
    BY <1>1, <1>2, <1>3
  <1>7. mailQueue' = [k \in 1..(n - 1) |-> a - (n - 1) + k]
    <2>1. mailQueue' = [k \in 1..(n - 1) |-> mailQueue[k + 1]]
      <3>1. Len(mailQueue) = n /\ mailQueue \in Seq(Nat) /\ mailQueue # <<>>
        BY <1>1, <1>2
      <3> HIDE DEF a, n
      <3>2. DOMAIN mailQueue' = 1..(n - 1) /\ \A k \in 1..(n - 1) : mailQueue'[k] = mailQueue[k + 1]
        BY <1>1, <1>3, <1>6, <3>1
      <3>3. mailQueue' = [k \in DOMAIN mailQueue' |-> mailQueue'[k]]
        BY <1>6
      <3> QED BY <3>2, <3>3
    <2>2. \A k \in 1..(n - 1) : mailQueue[k + 1] = a - (n - 1) + k
      <3> SUFFICES ASSUME NEW k \in 1..(n - 1) PROVE mailQueue[k + 1] = a - (n - 1) + k
        OBVIOUS
      <3>1. k + 1 \in 1..n
        BY <1>3
      <3>2. mailQueue[k + 1] = a - n + (k + 1)
        BY <1>2, <3>1
      <3> HIDE DEF a, n
      <3> QED BY <1>2, <1>3, <3>2
    <2> QED BY <2>1, <2>2
  <1>8. f \in [Mail!Providers -> MailCount]
    BY DeliveryAssumption DEF MailCount
  <1>9. /\ mailTried' \in Seq([Mail!Providers -> MailCount]) /\ Len(mailTried') = t + 1
        /\ mailTried'[t + 1] = f /\ \A m \in 1..t : mailTried'[m] = mailTried[m]
    <2> DEFINE S == [Mail!Providers -> MailCount]
    <2>1. mailTried \in Seq(S) /\ f \in S
      BY <1>4, <1>8
    <2> HIDE DEF S, f
    <2> QED BY <1>1, <2>1 DEF S
  <1>10. mailCurrent' = c /\ c \in MailWork /\ c # None
    <2>1. c \in MailWork
      BY <1>4, MailCandidates, DeliveryAssumption DEF MailWork
    <2>2. c \in [mail : Nat, candidates : SUBSET DOMAIN MailProviders, attempt : Nat]
      BY <1>4, MailCandidates DEF MailPlaces
    <2> QED BY <1>1, <1>5, <2>1, <2>2, DeliveryAssumption
  <1>11. MailTriedBy(f, c, mailSkipped')
    <2>1. \A k \in MailPlaces : k \in Mail!Candidates <=> MailProviders[k] \notin mailSkipped'
      BY <1>1, MailPlace, MailCandidates
    <2>2. \A k \in MailPlaces : f[MailProviders[k]] = 0
      BY MailPlace
    <2>3. c.candidates = Mail!Candidates /\ c.attempt - 1 = 0
      OBVIOUS
    <2> HIDE DEF c, f
    <2> QED BY <2>1, <2>2, <2>3 DEF MailTriedBy
  <1>12. c.mail = t + 1 /\ c.candidates # {}
    BY MailCandidates
  <1> HIDE DEF c, f
  <1>13. MailTyped'
    BY <1>1, <1>6, <1>9, <1>10 DEF MailInv, MailTyped
  <1>14. \A m \in DOMAIN mailOutcome : mailOutcome[m] = "failed" =>
            (\E p \in Mail!Providers : mailTried'[m][p] = MailMaxRetries) /\ m # t + 1
    <2> SUFFICES ASSUME NEW m \in DOMAIN mailOutcome, mailOutcome[m] = "failed"
                 PROVE  (\E p \in Mail!Providers : mailTried'[m][p] = MailMaxRetries) /\ m # t + 1
      OBVIOUS
    <2>1. m \in 1..t
      BY <1>4 DEF MailInv, MailTyped
    <2>2. \E p \in Mail!Providers : mailTried[m][p] = MailMaxRetries
      BY DEF MailInv
    <2> HIDE DEF t
    <2> QED BY <1>4, <1>9, <2>1, <2>2
  <1>15. mailQueue' = [k \in 1..Len(mailQueue') |-> mailAccepted' - Len(mailQueue') + k] /\ Len(mailTried') + Len(mailQueue') = mailAccepted'
    <2> HIDE DEF n, a, t
    <2>1. mailAccepted' = a
      BY <1>1 DEF a
    <2>2. (t + 1) + (n - 1) = a
      BY <1>2, <1>3, <1>4
    <2> QED BY <2>1, <2>2, <1>6, <1>7, <1>9
  <1> HIDE DEF t, n, a
  <1> QED BY <1>1, <1>4, <1>9, <1>10, <1>11, <1>12, <1>13, <1>14, <1>15 DEF MailInv

\* The mail at the worker after one more attempt.
LEMMA MailAttempted ==
    ASSUME MailInv, mailCurrent # None,
           mailTried' = [mailTried EXCEPT ![mailCurrent.mail][MailProviders[Mail!Min(mailCurrent.candidates)]] =
                            mailTried[mailCurrent.mail][MailProviders[Mail!Min(mailCurrent.candidates)]] + 1]
    PROVE  /\ mailCurrent \in MailWork /\ mailCurrent.mail = Len(mailTried) /\ Len(mailTried) \in Nat \ {0}
           /\ Mail!Min(mailCurrent.candidates) \in mailCurrent.candidates
           /\ mailTried' \in Seq([Mail!Providers -> MailCount]) /\ Len(mailTried') = Len(mailTried)
           /\ \A m \in DOMAIN mailTried : m # Len(mailTried) => mailTried'[m] = mailTried[m]
           /\ \A k \in MailPlaces :
                mailTried'[Len(mailTried)][MailProviders[k]] =
                    IF k = Mail!Min(mailCurrent.candidates) THEN mailCurrent.attempt
                    ELSE mailTried[Len(mailTried)][MailProviders[k]]
  <1> DEFINE c == mailCurrent
             first == Mail!Min(c.candidates)
             t == Len(mailTried)
             f == mailTried[t]
             S == [Mail!Providers -> MailCount]
             g == [f EXCEPT ![MailProviders[first]] = c.attempt]
  <1>1. /\ c \in MailWork /\ c.mail = t /\ c.candidates # {} /\ MailTriedBy(f, c, mailSkipped)
        /\ mailTried \in Seq(S) /\ mailOutcome \in Seq(Mail!Providers \cup {"failed"}) /\ Len(mailOutcome) + 1 = t
    BY DEF MailInv, MailTyped
  <1>2. t \in Nat \ {0}
    <2> DEFINE o == Len(mailOutcome)
    <2>1. o \in Nat /\ o + 1 = t /\ t \in Nat
      BY <1>1
    <2> QED BY <2>1
  <1>3. c.candidates \subseteq MailPlaces /\ c.attempt \in 1..MailMaxRetries
    BY <1>1 DEF MailWork
  <1>4. first \in c.candidates /\ first \in MailPlaces
    BY <1>1, <1>3, MailFirst
  <1>5. f \in S /\ t \in DOMAIN mailTried
    <2> HIDE DEF S
    <2> QED BY <1>1, <1>2
  <1>6. f[MailProviders[first]] + 1 = c.attempt
    <2>1. f[MailProviders[first]] = c.attempt - 1
      BY <1>1, <1>4 DEF MailTriedBy
    <2> QED BY <2>1, <1>3, DeliveryAssumption
  <1>7. mailTried' = [mailTried EXCEPT ![t] = g]
    <2>1. mailTried' = [mailTried EXCEPT ![t] = [mailTried[t] EXCEPT ![MailProviders[first]] = mailTried[t][MailProviders[first]] + 1]]
      BY <1>1
    <2> QED BY <2>1, <1>6
  <1>8. g \in S
    BY <1>3, <1>4, <1>5, MailPlace, DeliveryAssumption DEF MailCount
  <1>9. \A k \in MailPlaces : g[MailProviders[k]] = IF k = first THEN c.attempt ELSE f[MailProviders[k]]
    BY <1>4, <1>5, MailPlace
  <1> HIDE DEF g
  <1>10. /\ mailTried' \in Seq(S) /\ Len(mailTried') = t /\ mailTried'[t] = g
         /\ \A m \in DOMAIN mailTried : m # t => mailTried'[m] = mailTried[m]
    <2> HIDE DEF S, c, f, first
    <2>1. mailTried \in Seq(S) /\ t \in DOMAIN mailTried /\ g \in S /\ Len(mailTried) = t
      BY <1>1, <1>5, <1>8
    <2> HIDE DEF t
    <2>2. mailTried' \in Seq(S) /\ Len(mailTried') = Len(mailTried)
      <3> DEFINE next == [mailTried EXCEPT ![t] = g]
      <3>1. next \in Seq(S) /\ Len(next) = Len(mailTried)
        BY <2>1
      <3> QED BY <3>1, <1>7
    <2>3. mailTried'[t] = g /\ \A m \in DOMAIN mailTried : m # t => mailTried'[m] = mailTried[m]
      BY <2>1, <1>7
    <2> QED BY <2>1, <2>2, <2>3
  <1> QED BY <1>1, <1>2, <1>4, <1>9, <1>10

LEMMA MailDispatchInv == ASSUME MailInv, NEW ok \in BOOLEAN, Mail!dispatch(ok) PROVE MailInv'
  <1> DEFINE c == mailCurrent
             first == Mail!Min(c.candidates)
             p == MailProviders[first]
             t == Len(mailTried)
             f == mailTried[t]
             g == mailTried'[t]
             rest == Mail!Remaining(c)
  <1>1. /\ c # None
        /\ mailTried' = [mailTried EXCEPT ![c.mail][p] = mailTried[c.mail][p] + 1]
        /\ \/ /\ ok
              /\ mailOutcome' = Append(mailOutcome, p) /\ mailCurrent' = None
           \/ /\ ~ok /\ c.attempt < MailMaxRetries
              /\ mailCurrent' = [c EXCEPT !.attempt = c.attempt + 1] /\ UNCHANGED mailOutcome
           \/ /\ ~ok /\ c.attempt = MailMaxRetries /\ rest # {}
              /\ mailCurrent' = [c EXCEPT !.candidates = rest, !.attempt = 1] /\ UNCHANGED mailOutcome
           \/ /\ ~ok /\ c.attempt = MailMaxRetries /\ rest = {}
              /\ mailOutcome' = Append(mailOutcome, "failed") /\ mailCurrent' = None
        /\ UNCHANGED <<mailQueue, mailAccepted, mailSkipped>>
    BY DEF Mail!dispatch
  <1>2. /\ c \in MailWork /\ c.mail = t /\ t \in Nat \ {0} /\ first \in c.candidates
        /\ mailTried' \in Seq([Mail!Providers -> MailCount]) /\ Len(mailTried') = t
        /\ \A m \in DOMAIN mailTried : m # t => mailTried'[m] = mailTried[m]
        /\ \A k \in MailPlaces : g[MailProviders[k]] = IF k = first THEN c.attempt ELSE f[MailProviders[k]]
    BY <1>1, MailAttempted
  <1>3. /\ c.candidates \subseteq MailPlaces /\ c.attempt \in 1..MailMaxRetries /\ c.candidates # {}
        /\ MailTriedBy(f, c, mailSkipped) /\ Len(mailOutcome) + 1 = t
        /\ mailOutcome \in Seq(Mail!Providers \cup {"failed"})
    BY <1>1, <1>2 DEF MailInv, MailTyped, MailWork
  <1>4. rest = c.candidates \ {first}
    BY DEF Mail!Remaining
  <1>5. /\ mailQueue' \in Seq(Nat) /\ mailAccepted' \in Nat
        /\ mailQueue' = [k \in 1..Len(mailQueue') |-> mailAccepted' - Len(mailQueue') + k]
        /\ Len(mailTried') + Len(mailQueue') = mailAccepted'
    BY <1>1, <1>2 DEF MailInv, MailTyped
  <1>6. \A m \in DOMAIN mailOutcome : mailOutcome[m] = "failed" =>
            /\ \E q \in Mail!Providers : mailTried'[m][q] = MailMaxRetries
            /\ m # t
    <2> SUFFICES ASSUME NEW m \in DOMAIN mailOutcome, mailOutcome[m] = "failed"
                 PROVE  (\E q \in Mail!Providers : mailTried'[m][q] = MailMaxRetries) /\ m # t
      OBVIOUS
    <2>1. m \in DOMAIN mailTried /\ m # t
      <3> DEFINE o == Len(mailOutcome)
      <3>1. o \in Nat /\ m \in 1..o /\ o + 1 = t
        BY <1>3
      <3>2. DOMAIN mailTried = 1..t
        BY DEF MailInv, MailTyped
      <3> HIDE DEF o, t
      <3> QED BY <1>2, <3>1, <3>2
    <2>2. \E q \in Mail!Providers : mailTried[m][q] = MailMaxRetries
      BY DEF MailInv
    <2> QED BY <1>2, <2>1, <2>2
  <1> HIDE DEF first, rest, f, g
  <1>7. CASE mailCurrent' # None /\ mailCurrent' \in MailWork /\ mailCurrent'.mail = t /\ mailCurrent'.candidates # {}
             /\ MailTriedBy(g, mailCurrent', mailSkipped) /\ UNCHANGED mailOutcome
    <2>1. MailTyped'
      BY <1>2, <1>3, <1>5, <1>7 DEF MailTyped
    <2>2. mailTried'[Len(mailTried')] = g
      BY <1>2 DEF g
    <2>3. mailSkipped' = mailSkipped /\ Len(mailOutcome') + 1 = Len(mailTried')
      <3>1. mailSkipped' = mailSkipped /\ mailOutcome' = mailOutcome
        BY <1>1, <1>7
      <3> QED BY <1>2, <1>3, <3>1
    <2>4. mailCurrent'.mail = Len(mailTried') /\ MailTriedBy(mailTried'[Len(mailTried')], mailCurrent', mailSkipped')
      BY <1>2, <1>7, <2>2, <2>3
    <2>5. \A m \in DOMAIN mailOutcome' : mailOutcome'[m] = "failed" =>
            /\ \E q \in Mail!Providers : mailTried'[m][q] = MailMaxRetries
            /\ m = Len(mailTried') => MailFails(mailTried'[m], mailSkipped')
      BY <1>2, <1>6, <1>7
    <2> QED BY <1>5, <1>7, <2>1, <2>3, <2>4, <2>5 DEF MailInv
  <1>8. ASSUME NEW o \in Mail!Providers \cup {"failed"}, mailOutcome' = Append(mailOutcome, o), mailCurrent' = None,
               o = "failed" => (\E q \in Mail!Providers : g[q] = MailMaxRetries) /\ MailFails(g, mailSkipped)
        PROVE  MailInv'
    <2>1. /\ mailOutcome' \in Seq(Mail!Providers \cup {"failed"}) /\ Len(mailOutcome') = t
          /\ DOMAIN mailOutcome' = DOMAIN mailOutcome \cup {t} /\ mailOutcome'[t] = o
          /\ \A m \in DOMAIN mailOutcome : mailOutcome'[m] = mailOutcome[m]
      <3> DEFINE S == Mail!Providers \cup {"failed"}
      <3>1. mailOutcome \in Seq(S) /\ o \in S
        BY <1>3, <1>8
      <3> HIDE DEF S
      <3> QED BY <1>2, <1>3, <1>8, <3>1 DEF S
    <2>2. MailTyped'
      BY <1>2, <1>5, <1>8, <2>1 DEF MailTyped
    <2>3. \A m \in DOMAIN mailOutcome' : mailOutcome'[m] = "failed" =>
            /\ \E q \in Mail!Providers : mailTried'[m][q] = MailMaxRetries
            /\ m = Len(mailTried') => MailFails(mailTried'[m], mailSkipped')
      <3> SUFFICES ASSUME NEW m \in DOMAIN mailOutcome', mailOutcome'[m] = "failed"
                   PROVE  /\ \E q \in Mail!Providers : mailTried'[m][q] = MailMaxRetries
                          /\ m = Len(mailTried') => MailFails(mailTried'[m], mailSkipped')
        OBVIOUS
      <3>1. CASE m \in DOMAIN mailOutcome
        BY <3>1, <1>2, <1>6, <2>1
      <3>2. CASE m = t
        BY <3>2, <1>1, <1>2, <1>8, <2>1 DEF g
      <3> QED BY <3>1, <3>2, <2>1
    <2> QED BY <1>2, <1>5, <1>8, <2>1, <2>2, <2>3 DEF MailInv
  <1>9. CASE ok /\ mailOutcome' = Append(mailOutcome, p) /\ mailCurrent' = None
    <2>1. p \in Mail!Providers /\ p # "failed"
      BY <1>2, <1>3, MailPlace
    <2> HIDE DEF p
    <2> QED BY <1>8, <1>9, <2>1
  <1>10. CASE c.attempt < MailMaxRetries /\ mailCurrent' = [c EXCEPT !.attempt = c.attempt + 1] /\ UNCHANGED mailOutcome
    <2> DEFINE d == mailCurrent'
               n == c.attempt + 1
    <2>1. n \in 1..MailMaxRetries /\ n \in Nat /\ n - 1 = c.attempt
      BY <1>3, <1>10, DeliveryAssumption
    <2>2. d = [c EXCEPT !.attempt = n]
      BY <1>10
    <2> HIDE DEF n
    <2>3. d \in MailWork /\ d.mail = t /\ d.candidates = c.candidates /\ d.attempt = n
      BY <1>2, <2>1, <2>2 DEF MailWork
    <2>4. d # None
      BY <2>1, <2>3, DeliveryAssumption DEF MailWork, MailPlaces
    <2>5. MailTriedBy(g, d, mailSkipped)
      BY <1>2, <1>3, <2>1, <2>3 DEF MailTriedBy, first
    <2> QED BY <1>3, <1>7, <1>10, <2>3, <2>4, <2>5
  <1>11. CASE c.attempt = MailMaxRetries /\ rest # {} /\ mailCurrent' = [c EXCEPT !.candidates = rest, !.attempt = 1] /\ UNCHANGED mailOutcome
    <2> DEFINE d == mailCurrent'
    <2>1. rest \subseteq MailPlaces /\ 1 \in 1..MailMaxRetries
      BY <1>3, <1>4, DeliveryAssumption
    <2>2. d \in MailWork /\ d.mail = t /\ d.candidates = rest /\ d.attempt = 1
      BY <1>2, <1>11, <2>1 DEF MailWork
    <2>3. d # None
      BY <2>2, DeliveryAssumption DEF MailWork, MailPlaces
    <2>4. d.attempt - 1 = 0
      BY <2>2
    <2>5. MailTriedBy(g, d, mailSkipped)
      <3> SUFFICES ASSUME NEW k \in MailPlaces
                   PROVE  /\ k \notin d.candidates =>
                              g[MailProviders[k]] = IF MailProviders[k] \in mailSkipped THEN 0 ELSE MailMaxRetries
                          /\ k \in d.candidates =>
                              /\ MailProviders[k] \notin mailSkipped
                              /\ g[MailProviders[k]] = IF k = Mail!Min(d.candidates) THEN d.attempt - 1 ELSE 0
        BY DEF MailTriedBy
      <3>1. /\ k \notin c.candidates => f[MailProviders[k]] = IF MailProviders[k] \in mailSkipped THEN 0 ELSE MailMaxRetries
            /\ k \in c.candidates => MailProviders[k] \notin mailSkipped /\ (k # first => f[MailProviders[k]] = 0)
        BY <1>3 DEF MailTriedBy, first
      <3>2. g[MailProviders[k]] = IF k = first THEN MailMaxRetries ELSE f[MailProviders[k]]
        BY <1>2, <1>11
      <3>3. k \in d.candidates <=> k \in c.candidates /\ k # first
        BY <2>2, <1>4
      <3> QED BY <3>1, <3>2, <3>3, <2>4, <1>2
    <2> QED BY <1>7, <1>11, <2>2, <2>3, <2>5
  <1>12. CASE c.attempt = MailMaxRetries /\ rest = {} /\ mailOutcome' = Append(mailOutcome, "failed") /\ mailCurrent' = None
    <2>1. c.candidates = {first}
      BY <1>2, <1>4, <1>12
    <2>2. MailFails(g, mailSkipped)
      <3> SUFFICES ASSUME NEW k \in MailPlaces
                   PROVE  g[MailProviders[k]] = IF MailProviders[k] \in mailSkipped THEN 0 ELSE MailMaxRetries
        BY DEF MailFails
      <3>1. k # first => f[MailProviders[k]] = IF MailProviders[k] \in mailSkipped THEN 0 ELSE MailMaxRetries
        BY <1>3, <2>1 DEF MailTriedBy
      <3>2. k = first => MailProviders[k] \notin mailSkipped
        BY <1>3, <2>1 DEF MailTriedBy
      <3> QED BY <1>2, <1>12, <3>1, <3>2
    <2>3. g[MailProviders[first]] = MailMaxRetries /\ MailProviders[first] \in Mail!Providers
      BY <1>2, <1>3, <1>12, MailPlace
    <2> QED BY <1>8, <1>12, <2>2, <2>3
  <1> QED BY <1>1, <1>9, <1>10, <1>11, <1>12

LEMMA MailNextInv == MailInv /\ [Mail!Next]_(Mail!vars) => MailInv'
  <1> SUFFICES ASSUME MailInv, [Mail!Next]_(Mail!vars) PROVE MailInv'
    OBVIOUS
  <1>1. ASSUME UNCHANGED <<mailQueue, mailCurrent, mailAccepted, mailOutcome, mailTried, mailSkipped>> PROVE MailInv'
    BY <1>1 DEF MailInv, MailTyped
  <1>2. CASE UNCHANGED Mail!vars \/ \E p \in Mail!Providers : Mail!Reset(p) \/ \E ok \in BOOLEAN : Mail!CheckHealth(p, ok)
    BY <1>1, <1>2 DEF Mail!vars, Mail!Reset, Mail!CheckHealth
  <1>3. CASE Mail!queueEmail \/ Mail!worker \/ \E ok \in BOOLEAN : Mail!dispatch(ok)
    BY <1>3, MailQueueInv, MailWorkerInv, MailDispatchInv
  <1> QED BY <1>2, <1>3 DEF Mail!Next

LEMMA MailInvInit == Mail!Init => MailInv
  <1> SUFFICES ASSUME Mail!Init PROVE MailInv
    OBVIOUS
  <1>1. /\ mailQueue = <<>> /\ mailCurrent = None /\ mailAccepted = 0 /\ mailOutcome = <<>> /\ mailTried = <<>>
    BY DEF Mail!Init
  <1>2. /\ mailQueue \in Seq(Nat) /\ mailOutcome \in Seq(Mail!Providers \cup {"failed"})
        /\ mailTried \in Seq([Mail!Providers -> MailCount])
        /\ Len(mailQueue) = 0 /\ Len(mailOutcome) = 0 /\ Len(mailTried) = 0 /\ DOMAIN mailOutcome = {}
    BY <1>1
  <1>3. mailQueue = [k \in 1..Len(mailQueue) |-> mailAccepted - Len(mailQueue) + k]
    <2>1. 1..Len(mailQueue) = {} /\ DOMAIN mailQueue = {}
      BY <1>1, <1>2
    <2> QED BY <1>1, <2>1
  <1> QED BY <1>1, <1>2, <1>3 DEF MailInv, MailTyped

LEMMA MailInvMeans == MailInv => Mail!MailIsAccountedFor
  <1> SUFFICES ASSUME MailInv PROVE Mail!MailIsAccountedFor
    OBVIOUS
  <1>1. mailQueue = [k \in 1..Len(mailQueue) |-> mailAccepted - Len(mailQueue) + k]
    BY DEF MailInv
  <1>2. Len(mailOutcome) + (IF mailCurrent = None THEN 0 ELSE 1) + Len(mailQueue) = mailAccepted
    <2> DEFINE o == Len(mailOutcome)
               t == Len(mailTried)
               n == Len(mailQueue)
    <2>1. /\ o \in Nat /\ t \in Nat /\ n \in Nat /\ t + n = mailAccepted
          /\ mailCurrent = None => o = t
          /\ mailCurrent # None => o + 1 = t
      BY DEF MailInv, MailTyped
    <2> HIDE DEF o, t, n
    <2>2. o + (IF mailCurrent = None THEN 0 ELSE 1) = t
      BY <2>1
    <2>3. o + (IF mailCurrent = None THEN 0 ELSE 1) + n = mailAccepted
      BY <2>1, <2>2
    <2> QED BY <2>3 DEF o, n
  <1>3. ASSUME NEW m \in DOMAIN mailOutcome
        PROVE  /\ \A p \in Mail!Providers : mailTried[m][p] <= MailMaxRetries
               /\ mailOutcome[m] = "failed" => \E p \in Mail!Providers : mailTried[m][p] = MailMaxRetries
               /\ mailOutcome[m] = "failed" /\ m = Len(mailTried) =>
                    \A p \in Mail!Providers : mailTried[m][p] = IF p \in mailSkipped THEN 0 ELSE MailMaxRetries
    <2>1. m \in DOMAIN mailTried /\ mailTried \in Seq([Mail!Providers -> MailCount])
      <3> DEFINE o == Len(mailOutcome)
                 t == Len(mailTried)
      <3>1. o \in Nat /\ t \in Nat /\ m \in 1..o /\ (o = t \/ o + 1 = t) /\ DOMAIN mailTried = 1..t
        BY DEF MailInv, MailTyped
      <3> HIDE DEF o, t
      <3>2. m \in 1..t
        BY <3>1
      <3> QED BY <3>1, <3>2 DEF MailInv, MailTyped
    <2>2. mailTried[m] \in [Mail!Providers -> MailCount]
      <3> DEFINE S == [Mail!Providers -> MailCount]
      <3> HIDE DEF S
      <3>1. mailTried[m] \in S
        BY <2>1 DEF S
      <3> QED BY <3>1 DEF S
    <2>3. \A p \in Mail!Providers : mailTried[m][p] <= MailMaxRetries
      BY <2>2, DeliveryAssumption DEF MailCount
    <2>4. mailOutcome[m] = "failed" =>
            /\ \E p \in Mail!Providers : mailTried[m][p] = MailMaxRetries
            /\ m = Len(mailTried) => MailFails(mailTried[m], mailSkipped)
      BY DEF MailInv
    <2>5. MailFails(mailTried[m], mailSkipped) =>
            \A p \in Mail!Providers : mailTried[m][p] = IF p \in mailSkipped THEN 0 ELSE MailMaxRetries
      BY MailPlace DEF MailFails
    <2> QED BY <2>3, <2>4, <2>5
  <1> QED BY <1>1, <1>2, <1>3 DEF Mail!MailIsAccountedFor

-----------------------------------------------------------------------------
(* Mail events                                                             *)

EvStamps == {"sent", "delivered", "bounced", "opened", "clicked"}

EvRow == [message : MailMessages \cup {None}, recipient : MailRecipients, status : EvStamps,
          stamps : SUBSET EvStamps]

EvReq == [pc : {"save", "suppress", "create", "done"}, kind : Mail!Kinds, message : MailMessages \cup {None},
          to : MailRecipients, at : Nat, row : EvRow \cup {None}]

EvTyped ==
    /\ mailRows \in Seq(EvRow) /\ mailReqs = [r \in MailReqs |-> mailReqs[r]]
    /\ mailRecorded \subseteq EvStamps \X DOMAIN mailRows
    /\ \A r \in MailReqs : mailReqs[r] = Mail!New \/ mailReqs[r] \in EvReq
    /\ \A r \in MailReqs : mailReqs[r].pc = "save" /\ mailReqs[r].at # 0 =>
        mailReqs[r].at \in DOMAIN mailRows /\ mailReqs[r].row \in EvRow

\* A row that says no more than the events saved for it, and nothing less.
EvSays(row, i, recorded) ==
    row.status \in row.stamps /\ \A s \in row.stamps \ {"sent"} : <<s, i>> \in recorded

EvTells(row, i, recorded) == \A s \in EvStamps : <<s, i>> \in recorded => s \in row.stamps

EvInv ==
    /\ EvTyped
    /\ \A i \in DOMAIN mailRows :
        /\ EvSays(mailRows[i], i, mailRecorded)
        /\ i \notin mailRaced => EvTells(mailRows[i], i, mailRecorded)
    /\ \A r \in MailReqs :
        /\ mailReqs[r].pc = "save" /\ mailReqs[r].at # 0 => EvSays(mailReqs[r].row, mailReqs[r].at, mailRecorded)
        /\ mailReqs[r].pc = "done" /\ mailReqs[r].kind = "hard" => mailReqs[r].to \in mailSuppressed

LEMMA EvRead ==
    ASSUME EvTyped
    PROVE  /\ Len(mailRows) \in Nat /\ DOMAIN mailRows = 1..Len(mailRows)
           /\ \A i \in DOMAIN mailRows : mailRows[i] \in EvRow
  <1> DEFINE S == EvRow
  <1>1. mailRows \in Seq(S)
    BY DEF EvTyped
  <1> HIDE DEF S
  <1>2. Len(mailRows) \in Nat /\ DOMAIN mailRows = 1..Len(mailRows) /\ \A i \in DOMAIN mailRows : mailRows[i] \in S
    BY <1>1
  <1> QED BY <1>2 DEF S

LEMMA EvFound == ASSUME EvTyped, NEW m, NEW to PROVE Mail!Find(m, to) \in DOMAIN mailRows \cup {0}
  <1> DEFINE hits == {i \in DOMAIN mailRows : IF m # None THEN mailRows[i].message = m ELSE mailRows[i].recipient = to}
             n == Len(mailRows)
  <1>1. n \in Nat /\ DOMAIN mailRows = 1..n
    BY EvRead
  <1>2. Mail!Find(m, to) = IF hits = {} THEN 0 ELSE IF m # None THEN Mail!Min(hits) ELSE Mail!Max(hits)
    BY DEF Mail!Find
  <1>3. hits \subseteq DOMAIN mailRows
    OBVIOUS
  <1> HIDE DEF hits, n
  <1>4. hits \in SUBSET (0..n)
    BY <1>1, <1>3
  <1>5. ASSUME hits # {} PROVE Mail!Min(hits) \in hits /\ Mail!Max(hits) \in hits
    <2>1. PICK k \in hits : \A j \in hits : k <= j
      BY <1>1, <1>4, <1>5, LeastNumber
    <2>2. PICK g \in hits : \A j \in hits : j <= g
      BY <1>1, <1>4, <1>5, GreatestNumber
    <2>3. \A i, j \in hits : i <= j <=> j >= i
      BY <1>4
    <2> QED BY <2>1, <2>2, <2>3 DEF Mail!Min, Mail!Max
  <1> QED BY <1>2, <1>3, <1>5

LEMMA EvStampIn == ASSUME NEW kind \in Mail!Kinds PROVE Mail!StampOf(kind) \in EvStamps
  BY DEF Mail!Kinds, Mail!StampOf, EvStamps

\* A new row and its own event, if it has one.
LEMMA EvAppended ==
    ASSUME EvInv, NEW row \in EvRow,
           mailRows' = Append(mailRows, row), EvSays(row, Len(mailRows) + 1, mailRecorded'),
           \/ mailRecorded' = mailRecorded
           \/ \E s \in row.stamps : mailRecorded' = mailRecorded \cup {<<s, Len(mailRows) + 1>>},
           UNCHANGED mailRaced
    PROVE  /\ mailRows' \in Seq(EvRow) /\ DOMAIN mailRows \subseteq DOMAIN mailRows'
           /\ mailRecorded' \subseteq EvStamps \X DOMAIN mailRows' /\ mailRecorded \subseteq mailRecorded'
           /\ \A i \in DOMAIN mailRows' :
                /\ EvSays(mailRows'[i], i, mailRecorded')
                /\ i \notin mailRaced' => EvTells(mailRows'[i], i, mailRecorded')
  <1> DEFINE n == Len(mailRows)
             new == n + 1
  <1>1. EvTyped /\ n \in Nat /\ DOMAIN mailRows = 1..n
    BY EvRead DEF EvInv
  <1>2. /\ mailRows' \in Seq(EvRow) /\ DOMAIN mailRows' = DOMAIN mailRows \cup {new} /\ mailRows'[new] = row
        /\ \A i \in DOMAIN mailRows : mailRows'[i] = mailRows[i]
    <2> DEFINE S == EvRow
    <2>1. mailRows \in Seq(S) /\ row \in S
      BY <1>1 DEF EvTyped
    <2> HIDE DEF S
    <2> QED BY <2>1, <1>1 DEF S
  <1>3. new \notin DOMAIN mailRows
    BY <1>1
  <1>4. row.stamps \subseteq EvStamps
    BY DEF EvRow
  <1>5. mailRecorded \subseteq EvStamps \X DOMAIN mailRows
    BY <1>1 DEF EvTyped
  <1>6. /\ EvSays(row, new, mailRecorded')
        /\ \/ mailRecorded' = mailRecorded
           \/ \E s \in row.stamps : mailRecorded' = mailRecorded \cup {<<s, new>>}
    OBVIOUS
  <1> HIDE DEF new
  <1>7. mailRecorded' \subseteq EvStamps \X DOMAIN mailRows' /\ mailRecorded \subseteq mailRecorded'
    BY <1>2, <1>4, <1>5, <1>6
  <1>8. ASSUME NEW s, NEW i PROVE <<s, i>> \in mailRecorded' => <<s, i>> \in mailRecorded \/ (i = new /\ s \in row.stamps)
    BY <1>6
  <1>9. ASSUME NEW i \in DOMAIN mailRows
        PROVE  /\ EvSays(mailRows'[i], i, mailRecorded')
               /\ i \notin mailRaced' => EvTells(mailRows'[i], i, mailRecorded')
    <2>1. EvSays(mailRows[i], i, mailRecorded) /\ (i \notin mailRaced => EvTells(mailRows[i], i, mailRecorded))
      BY DEF EvInv
    <2>2. mailRows'[i] = mailRows[i] /\ i # new
      BY <1>2, <1>3
    <2>3. \A s : <<s, i>> \in mailRecorded' <=> <<s, i>> \in mailRecorded
      BY <1>7, <1>8, <2>2
    <2> QED BY <2>1, <2>2, <2>3 DEF EvSays, EvTells
  <1>10. EvSays(mailRows'[new], new, mailRecorded') /\ EvTells(mailRows'[new], new, mailRecorded')
    <2>1. \A s : <<s, new>> \in mailRecorded' => s \in row.stamps
      BY <1>3, <1>5, <1>8
    <2> QED BY <1>2, <1>6, <2>1 DEF EvTells
  <1> QED BY <1>2, <1>7, <1>9, <1>10

LEMMA EvSentInv == ASSUME EvInv, NEW m \in MailMessages, NEW to \in MailRecipients, Mail!RecordSent(m, to) PROVE EvInv'
  <1> DEFINE row == [message |-> m, recipient |-> to, status |-> "sent", stamps |-> {"sent"}]
  <1>1. mailRows' = Append(mailRows, row) /\ UNCHANGED <<mailSuppressed, mailReqs, mailRecorded, mailRaced>>
    BY DEF Mail!RecordSent
  <1>2. row \in EvRow /\ row.status = "sent" /\ row.stamps = {"sent"}
    BY DEF EvRow, EvStamps
  <1> HIDE DEF row
  <1>3. EvSays(row, Len(mailRows) + 1, mailRecorded')
    BY <1>2 DEF EvSays
  <1>4. /\ mailRows' \in Seq(EvRow) /\ DOMAIN mailRows \subseteq DOMAIN mailRows'
        /\ mailRecorded' \subseteq EvStamps \X DOMAIN mailRows'
        /\ \A i \in DOMAIN mailRows' :
             /\ EvSays(mailRows'[i], i, mailRecorded')
             /\ i \notin mailRaced' => EvTells(mailRows'[i], i, mailRecorded')
    BY <1>1, <1>2, <1>3, EvAppended
  <1>5. EvTyped'
    BY <1>1, <1>4 DEF EvInv, EvTyped
  <1> QED BY <1>1, <1>4, <1>5 DEF EvInv

\* A step that moves one request and leaves the rows alone.
LEMMA EvMoved ==
    ASSUME EvInv, NEW r \in MailReqs, NEW q \in EvReq, mailReqs' = [mailReqs EXCEPT ![r] = q],
           q.pc = "save" /\ q.at # 0 =>
               q.at \in DOMAIN mailRows /\ q.row \in EvRow /\ EvSays(q.row, q.at, mailRecorded),
           q.pc = "done" /\ q.kind = "hard" => q.to \in mailSuppressed',
           mailSuppressed \subseteq mailSuppressed',
           UNCHANGED <<mailRows, mailRecorded, mailRaced>>
    PROVE  EvInv'
  <1>1. EvTyped
    BY DEF EvInv
  <1>2. /\ mailReqs' = [s \in MailReqs |-> mailReqs'[s]]
        /\ mailReqs'[r] = q /\ \A s \in MailReqs : s # r => mailReqs'[s] = mailReqs[s]
    BY <1>1 DEF EvTyped
  <1>3. ASSUME NEW s \in MailReqs
        PROVE  /\ mailReqs'[s] = Mail!New \/ mailReqs'[s] \in EvReq
               /\ mailReqs'[s].pc = "save" /\ mailReqs'[s].at # 0 =>
                    /\ mailReqs'[s].at \in DOMAIN mailRows' /\ mailReqs'[s].row \in EvRow
                    /\ EvSays(mailReqs'[s].row, mailReqs'[s].at, mailRecorded')
               /\ mailReqs'[s].pc = "done" /\ mailReqs'[s].kind = "hard" => mailReqs'[s].to \in mailSuppressed'
    <2>1. CASE s = r
      BY <2>1, <1>2
    <2>2. CASE s # r
      BY <2>2, <1>2 DEF EvInv, EvTyped
    <2> QED BY <2>1, <2>2
  <1>4. EvTyped'
    BY <1>1, <1>2, <1>3 DEF EvTyped
  <1> QED BY <1>3, <1>4 DEF EvInv

LEMMA EvReadInv ==
    ASSUME EvInv, NEW r \in MailReqs, NEW kind \in Mail!Kinds, NEW m \in MailMessages \cup {None},
           NEW to \in MailRecipients, Mail!Read(r, kind, m, to)
    PROVE  EvInv'
  <1> DEFINE i == Mail!Find(m, to)
             row == IF i = 0 THEN None ELSE mailRows[i]
             q == [pc |-> "save", kind |-> kind, message |-> m, to |-> to, at |-> i, row |-> row]
  <1>1. mailReqs' = [mailReqs EXCEPT ![r] = q] /\ UNCHANGED <<mailRows, mailSuppressed, mailRecorded, mailRaced>>
    BY DEF Mail!Read
  <1>2. EvTyped /\ i \in DOMAIN mailRows \cup {0}
    BY EvFound DEF EvInv
  <1> HIDE DEF i
  <1>3. i \in Nat /\ row \in EvRow \cup {None} /\ (i # 0 => row \in EvRow /\ EvSays(row, i, mailRecorded))
    <2>1. DOMAIN mailRows \subseteq Nat /\ \A j \in DOMAIN mailRows : mailRows[j] \in EvRow /\ EvSays(mailRows[j], j, mailRecorded)
      BY <1>2, EvRead DEF EvInv
    <2> QED BY <1>2, <2>1
  <1> HIDE DEF row
  <1>4. q \in EvReq /\ q.pc = "save" /\ q.at = i /\ q.row = row
    BY <1>3 DEF EvReq
  <1> HIDE DEF q
  <1>5. q.pc = "save" /\ q.at # 0 => q.at \in DOMAIN mailRows /\ q.row \in EvRow /\ EvSays(q.row, q.at, mailRecorded)
    BY <1>2, <1>3, <1>4
  <1>6. ~(q.pc = "done" /\ q.kind = "hard") /\ mailSuppressed \subseteq mailSuppressed'
    BY <1>1, <1>4
  <1> QED BY <1>1, <1>4, <1>5, <1>6, EvMoved

\* A request that has saved its event.
LEMMA EvSaved ==
    ASSUME EvInv, NEW r \in MailReqs, NEW q \in EvReq, mailReqs' = [mailReqs EXCEPT ![r] = q],
           q.pc # "save", ~(q.pc = "done" /\ q.kind = "hard"), UNCHANGED mailSuppressed,
           mailRows' \in Seq(EvRow), DOMAIN mailRows \subseteq DOMAIN mailRows',
           mailRecorded' \subseteq EvStamps \X DOMAIN mailRows', mailRecorded \subseteq mailRecorded',
           \A i \in DOMAIN mailRows' :
                /\ EvSays(mailRows'[i], i, mailRecorded')
                /\ i \notin mailRaced' => EvTells(mailRows'[i], i, mailRecorded')
    PROVE  EvInv'
  <1>1. EvTyped
    BY DEF EvInv
  <1>2. /\ mailReqs' = [s \in MailReqs |-> mailReqs'[s]]
        /\ mailReqs'[r] = q /\ \A s \in MailReqs : s # r => mailReqs'[s] = mailReqs[s]
    BY <1>1 DEF EvTyped
  <1>3. ASSUME NEW s \in MailReqs
        PROVE  /\ mailReqs'[s] = Mail!New \/ mailReqs'[s] \in EvReq
               /\ mailReqs'[s].pc = "save" /\ mailReqs'[s].at # 0 =>
                    /\ mailReqs'[s].at \in DOMAIN mailRows' /\ mailReqs'[s].row \in EvRow
                    /\ EvSays(mailReqs'[s].row, mailReqs'[s].at, mailRecorded')
               /\ mailReqs'[s].pc = "done" /\ mailReqs'[s].kind = "hard" => mailReqs'[s].to \in mailSuppressed'
    <2>1. CASE s = r
      BY <2>1, <1>2
    <2>2. CASE s # r
      <3>1. /\ mailReqs[s] = Mail!New \/ mailReqs[s] \in EvReq
            /\ mailReqs[s].pc = "save" /\ mailReqs[s].at # 0 =>
                 /\ mailReqs[s].at \in DOMAIN mailRows /\ mailReqs[s].row \in EvRow
                 /\ EvSays(mailReqs[s].row, mailReqs[s].at, mailRecorded)
            /\ mailReqs[s].pc = "done" /\ mailReqs[s].kind = "hard" => mailReqs[s].to \in mailSuppressed
        BY DEF EvInv, EvTyped
      <3>2. mailReqs'[s] = mailReqs[s]
        BY <2>2, <1>2
      <3>3. ASSUME NEW row, NEW i, EvSays(row, i, mailRecorded) PROVE EvSays(row, i, mailRecorded')
        BY <3>3 DEF EvSays
      <3> QED BY <3>1, <3>2, <3>3
    <2> QED BY <2>1, <2>2
  <1>4. EvTyped'
    BY <1>1, <1>2, <1>3 DEF EvTyped
  <1> QED BY <1>3, <1>4 DEF EvInv

\* A row that is stamped once more.
LEMMA EvStamped ==
    ASSUME NEW row \in EvRow, NEW kind \in Mail!Kinds, NEW i, NEW recorded, NEW after,
           after = recorded \cup {<<Mail!StampOf(kind), i>>}, EvSays(row, i, recorded)
    PROVE  /\ Mail!Stamped(row, kind) \in EvRow /\ EvSays(Mail!Stamped(row, kind), i, after)
           /\ EvTells(row, i, recorded) => EvTells(Mail!Stamped(row, kind), i, after)
  <1> DEFINE s == Mail!StampOf(kind)
             status == IF kind = "opened" /\ row.status = "clicked" THEN row.status ELSE s
             stamps == row.stamps \cup {s}
             new == Mail!Stamped(row, kind)
  <1>1. new = [row EXCEPT !.status = status, !.stamps = stamps]
    BY DEF Mail!Stamped
  <1>2. s \in EvStamps
    BY EvStampIn
  <1>3. after = recorded \cup {<<s, i>>}
    OBVIOUS
  <1> HIDE DEF s, new
  <1>4. /\ status \in EvStamps /\ stamps \in SUBSET EvStamps /\ status \in stamps
        /\ \A t \in stamps : t = s \/ t \in row.stamps
    BY <1>2 DEF EvRow, EvSays
  <1> HIDE DEF status
  <1>5. new \in EvRow /\ new.status = status /\ new.stamps = stamps
    <2> HIDE DEF stamps
    <2> QED BY <1>1, <1>4 DEF EvRow
  <1>6. EvSays(new, i, after)
    BY <1>3, <1>4, <1>5 DEF EvSays
  <1>7. EvTells(row, i, recorded) => EvTells(new, i, after)
    BY <1>3, <1>5 DEF EvTells
  <1> QED BY <1>5, <1>6, <1>7 DEF new

LEMMA EvSaveInv == ASSUME EvInv, NEW r \in MailReqs, Mail!Save(r) PROVE EvInv'
  <1> DEFINE old == mailReqs[r]
             q == IF Mail!Suppresses(old) THEN [old EXCEPT !.pc = "suppress"] ELSE [old EXCEPT !.pc = "done"]
             s == Mail!StampOf(old.kind)
             n == Len(mailRows)
             made == Mail!Created(old)
             i == old.at
             row == Mail!Stamped(old.row, old.kind)
  <1>1. /\ old.pc = "save" /\ mailReqs' = [mailReqs EXCEPT ![r] = q] /\ UNCHANGED mailSuppressed
        /\ \/ /\ i = 0 /\ mailRows' = Append(mailRows, made) /\ mailRecorded' = mailRecorded \cup {<<s, n + 1>>}
              /\ UNCHANGED mailRaced
           \/ /\ i # 0 /\ mailRows' = [mailRows EXCEPT ![i] = row] /\ mailRecorded' = mailRecorded \cup {<<s, i>>}
              /\ mailRaced' = mailRaced \cup (IF mailRows[i] = old.row THEN {} ELSE {i})
    BY DEF Mail!Save
  <1>2. EvTyped
    BY DEF EvInv
  <1>3. old \in EvReq
    BY <1>1, <1>2 DEF EvTyped, Mail!New
  <1>4. q \in EvReq /\ q.pc # "save" /\ ~(q.pc = "done" /\ q.kind = "hard")
    BY <1>3 DEF EvReq, Mail!Suppresses
  <1>5. s \in EvStamps /\ old.kind \in Mail!Kinds
    BY <1>3, EvStampIn DEF EvReq
  <1> HIDE DEF q
  <1>6. CASE i = 0 /\ mailRows' = Append(mailRows, made) /\ mailRecorded' = mailRecorded \cup {<<s, n + 1>>}
             /\ UNCHANGED mailRaced
    <2>1. made = [message |-> old.message, recipient |-> old.to, status |-> s, stamps |-> {s}]
      BY DEF Mail!Created
    <2> HIDE DEF s, made
    <2>2. made \in EvRow /\ made.status = s /\ made.stamps = {s}
      BY <2>1, <1>3, <1>5 DEF EvRow, EvReq
    <2>3. EvSays(made, n + 1, mailRecorded')
      BY <1>6, <2>2 DEF EvSays
    <2>4. \E t \in made.stamps : mailRecorded' = mailRecorded \cup {<<t, n + 1>>}
      BY <1>6, <2>2
    <2>5. /\ mailRows' \in Seq(EvRow) /\ DOMAIN mailRows \subseteq DOMAIN mailRows'
          /\ mailRecorded' \subseteq EvStamps \X DOMAIN mailRows' /\ mailRecorded \subseteq mailRecorded'
          /\ \A j \in DOMAIN mailRows' :
               /\ EvSays(mailRows'[j], j, mailRecorded')
               /\ j \notin mailRaced' => EvTells(mailRows'[j], j, mailRecorded')
      BY <1>6, <2>2, <2>3, <2>4, EvAppended
    <2> QED BY <1>1, <1>4, <2>5, EvSaved
  <1>7. CASE i # 0 /\ mailRows' = [mailRows EXCEPT ![i] = row] /\ mailRecorded' = mailRecorded \cup {<<s, i>>}
             /\ mailRaced' = mailRaced \cup (IF mailRows[i] = old.row THEN {} ELSE {i})
    <2>1. i \in DOMAIN mailRows /\ old.row \in EvRow /\ EvSays(old.row, i, mailRecorded)
      BY <1>1, <1>2, <1>7 DEF EvTyped, EvInv
    <2>2. row \in EvRow /\ EvSays(row, i, mailRecorded') /\ (EvTells(old.row, i, mailRecorded) => EvTells(row, i, mailRecorded'))
      BY <1>5, <1>7, <2>1, EvStamped
    <2> HIDE DEF row, s
    <2>3. /\ mailRows' \in Seq(EvRow) /\ DOMAIN mailRows' = DOMAIN mailRows /\ mailRows'[i] = row
          /\ \A j \in DOMAIN mailRows : j # i => mailRows'[j] = mailRows[j]
      <3> DEFINE S == EvRow
      <3>1. mailRows \in Seq(S) /\ row \in S
        BY <1>2, <2>2 DEF EvTyped
      <3> HIDE DEF S, i
      <3> QED BY <3>1, <2>1, <1>7 DEF S
    <2>4. mailRecorded' \subseteq EvStamps \X DOMAIN mailRows' /\ mailRecorded \subseteq mailRecorded'
      BY <1>2, <1>5, <1>7, <2>1, <2>3 DEF EvTyped
    <2>5. ASSUME NEW j \in DOMAIN mailRows'
          PROVE  /\ EvSays(mailRows'[j], j, mailRecorded')
                 /\ j \notin mailRaced' => EvTells(mailRows'[j], j, mailRecorded')
      <3>1. EvSays(mailRows[j], j, mailRecorded) /\ (j \notin mailRaced => EvTells(mailRows[j], j, mailRecorded))
        BY <2>3 DEF EvInv
      <3>2. CASE j = i
        <4>1. j \notin mailRaced' => j \notin mailRaced /\ mailRows[i] = old.row
          BY <1>7, <3>2
        <4> QED BY <2>2, <2>3, <3>1, <3>2, <4>1
      <3>3. CASE j # i
        <4>1. mailRows'[j] = mailRows[j] /\ (j \notin mailRaced' => j \notin mailRaced)
          BY <1>7, <2>3, <3>3
        <4>2. \A t : <<t, j>> \in mailRecorded' <=> <<t, j>> \in mailRecorded
          BY <1>7, <3>3
        <4> QED BY <3>1, <4>1, <4>2 DEF EvSays, EvTells
      <3> QED BY <3>2, <3>3
    <2>6. DOMAIN mailRows \subseteq DOMAIN mailRows'
      BY <2>3
    <2> QED BY <1>1, <1>4, <2>3, <2>4, <2>5, <2>6, EvSaved
  <1> QED BY <1>1, <1>6, <1>7

LEMMA EvSuppressInv ==
    ASSUME EvInv, NEW r \in MailReqs, Mail!SuppressRecipient(r) \/ Mail!CreateSuppression(r) PROVE EvInv'
  <1> DEFINE old == mailReqs[r]
  <1>1. EvTyped
    BY DEF EvInv
  <1>2. PICK pc \in {"create", "done"} :
            /\ old.pc \in {"suppress", "create"} /\ mailReqs' = [mailReqs EXCEPT ![r].pc = pc]
            /\ pc = "done" => old.to \in mailSuppressed'
            /\ mailSuppressed \subseteq mailSuppressed' /\ UNCHANGED <<mailRows, mailRecorded, mailRaced>>
    <2>1. CASE Mail!SuppressRecipient(r)
      <3> DEFINE next == IF old.to \in mailSuppressed THEN "done" ELSE "create"
      <3>1. /\ old.pc = "suppress" /\ mailReqs' = [mailReqs EXCEPT ![r].pc = next]
            /\ UNCHANGED <<mailRows, mailSuppressed, mailRecorded, mailRaced>>
        BY <2>1 DEF Mail!SuppressRecipient
      <3>2. next \in {"create", "done"} /\ (next = "done" => old.to \in mailSuppressed)
        OBVIOUS
      <3> HIDE DEF next
      <3> QED BY <3>1, <3>2
    <2>2. CASE Mail!CreateSuppression(r)
      <3>1. /\ old.pc = "create" /\ mailReqs' = [mailReqs EXCEPT ![r].pc = "done"]
            /\ mailSuppressed' = mailSuppressed \cup {old.to} /\ UNCHANGED <<mailRows, mailRecorded, mailRaced>>
        BY <2>2 DEF Mail!CreateSuppression
      <3> QED BY <3>1
    <2> QED BY <2>1, <2>2
  <1> DEFINE q == [old EXCEPT !.pc = pc]
  <1>3. old \in EvReq
    BY <1>1, <1>2 DEF EvTyped, Mail!New
  <1>4. q \in EvReq /\ q.pc = pc /\ q.to = old.to
    BY <1>2, <1>3 DEF EvReq
  <1>5. mailReqs' = [mailReqs EXCEPT ![r] = q]
    BY <1>2
  <1> HIDE DEF q
  <1>6. /\ ~(q.pc = "save" /\ q.at # 0)
        /\ q.pc = "done" /\ q.kind = "hard" => q.to \in mailSuppressed'
        /\ mailSuppressed \subseteq mailSuppressed' /\ UNCHANGED <<mailRows, mailRecorded, mailRaced>>
    BY <1>2, <1>4
  <1> QED BY <1>4, <1>5, <1>6, EvMoved

LEMMA EvNextInv == EvInv /\ [Mail!EventNext]_(Mail!eventVars) => EvInv'
  <1> SUFFICES ASSUME EvInv, [Mail!EventNext]_(Mail!eventVars) PROVE EvInv'
    OBVIOUS
  <1>1. CASE UNCHANGED Mail!eventVars
    BY <1>1 DEF Mail!eventVars, EvInv, EvTyped
  <1>2. CASE \E m \in MailMessages, to \in MailRecipients : Mail!RecordSent(m, to)
    BY <1>2, EvSentInv
  <1>3. CASE \E r \in MailReqs, k \in Mail!Kinds, m \in MailMessages \cup {None}, to \in MailRecipients : Mail!Read(r, k, m, to)
    BY <1>3, EvReadInv
  <1>4. CASE \E r \in MailReqs : Mail!Save(r) \/ Mail!SuppressRecipient(r) \/ Mail!CreateSuppression(r)
    BY <1>4, EvSaveInv, EvSuppressInv
  <1> QED BY <1>1, <1>2, <1>3, <1>4 DEF Mail!EventNext

LEMMA EvInvInit == Mail!EventInit => EvInv
  <1> SUFFICES ASSUME Mail!EventInit PROVE EvInv
    OBVIOUS
  <1>1. mailRows = <<>> /\ mailReqs = [r \in MailReqs |-> Mail!New] /\ mailRecorded = {}
    BY DEF Mail!EventInit
  <1>2. mailRows \in Seq(EvRow) /\ DOMAIN mailRows = {}
    BY <1>1
  <1> QED BY <1>1, <1>2 DEF EvInv, EvTyped, Mail!New

LEMMA EvInvMeans == EvInv => Mail!StampsTellEvents /\ Mail!HardBouncesSuppress
  <1> SUFFICES ASSUME EvInv PROVE Mail!StampsTellEvents /\ Mail!HardBouncesSuppress
    OBVIOUS
  <1> DEFINE n == Len(mailRows)
             With(T) == {i \in DOMAIN mailRows : mailRows[i].status \in T}
             Has(s) == {i \in DOMAIN mailRows : s \in mailRows[i].stamps}
             good == With({"delivered", "opened", "clicked"})
             bad == With({"bounced"})
             rows == DOMAIN mailRows
  <1>1. EvTyped /\ n \in Nat /\ DOMAIN mailRows = 1..n
    BY EvRead DEF EvInv
  <1>2. \A i \in DOMAIN mailRows :
            mailRows[i].status \in mailRows[i].stamps /\ \A s \in mailRows[i].stamps \ {"sent"} : <<s, i>> \in mailRecorded
    BY DEF EvInv, EvSays
  <1>3. ASSUME NEW e \in mailRecorded, e[2] \notin mailRaced PROVE e[1] \in mailRows[e[2]].stamps
    <2>1. PICK s \in EvStamps, i \in DOMAIN mailRows : e = <<s, i>>
      BY <1>1 DEF EvTyped
    <2>2. EvTells(mailRows[i], i, mailRecorded)
      BY <1>3, <2>1 DEF EvInv
    <2> QED BY <2>1, <2>2 DEF EvTells
  <1>4. /\ Mail!Summary.delivered = Cardinality(good) /\ Mail!Summary.bounced = Cardinality(bad) /\ Mail!Summary.sent = n
        /\ Mail!Summary.opened = Cardinality(Has("opened")) /\ Mail!Summary.clicked = Cardinality(Has("clicked"))
    BY MailCardinality DEF Mail!Summary
  <1>5. IsFiniteSet(rows) /\ Cardinality(rows) = n
    <2> HIDE DEF n
    <2>1. IsFiniteSet(1..n) /\ Cardinality(1..n) = IF 1 > n THEN 0 ELSE n - 1 + 1
      BY <1>1, FS_Interval
    <2> QED BY <1>1, <2>1
  <1>6. good \subseteq rows /\ bad \subseteq rows /\ good \cap bad = {} /\ Has("opened") \subseteq rows /\ Has("clicked") \subseteq rows
    OBVIOUS
  <1> HIDE DEF good, bad, rows, With, Has
  <1>7. Cardinality(good) + Cardinality(bad) <= n
    <2>1. IsFiniteSet(good) /\ IsFiniteSet(bad)
      BY <1>5, <1>6, FS_Subset
    <2>2. Cardinality(good \cup bad) = Cardinality(good) + Cardinality(bad) - Cardinality({})
      BY <1>6, <2>1, FS_Union
    <2>3. Cardinality({}) = 0 /\ Cardinality(good) \in Nat /\ Cardinality(bad) \in Nat
      BY <2>1, FS_EmptySet, FS_CardinalityType
    <2>4. Cardinality(good \cup bad) <= n
      BY <1>5, <1>6, FS_Subset
    <2> QED BY <2>2, <2>3, <2>4
  <1>8. Cardinality(Has("opened")) <= n /\ Cardinality(Has("clicked")) <= n
    BY <1>5, <1>6, FS_Subset
  <1>9. Mail!StampsTellEvents
    BY <1>2, <1>3, <1>4, <1>7, <1>8 DEF Mail!StampsTellEvents
  <1>10. Mail!HardBouncesSuppress
    BY DEF EvInv, Mail!HardBouncesSuppress
  <1> QED BY <1>9, <1>10

-----------------------------------------------------------------------------
(* Exports of personal data                                                *)

ExTables == {RepTables[k] : k \in DOMAIN RepTables}

ExJob == [status : {"pending", "processing", "completed", "failed"}, file : Nat \cup {None}, expires : Nat,
          requested : [ExTables -> Nat]]

ExWork == [pc : {"begin", "gather", "write", "complete", "mail", "ended", "lost"}, gathered : Seq(Nat)]

ExFile == Seq(Nat) \cup {None}

\* What was gathered for a job is at least as new as its request.
ExSoFar(got, job) ==
    /\ got \in Seq(Nat) /\ Len(got) <= Len(RepTables)
    /\ \A k \in 1..Len(got) : got[k] >= job.requested[RepTables[k]]

ExWhole(got, job) == ExSoFar(got, job) /\ Len(got) = Len(RepTables)

\* A job completes only over its own whole file, and its goroutine has
\* nothing left to do then but to mail the link.
ExFine(j, job, w, file, linked, data) ==
    /\ \A t \in ExTables : job.requested[t] <= data[t]
    /\ ExSoFar(w.gathered, job)
    /\ w.pc \in {"begin", "gather"} => Len(w.gathered) < Len(RepTables)
    /\ w.pc \in {"write", "complete"} => ExWhole(w.gathered, job)
    /\ file # None => ExWhole(file, job)
    /\ w.pc = "complete" => file # None
    /\ job.status = "completed" => job.file = j /\ file # None /\ w.pc \in {"mail", "ended", "lost"}
    /\ w.pc = "mail" => job.status = "completed"
    /\ linked => job.status = "completed"

ExTyped ==
    /\ repJobs \in Seq(ExJob) /\ repWork \in Seq(ExWork) /\ repFiles \in Seq(ExFile)
    /\ Len(repWork) = Len(repJobs) /\ Len(repFiles) = Len(repJobs)
    /\ repData \in [ExTables -> Nat] /\ repExportNow \in Nat /\ repMailed \subseteq DOMAIN repJobs

ExServed ==
    repServed # None =>
        /\ repServed.job \in DOMAIN repJobs
        /\ ExWhole(repServed.contents, repJobs[repServed.job])
        /\ repServed.at <= repJobs[repServed.job].expires

ExInv ==
    /\ ExTyped /\ ExServed
    /\ \A j \in DOMAIN repJobs : ExFine(j, repJobs[j], repWork[j], repFiles[j], j \in repMailed, repData)

LEMMA ExRead ==
    ASSUME ExTyped
    PROVE  /\ Len(repJobs) \in Nat /\ DOMAIN repJobs = 1..Len(repJobs)
           /\ DOMAIN repWork = DOMAIN repJobs /\ DOMAIN repFiles = DOMAIN repJobs
           /\ \A j \in DOMAIN repJobs : repJobs[j] \in ExJob /\ repWork[j] \in ExWork /\ repFiles[j] \in ExFile
  <1> DEFINE S == ExJob
             T == ExWork
             U == ExFile
  <1>1. /\ repJobs \in Seq(S) /\ repWork \in Seq(T) /\ repFiles \in Seq(U)
        /\ Len(repWork) = Len(repJobs) /\ Len(repFiles) = Len(repJobs)
    BY DEF ExTyped
  <1> HIDE DEF S, T, U
  <1>2. /\ Len(repJobs) \in Nat /\ DOMAIN repJobs = 1..Len(repJobs)
        /\ DOMAIN repWork = DOMAIN repJobs /\ DOMAIN repFiles = DOMAIN repJobs
        /\ \A j \in DOMAIN repJobs : repJobs[j] \in S /\ repWork[j] \in T /\ repFiles[j] \in U
    BY <1>1
  <1> QED BY <1>2 DEF S, T, U

LEMMA ExTable == \A k \in 1..Len(RepTables) : k \in DOMAIN RepTables /\ RepTables[k] \in ExTables
  BY ReportAssumption DEF ExTables

\* A file, once written, is there.
LEMMA ExFileThere == ASSUME NEW got, NEW job, ExWhole(got, job) PROVE got # None
  <1> DEFINE n == Len(RepTables)
  <1>1. got \in Seq(Nat) /\ Len(got) = n /\ None \notin [1..n -> Nat]
    BY ReportAssumption DEF ExWhole, ExSoFar
  <1> HIDE DEF n
  <1>2. got \in [1..n -> Nat]
    BY <1>1
  <1> QED BY <1>1, <1>2

LEMMA SeqReplaced ==
    ASSUME NEW S, NEW s \in Seq(S), NEW i \in DOMAIN s, NEW e \in S
    PROVE  /\ [s EXCEPT ![i] = e] \in Seq(S) /\ Len([s EXCEPT ![i] = e]) = Len(s)
           /\ [s EXCEPT ![i] = e][i] = e /\ \A k \in DOMAIN s : k # i => [s EXCEPT ![i] = e][k] = s[k]
  OBVIOUS

LEMMA SeqExtended ==
    ASSUME NEW S, NEW s \in Seq(S), NEW e \in S
    PROVE  /\ Append(s, e) \in Seq(S) /\ Len(Append(s, e)) = Len(s) + 1 /\ Append(s, e)[Len(s) + 1] = e
           /\ \A k \in DOMAIN s : Append(s, e)[k] = s[k]
  OBVIOUS

\* A step of the goroutine of one job.
LEMMA ExMoved ==
    ASSUME ExInv, NEW j \in DOMAIN repJobs, NEW job \in ExJob, NEW w \in ExWork, NEW file \in ExFile,
           repJobs' = [repJobs EXCEPT ![j] = job], repWork' = [repWork EXCEPT ![j] = w],
           repFiles' = [repFiles EXCEPT ![j] = file],
           job.requested = repJobs[j].requested, job.expires = repJobs[j].expires,
           repMailed \subseteq repMailed', repMailed' \subseteq repMailed \cup {j},
           UNCHANGED <<repData, repExportNow, repServed>>,
           ExFine(j, job, w, file, j \in repMailed', repData)
    PROVE  ExInv'
  <1>1. ExTyped /\ DOMAIN repWork = DOMAIN repJobs /\ DOMAIN repFiles = DOMAIN repJobs
    BY ExRead DEF ExInv
  <1>2. repJobs \in Seq(ExJob) /\ repWork \in Seq(ExWork) /\ repFiles \in Seq(ExFile)
    BY <1>1 DEF ExTyped
  <1>3. /\ repJobs' \in Seq(ExJob) /\ Len(repJobs') = Len(repJobs) /\ repJobs'[j] = job
        /\ \A i \in DOMAIN repJobs : i # j => repJobs'[i] = repJobs[i]
    BY <1>2, SeqReplaced
  <1>4. /\ repWork' \in Seq(ExWork) /\ Len(repWork') = Len(repWork) /\ repWork'[j] = w
        /\ \A i \in DOMAIN repJobs : i # j => repWork'[i] = repWork[i]
    BY <1>1, <1>2, SeqReplaced
  <1>5. /\ repFiles' \in Seq(ExFile) /\ Len(repFiles') = Len(repFiles) /\ repFiles'[j] = file
        /\ \A i \in DOMAIN repJobs : i # j => repFiles'[i] = repFiles[i]
    BY <1>1, <1>2, SeqReplaced
  <1>6. DOMAIN repJobs' = DOMAIN repJobs
    OBVIOUS
  <1>7. ExTyped'
    BY <1>1, <1>3, <1>4, <1>5, <1>6 DEF ExTyped
  <1>8. ASSUME NEW i \in DOMAIN repJobs'
        PROVE  ExFine(i, repJobs'[i], repWork'[i], repFiles'[i], i \in repMailed', repData')
    <2>1. CASE i = j
      BY <2>1, <1>3, <1>4, <1>5
    <2>2. CASE i # j
      <3>1. ExFine(i, repJobs[i], repWork[i], repFiles[i], i \in repMailed, repData)
        BY <1>6 DEF ExInv
      <3>2. /\ repJobs'[i] = repJobs[i] /\ repWork'[i] = repWork[i] /\ repFiles'[i] = repFiles[i]
            /\ i \in repMailed' <=> i \in repMailed
        BY <2>2, <1>3, <1>4, <1>5, <1>6
      <3> QED BY <3>1, <3>2 DEF ExFine
    <2> QED BY <2>1, <2>2
  <1>9. \A i \in DOMAIN repJobs : repJobs'[i].requested = repJobs[i].requested /\ repJobs'[i].expires = repJobs[i].expires
    BY <1>3
  <1>10. ExServed'
    BY <1>6, <1>9 DEF ExInv, ExServed, ExWhole, ExSoFar
  <1> QED BY <1>7, <1>8, <1>10 DEF ExInv

LEMMA ExStartInv == ASSUME ExInv, Rep!StartExportJob PROVE ExInv'
  <1> DEFINE n == Len(repJobs)
             expires == repExportNow + RepLifetime
             job == [status |-> "pending", file |-> None, expires |-> expires, requested |-> repData]
             w == [pc |-> "begin", gathered |-> <<>>]
  <1>1. /\ repJobs' = Append(repJobs, job) /\ repWork' = Append(repWork, w) /\ repFiles' = Append(repFiles, None)
        /\ UNCHANGED <<repData, repMailed, repExportNow, repServed>>
    BY DEF Rep!StartExportJob
  <1>2. ExTyped /\ n \in Nat /\ DOMAIN repJobs = 1..n /\ DOMAIN repWork = 1..n /\ DOMAIN repFiles = 1..n
    BY ExRead DEF ExInv
  <1>3. expires \in Nat /\ repData \in [ExTables -> Nat]
    BY <1>2, ReportAssumption DEF ExTyped
  <1> HIDE DEF expires
  <1>4. job \in ExJob /\ job.status = "pending" /\ job.requested = repData
    BY <1>3 DEF ExJob
  <1>5. w \in ExWork /\ w.pc = "begin" /\ Len(w.gathered) = 0 /\ w.gathered \in Seq(Nat)
    BY DEF ExWork
  <1>6. None \in ExFile
    BY DEF ExFile
  <1> HIDE DEF job, w
  <1>7. /\ repJobs \in Seq(ExJob) /\ repWork \in Seq(ExWork) /\ repFiles \in Seq(ExFile)
        /\ Len(repWork) = n /\ Len(repFiles) = n
    BY <1>2 DEF ExTyped
  <1>8. /\ repJobs' \in Seq(ExJob) /\ Len(repJobs') = n + 1 /\ repJobs'[n + 1] = job
        /\ \A k \in 1..n : repJobs'[k] = repJobs[k]
    BY <1>1, <1>2, <1>4, <1>7, SeqExtended
  <1>9. /\ repWork' \in Seq(ExWork) /\ Len(repWork') = n + 1 /\ repWork'[n + 1] = w
        /\ \A k \in 1..n : repWork'[k] = repWork[k]
    BY <1>1, <1>2, <1>5, <1>7, SeqExtended, SMTT(30)
  <1>10. /\ repFiles' \in Seq(ExFile) /\ Len(repFiles') = n + 1 /\ repFiles'[n + 1] = None
         /\ \A k \in 1..n : repFiles'[k] = repFiles[k]
    BY <1>1, <1>2, <1>6, <1>7, SeqExtended
  <1>11. DOMAIN repJobs' = 1..(n + 1)
    BY <1>8
  <1>12. ExTyped'
    BY <1>1, <1>2, <1>8, <1>9, <1>10, <1>11 DEF ExTyped
  <1>13. ExFine(n + 1, job, w, None, n + 1 \in repMailed', repData)
    <2>1. n + 1 \notin repMailed'
      BY <1>1, <1>2 DEF ExTyped
    <2>2. ExSoFar(w.gathered, job)
      BY <1>5, ReportAssumption DEF ExSoFar
    <2>3. \A t \in ExTables : job.requested[t] <= repData[t]
      BY <1>3, <1>4
    <2>4. Len(w.gathered) < Len(RepTables)
      BY <1>5, ReportAssumption
    <2> QED BY <2>1, <2>2, <2>3, <2>4, <1>4, <1>5 DEF ExFine
  <1>14. ASSUME NEW i \in DOMAIN repJobs'
         PROVE  ExFine(i, repJobs'[i], repWork'[i], repFiles'[i], i \in repMailed', repData')
    <2>1. CASE i = n + 1
      BY <2>1, <1>1, <1>8, <1>9, <1>10, <1>13
    <2>2. CASE i \in 1..n
      <3>1. ExFine(i, repJobs[i], repWork[i], repFiles[i], i \in repMailed, repData)
        BY <2>2, <1>2 DEF ExInv
      <3> QED BY <2>2, <3>1, <1>1, <1>8, <1>9, <1>10
    <2> QED BY <2>1, <2>2, <1>2, <1>11
  <1>15. ExServed'
    BY <1>1, <1>2, <1>8, <1>11 DEF ExInv, ExServed
  <1> QED BY <1>12, <1>14, <1>15 DEF ExInv

\* A row that stays as it is.
LEMMA SeqKept == ASSUME NEW S, NEW s \in Seq(S), NEW i \in DOMAIN s PROVE s = [s EXCEPT ![i] = s[i]]
  OBVIOUS

LEMMA ExStepInv ==
    ASSUME ExInv, NEW j \in Rep!Jobs,
           \/ Rep!Begin(j) \/ Rep!Gather(j) \/ Rep!WriteFile(j) \/ Rep!Complete(j) \/ Rep!failJob(j)
           \/ \E linked \in BOOLEAN : Rep!Mail(j, linked)
    PROVE  ExInv'
  <1> DEFINE job == repJobs[j]
             w == repWork[j]
             file == repFiles[j]
  <1>1. ExTyped /\ j \in DOMAIN repJobs /\ j \in Nat
    BY ExRead DEF ExInv, Rep!Jobs
  <1>2. /\ repJobs \in Seq(ExJob) /\ repWork \in Seq(ExWork) /\ repFiles \in Seq(ExFile)
        /\ j \in DOMAIN repWork /\ j \in DOMAIN repFiles
        /\ job \in ExJob /\ w \in ExWork /\ file \in ExFile
    BY <1>1, ExRead DEF ExTyped
  <1>3. ExFine(j, job, w, file, j \in repMailed, repData)
    BY <1>1 DEF ExInv
  <1>4. /\ repJobs = [repJobs EXCEPT ![j] = job] /\ repWork = [repWork EXCEPT ![j] = w]
        /\ repFiles = [repFiles EXCEPT ![j] = file]
    BY <1>1, <1>2, SeqKept
  <1>5. CASE Rep!Begin(j)
    <2> DEFINE job2 == [job EXCEPT !.status = "processing"]
               w2 == [w EXCEPT !.pc = "gather"]
    <2>1. /\ w.pc = "begin" /\ repJobs' = [repJobs EXCEPT ![j] = job2] /\ repWork' = [repWork EXCEPT ![j] = w2]
          /\ UNCHANGED <<repData, repFiles, repMailed, repExportNow, repServed>>
      BY <1>5 DEF Rep!Begin
    <2>2. /\ job2 \in ExJob /\ job2.status = "processing" /\ job2.requested = job.requested /\ job2.expires = job.expires
      BY <1>2 DEF ExJob
    <2>3. w2 \in ExWork /\ w2.pc = "gather" /\ w2.gathered = w.gathered
      BY <1>2 DEF ExWork
    <2> HIDE DEF job2, w2
    <2>4. ExFine(j, job2, w2, file, j \in repMailed', repData')
      BY <1>3, <2>1, <2>2, <2>3 DEF ExFine, ExSoFar, ExWhole
    <2>5. repFiles' = [repFiles EXCEPT ![j] = file] /\ repMailed \subseteq repMailed' /\ repMailed' \subseteq repMailed \cup {j}
      BY <1>4, <2>1
    <2> QED BY <1>1, <1>2, <2>1, <2>2, <2>3, <2>4, <2>5, ExMoved
  <1>6. CASE Rep!Gather(j)
    <2> DEFINE got == w.gathered
               n == Len(RepTables)
               k == Len(got) + 1
               e == repData[RepTables[k]]
               more == Append(got, e)
               pc == IF k = n THEN "write" ELSE "gather"
               w2 == [pc |-> pc, gathered |-> more]
    <2>1. /\ w.pc = "gather" /\ repWork' = [repWork EXCEPT ![j] = w2]
          /\ UNCHANGED <<repData, repJobs, repFiles, repMailed, repExportNow, repServed>>
      BY <1>6 DEF Rep!Gather
    <2>2. got \in Seq(Nat) /\ ExSoFar(got, job) /\ Len(got) < n /\ n \in Nat /\ Len(got) \in Nat
      <3>1. ExSoFar(got, job) /\ Len(got) < n /\ n \in Nat
        <4>1. n \in Nat
          BY ReportAssumption
        <4>2. ExSoFar(got, job)
          BY <1>3 DEF ExFine
        <4>3. w.pc = "gather"
          BY <2>1
        <4>4. Len(got) < n
          BY <1>3, <4>3 DEF ExFine
        <4> QED BY <4>1, <4>2, <4>4
      <3> HIDE DEF got, n
      <3>2. got \in Seq(Nat)
        BY <3>1 DEF ExSoFar
      <3> QED BY <3>1, <3>2
    <2>3. k \in 1..n /\ RepTables[k] \in ExTables
      BY <2>2, ExTable
    <2>4. e \in Nat /\ e >= job.requested[RepTables[k]]
      <3>1. repData \in [ExTables -> Nat] /\ job.requested \in [ExTables -> Nat]
        BY <1>1, <1>2 DEF ExTyped, ExJob
      <3>2. job.requested[RepTables[k]] <= repData[RepTables[k]]
        BY <1>3, <2>3 DEF ExFine
      <3> HIDE DEF k
      <3> QED BY <2>3, <3>1, <3>2
    <2> HIDE DEF e, got
    <2>5. more \in Seq(Nat) /\ Len(more) = k /\ more[k] = e /\ \A i \in DOMAIN got : more[i] = got[i]
      BY <2>2, <2>4, SeqExtended
    <2>6. \A i \in 1..k : i = k \/ i \in DOMAIN got
      BY <2>2
    <2> HIDE DEF more, k
    <2>7. ExSoFar(more, job)
      <3>1. ASSUME NEW i \in 1..Len(more) PROVE more[i] >= job.requested[RepTables[i]]
        <4>1. CASE i = k
          BY <4>1, <2>4, <2>5
        <4>2. CASE i # k
          <5>1. i \in DOMAIN got /\ more[i] = got[i]
            BY <4>2, <2>5, <2>6
          <5>2. got[i] >= job.requested[RepTables[i]]
            <6>1. i \in 1..Len(got)
              BY <5>1, <2>2
            <6> QED BY <6>1, <2>2 DEF ExSoFar
          <5> QED BY <5>1, <5>2
        <4> QED BY <4>1, <4>2
      <3>2. Len(more) <= n
        BY <2>3, <2>5
      <3> QED BY <3>1, <3>2, <2>5 DEF ExSoFar
    <2>8. pc \in {"gather", "write"} /\ (pc = "gather" => Len(more) < n) /\ (pc = "write" => ExWhole(more, job))
      BY <2>2, <2>3, <2>5, <2>7 DEF ExWhole
    <2> HIDE DEF pc
    <2>9. w2 \in ExWork /\ w2.pc = pc /\ w2.gathered = more
      BY <2>5, <2>8 DEF ExWork
    <2> HIDE DEF w2
    <2>10. ExFine(j, job, w2, file, j \in repMailed', repData')
      BY <1>3, <2>1, <2>7, <2>8, <2>9 DEF ExFine
    <2>11. /\ repJobs' = [repJobs EXCEPT ![j] = job] /\ repFiles' = [repFiles EXCEPT ![j] = file]
           /\ repMailed \subseteq repMailed' /\ repMailed' \subseteq repMailed \cup {j}
      BY <1>4, <2>1
    <2> QED BY <1>1, <1>2, <2>1, <2>9, <2>10, <2>11, ExMoved
  <1>7. CASE Rep!WriteFile(j)
    <2> DEFINE got == w.gathered
               w2 == [w EXCEPT !.pc = "complete"]
    <2>1. /\ w.pc = "write" /\ repFiles' = [repFiles EXCEPT ![j] = got] /\ repWork' = [repWork EXCEPT ![j] = w2]
          /\ UNCHANGED <<repData, repJobs, repMailed, repExportNow, repServed>>
      BY <1>7 DEF Rep!WriteFile
    <2>2. w2 \in ExWork /\ w2.pc = "complete" /\ w2.gathered = got
      BY <1>2 DEF ExWork
    <2>3. ExWhole(got, job) /\ got \in ExFile /\ got # None
      BY <1>2, <1>3, <2>1, ExFileThere DEF ExFine, ExFile, ExWork
    <2> HIDE DEF w2
    <2>4. ExFine(j, job, w2, got, j \in repMailed', repData')
      BY <1>3, <2>1, <2>2, <2>3 DEF ExFine
    <2>5. repJobs' = [repJobs EXCEPT ![j] = job] /\ repMailed \subseteq repMailed' /\ repMailed' \subseteq repMailed \cup {j}
      BY <1>4, <2>1
    <2> QED BY <1>1, <1>2, <2>1, <2>2, <2>3, <2>4, <2>5, ExMoved
  <1>8. CASE Rep!Complete(j)
    <2> DEFINE job2 == [job EXCEPT !.status = "completed", !.file = j]
               w2 == [w EXCEPT !.pc = "mail"]
    <2>1. /\ w.pc = "complete" /\ repJobs' = [repJobs EXCEPT ![j].status = "completed", ![j].file = j]
          /\ repWork' = [repWork EXCEPT ![j] = w2]
          /\ UNCHANGED <<repData, repFiles, repMailed, repExportNow, repServed>>
      BY <1>8 DEF Rep!Complete
    <2>2. repJobs' = [repJobs EXCEPT ![j] = job2]
      BY <2>1, <1>1, <1>2
    <2>3. /\ job2 \in ExJob /\ job2.status = "completed" /\ job2.file = j
          /\ job2.requested = job.requested /\ job2.expires = job.expires
      BY <1>1, <1>2 DEF ExJob
    <2>4. w2 \in ExWork /\ w2.pc = "mail" /\ w2.gathered = w.gathered
      BY <1>2 DEF ExWork
    <2> HIDE DEF job2, w2
    <2>5. ExFine(j, job2, w2, file, j \in repMailed', repData')
      BY <1>3, <2>1, <2>3, <2>4 DEF ExFine, ExSoFar, ExWhole
    <2>6. repFiles' = [repFiles EXCEPT ![j] = file] /\ repMailed \subseteq repMailed' /\ repMailed' \subseteq repMailed \cup {j}
      BY <1>4, <2>1
    <2>7. repWork' = [repWork EXCEPT ![j] = w2] /\ UNCHANGED <<repData, repExportNow, repServed>>
      BY <2>1
    <2> QED BY <1>1, <1>2, <2>2, <2>3, <2>4, <2>5, <2>6, <2>7, ExMoved
  <1>9. CASE Rep!failJob(j)
    <2> DEFINE job2 == [job EXCEPT !.status = "failed"]
               w2 == [w EXCEPT !.pc = "ended"]
    <2>1. /\ w.pc \in {"gather", "write", "complete"} /\ repJobs' = [repJobs EXCEPT ![j] = job2]
          /\ repWork' = [repWork EXCEPT ![j] = w2]
          /\ UNCHANGED <<repData, repFiles, repMailed, repExportNow, repServed>>
      BY <1>9 DEF Rep!failJob
    <2>2. /\ job2 \in ExJob /\ job2.status = "failed" /\ job2.requested = job.requested /\ job2.expires = job.expires
      BY <1>2 DEF ExJob
    <2>3. w2 \in ExWork /\ w2.pc = "ended" /\ w2.gathered = w.gathered
      BY <1>2 DEF ExWork
    <2> HIDE DEF job2, w2
    <2>4. ExFine(j, job2, w2, file, j \in repMailed', repData')
      BY <1>3, <2>1, <2>2, <2>3 DEF ExFine, ExSoFar, ExWhole
    <2>5. repFiles' = [repFiles EXCEPT ![j] = file] /\ repMailed \subseteq repMailed' /\ repMailed' \subseteq repMailed \cup {j}
      BY <1>4, <2>1
    <2> QED BY <1>1, <1>2, <2>1, <2>2, <2>3, <2>4, <2>5, ExMoved
  <1>10. ASSUME NEW linked \in BOOLEAN, Rep!Mail(j, linked) PROVE ExInv'
    <2> DEFINE w2 == [w EXCEPT !.pc = "ended"]
    <2>1. /\ w.pc = "mail" /\ repWork' = [repWork EXCEPT ![j] = w2]
          /\ repMailed' = (IF linked THEN repMailed \cup {j} ELSE repMailed)
          /\ UNCHANGED <<repData, repJobs, repFiles, repExportNow, repServed>>
      BY <1>10 DEF Rep!Mail
    <2>2. w2 \in ExWork /\ w2.pc = "ended" /\ w2.gathered = w.gathered
      BY <1>2 DEF ExWork
    <2> HIDE DEF w2
    <2>3. ExFine(j, job, w2, file, j \in repMailed', repData')
      BY <1>3, <2>1, <2>2 DEF ExFine
    <2>4. /\ repJobs' = [repJobs EXCEPT ![j] = job] /\ repFiles' = [repFiles EXCEPT ![j] = file]
          /\ repMailed \subseteq repMailed' /\ repMailed' \subseteq repMailed \cup {j}
      BY <1>4, <2>1
    <2>5. repWork' = [repWork EXCEPT ![j] = w2] /\ UNCHANGED <<repData, repExportNow, repServed>>
      BY <2>1
    <2> QED BY <1>1, <1>2, <2>2, <2>3, <2>4, <2>5, ExMoved
  <1> QED BY <1>5, <1>6, <1>7, <1>8, <1>9, <1>10

\* The goroutines of a process that stops end where they are.
LEMMA ExCrashInv == ASSUME ExInv, Rep!ExportCrash PROVE ExInv'
  <1> DEFINE n == Len(repJobs)
             stopped(w) == IF w.pc = "ended" THEN w ELSE [w EXCEPT !.pc = "lost"]
             S == ExWork
  <1>1. /\ repWork' = [j \in DOMAIN repJobs |-> stopped(repWork[j])]
        /\ UNCHANGED <<repData, repJobs, repFiles, repMailed, repExportNow, repServed>>
    BY DEF Rep!ExportCrash, Rep!Jobs
  <1>2. ExTyped /\ n \in Nat /\ DOMAIN repJobs = 1..n /\ \A j \in 1..n : repWork[j] \in ExWork
    BY ExRead DEF ExInv
  <1>3. \A w \in ExWork : stopped(w) \in ExWork /\ stopped(w).gathered = w.gathered /\ stopped(w).pc \in {"ended", "lost"}
    BY DEF ExWork
  <1> HIDE DEF stopped
  <1>4. repWork' \in [1..n -> S] /\ DOMAIN repWork' = 1..n /\ \A j \in 1..n : repWork'[j] = stopped(repWork[j])
    BY <1>1, <1>2, <1>3
  <1>5. repWork' \in Seq(S) /\ Len(repWork') = n
    <2> HIDE DEF S, n
    <2>1. repWork' \in Seq(S)
      BY <1>2, <1>4, SeqDef, Zenon
    <2> QED BY <2>1, <1>2, <1>4, LenProperties
  <1>6. ExTyped'
    BY <1>1, <1>2, <1>5 DEF ExTyped
  <1>7. ASSUME NEW j \in DOMAIN repJobs PROVE ExFine(j, repJobs[j], repWork'[j], repFiles[j], j \in repMailed, repData)
    <2>1. ExFine(j, repJobs[j], repWork[j], repFiles[j], j \in repMailed, repData)
      BY DEF ExInv
    <2>2. repWork'[j].gathered = repWork[j].gathered /\ repWork'[j].pc \in {"ended", "lost"}
      BY <1>2, <1>3, <1>4
    <2> QED BY <2>1, <2>2 DEF ExFine
  <1> QED BY <1>1, <1>6, <1>7 DEF ExInv, ExServed

LEMMA ExDownloadInv == ASSUME ExInv, NEW j \in Rep!Jobs, Rep!DownloadExport(j) PROVE ExInv'
  <1> DEFINE s == [job |-> j, contents |-> repFiles[repJobs[j].file], at |-> repExportNow]
  <1>1. /\ repExportNow <= repJobs[j].expires /\ repJobs[j].status = "completed" /\ repServed' = s
        /\ UNCHANGED <<repData, repJobs, repWork, repFiles, repMailed, repExportNow>>
    BY DEF Rep!DownloadExport, Rep!MayDownload, Rep!JobOf
  <1>2. j \in DOMAIN repJobs
    BY DEF Rep!Jobs
  <1>3. repJobs[j].file = j /\ ExWhole(repFiles[j], repJobs[j])
    <2>1. ExFine(j, repJobs[j], repWork[j], repFiles[j], j \in repMailed, repData)
      BY <1>2 DEF ExInv
    <2> QED BY <1>1, <2>1 DEF ExFine
  <1>4. s.job = j /\ s.contents = repFiles[j] /\ s.at = repExportNow
    BY <1>3
  <1> HIDE DEF s
  <1>5. ExServed'
    BY <1>1, <1>2, <1>3, <1>4 DEF ExServed
  <1> QED BY <1>1, <1>5 DEF ExInv, ExTyped

LEMMA ExNextInv == ExInv /\ [Rep!ExportNext]_(Rep!exportVars) => ExInv'
  <1> SUFFICES ASSUME ExInv, [Rep!ExportNext]_(Rep!exportVars) PROVE ExInv'
    OBVIOUS
  <1>1. ASSUME UNCHANGED <<repData, repJobs, repWork, repFiles, repMailed, repServed>>, repExportNow' \in Nat PROVE ExInv'
    BY <1>1 DEF ExInv, ExTyped, ExServed
  <1>2. CASE Rep!ExportTick \/ Rep!CloseAccount \/ UNCHANGED Rep!exportVars
    <2>1. repExportNow \in Nat
      BY DEF ExInv, ExTyped
    <2> QED BY <1>1, <1>2, <2>1 DEF Rep!ExportTick, Rep!CloseAccount, Rep!exportVars
  <1>3. ASSUME NEW t \in DOMAIN repData, Rep!Change(t) PROVE ExInv'
    <2> DEFINE e == repData[t] + 1
    <2>1. /\ repData' = [repData EXCEPT ![t] = e]
          /\ UNCHANGED <<repJobs, repWork, repFiles, repMailed, repExportNow, repServed>>
      BY <1>3 DEF Rep!Change
    <2>2. repData \in [ExTables -> Nat] /\ t \in ExTables
      BY <1>3 DEF ExInv, ExTyped
    <2>3. e \in Nat /\ e >= repData[t]
      BY <2>2
    <2> HIDE DEF e
    <2>4. repData' \in [ExTables -> Nat] /\ \A u \in ExTables : repData'[u] >= repData[u]
      BY <2>1, <2>2, <2>3
    <2>5. ExTyped' /\ ExServed'
      BY <2>1, <2>4 DEF ExInv, ExTyped, ExServed
    <2>6. ASSUME NEW j \in DOMAIN repJobs PROVE ExFine(j, repJobs[j], repWork[j], repFiles[j], j \in repMailed, repData')
      <3>1. ExFine(j, repJobs[j], repWork[j], repFiles[j], j \in repMailed, repData)
        BY DEF ExInv
      <3>2. repJobs[j].requested \in [ExTables -> Nat]
        BY ExRead DEF ExInv, ExJob
      <3>3. \A u \in ExTables : repJobs[j].requested[u] <= repData'[u]
        <4>1. \A u \in ExTables : repJobs[j].requested[u] <= repData[u]
          BY <3>1 DEF ExFine
        <4> QED BY <4>1, <3>2, <2>2, <2>4
      <3> QED BY <3>1, <3>3 DEF ExFine
    <2> QED BY <2>1, <2>5, <2>6 DEF ExInv
  <1>4. CASE Rep!StartExportJob \/ Rep!ExportCrash
    BY <1>4, ExStartInv, ExCrashInv
  <1>5. CASE \E j \in Rep!Jobs :
                \/ Rep!Begin(j) \/ Rep!Gather(j) \/ Rep!WriteFile(j) \/ Rep!Complete(j) \/ Rep!failJob(j)
                \/ \E linked \in BOOLEAN : Rep!Mail(j, linked)
                \/ Rep!DownloadExport(j)
    BY <1>5, ExStepInv, ExDownloadInv
  <1> QED BY <1>2, <1>3, <1>4, <1>5 DEF Rep!ExportNext

LEMMA ExInvInit == Rep!ExportInit => ExInv
  <1> SUFFICES ASSUME Rep!ExportInit PROVE ExInv
    OBVIOUS
  <1>1. /\ repJobs = <<>> /\ repWork = <<>> /\ repFiles = <<>> /\ repMailed = {} /\ repExportNow = 0 /\ repServed = None
        /\ repData = [t \in Rep!Range(RepTables) |-> 0]
    BY DEF Rep!ExportInit
  <1>2. Rep!Range(RepTables) = ExTables
    BY DEF Rep!Range, ExTables
  <1>3. /\ repJobs \in Seq(ExJob) /\ repWork \in Seq(ExWork) /\ repFiles \in Seq(ExFile) /\ DOMAIN repJobs = {}
        /\ Len(repJobs) = 0 /\ Len(repWork) = 0 /\ Len(repFiles) = 0
    BY <1>1
  <1> QED BY <1>1, <1>2, <1>3 DEF ExInv, ExTyped, ExServed

LEMMA ExInvMeans == ExInv => Rep!ExportsAreFaithful
  <1> SUFFICES ASSUME ExInv PROVE Rep!ExportsAreFaithful
    OBVIOUS
  <1>1. repServed # None =>
            /\ Len(repServed.contents) = Len(RepTables)
            /\ \A k \in DOMAIN RepTables : repServed.contents[k] >= repJobs[repServed.job].requested[RepTables[k]]
            /\ repServed.at <= repJobs[repServed.job].expires
    BY ReportAssumption DEF ExInv, ExServed, ExWhole, ExSoFar
  <1>2. \A j \in DOMAIN repJobs :
            repJobs[j].status = "completed" => repJobs[j].file = j /\ repFiles[j] # None
    BY DEF ExInv, ExFine
  <1>3. \A j \in repMailed : j \in DOMAIN repJobs /\ repJobs[j].status = "completed"
    BY DEF ExInv, ExTyped, ExFine
  <1> QED BY <1>1, <1>2, <1>3 DEF Rep!ExportsAreFaithful, Rep!Jobs

(***************************************************************************)
(* What is recorded of deliveries is what happened to them, whichever      *)
(* goroutines cross, whatever order the answers and the events come in,    *)
(* and wherever the process stops: a webhook's row tells its posts, every  *)
(* mail taken is waiting, at the worker or finished, the stamps of a mail  *)
(* are its events, and a download has all the data of its own job.         *)
(***************************************************************************)
THEOREM DeliveriesTold ==
    Hook!Spec /\ Mail!Spec /\ Mail!EventSpec /\ Rep!ExportSpec => []DeliveriesAreTold
  <1>1. Hook!Spec => []HookInv
    BY HookInvInit, HookNextInv, PTL DEF Hook!Spec
  <1>2. Mail!Spec => []MailInv
    BY MailInvInit, MailNextInv, PTL DEF Mail!Spec
  <1>3. Mail!EventSpec => []EvInv
    BY EvInvInit, EvNextInv, PTL DEF Mail!EventSpec
  <1>4. Rep!ExportSpec => []ExInv
    BY ExInvInit, ExNextInv, PTL DEF Rep!ExportSpec
  <1>5. HookInv /\ MailInv /\ EvInv /\ ExInv => DeliveriesAreTold
    BY HookInvMeans, MailInvMeans, EvInvMeans, ExInvMeans DEF DeliveriesAreTold
  <1> QED BY <1>1, <1>2, <1>3, <1>4, <1>5, PTL
=============================================================================
