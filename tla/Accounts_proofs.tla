--------------------------- MODULE Accounts_proofs ---------------------------
(***************************************************************************)
(* Proofs about the multi-signature wallet, for any set of addresses, any  *)
(* number of proposals and any ledger time, and about the backend's        *)
(* accounts, for any users, requests, amounts and limits: who is let in,   *)
(* and what is charged and paid.                                           *)
(***************************************************************************)
EXTENDS MCAccounts, Sums, FunctionTheorems, SequenceTheorems

(***************************************************************************)
(* The list initialize accepts has no duplicates, so the number of owners  *)
(* it stores is the length validate_threshold was given.                   *)
(***************************************************************************)
LEMMA DistinctOwnersCounted ==
    ASSUME NEW os \in OwnerLists, IsInjective(os)
    PROVE  /\ Range(os) \subseteq Addr
           /\ Cardinality(Range(os)) = Len(os)
  <1>1. PICK n \in 0..MaxOwners : os \in [1..n -> Addr]
    BY DEF OwnerLists
  <1>2. n \in Nat /\ Len(os) = n /\ DOMAIN os = 1..n
    BY <1>1, MultisigAssumption
  <1>3. os \in Injection(1..n, Addr)
    BY <1>1, <1>2 DEF Injection, IsInjective
  <1>4. os \in Bijection(1..n, Range(os))
    BY <1>3, Fun_InjMeansBijImage
  <1>5. ExistsBijection(1..n, Range(os))
    BY <1>4 DEF ExistsBijection
  <1>6. IsFiniteSet(1..n) /\ Cardinality(1..n) = n
    BY <1>2, FS_Interval
  <1>7. Cardinality(Range(os)) = n
    BY <1>5, <1>6, FS_Bijection
  <1>8. Range(os) \subseteq Addr
    BY <1>1 DEF Range
  <1> QED BY <1>2, <1>7, <1>8

(***************************************************************************)
(* Every subset of the addresses is finite and has a natural cardinality.  *)
(***************************************************************************)
LEMMA AddrSubsets ==
    \A S \in SUBSET Addr : IsFiniteSet(S) /\ Cardinality(S) \in Nat
  BY MultisigAssumption, FS_Subset, FS_CardinalityType

(***************************************************************************)
(* The inductive invariant: types, the two views of the signatures agree,  *)
(* and the threshold can be met.                                           *)
(***************************************************************************)
IInv == TypeOK /\ SignCountIsSigners /\ ThresholdReachable

\* Before any call the invariant holds: there is no proposal and no signature.
LEMMA InitIInv == Init => IInv
  <1> SUFFICES ASSUME Init PROVE IInv
    OBVIOUS
  <1>1. TypeOK
    BY MultisigAssumption, EmptySeq DEF Init, TypeOK
  <1>2. SignCountIsSigners /\ ThresholdReachable
    BY DEF Init, SignCountIsSigners, ThresholdReachable, ProposalIds
  <1> QED BY <1>1, <1>2 DEF IInv

\* Every entry point of the contract, and the passing of time, preserves it.
LEMMA NextIInv == IInv /\ [Next]_vars => IInv'
  <1> SUFFICES ASSUME IInv, [Next]_vars PROVE IInv'
    OBVIOUS
  <1> USE MultisigAssumption
  <1>0. TypeOK /\ SignCountIsSigners /\ ThresholdReachable
    BY DEF IInv
  <1>a. /\ ProposalIds = 1..Len(proposals)
        /\ DOMAIN signed = 1..Len(proposals)
        /\ Len(proposals) \in Nat
    BY <1>0 DEF TypeOK, ProposalIds
  <1>b. \A id \in ProposalIds : /\ proposals[id] \in Proposal
                                /\ signed[id] \in SUBSET Addr
                                /\ IsFiniteSet(signed[id])
                                /\ Cardinality(signed[id]) \in Nat
    BY <1>0, <1>a, AddrSubsets DEF TypeOK
  <1>1. ASSUME NEW a \in Addr, NEW os \in OwnerLists, NEW t \in 0..MaxOwners,
               Initialize(a, os, t)
        PROVE  IInv'
    <2>1. Range(os) \subseteq Addr /\ Cardinality(Range(os)) = Len(os)
      BY <1>1, DistinctOwnersCounted DEF Initialize
    <2>2. TypeOK'
      BY <1>0, <1>1, <2>1 DEF TypeOK, Initialize
    <2>3. SignCountIsSigners'
      BY <1>0, <1>1 DEF SignCountIsSigners, Initialize, ProposalIds
    <2>4. ThresholdReachable'
      BY <1>1, <2>1 DEF ThresholdReachable, Initialize, ValidThreshold
    <2> QED BY <2>2, <2>3, <2>4 DEF IInv
  <1>2. ASSUME NEW a \in Addr, SubmitProposal(a)
        PROVE  IInv'
    <2> DEFINE new == [sign_count |-> 0, executed |-> FALSE, created_at |-> now]
    <2>1. new \in Proposal
      BY <1>0 DEF TypeOK, Proposal
    <2>2. proposals' = Append(proposals, new) /\ signed' = Append(signed, {})
      BY <1>2 DEF SubmitProposal
    <2>3. /\ proposals' \in Seq(Proposal) /\ signed' \in Seq(SUBSET Addr)
          /\ Len(proposals') = Len(proposals) + 1 /\ Len(signed') = Len(signed) + 1
          /\ \A i \in 1..Len(proposals) : proposals'[i] = proposals[i]
          /\ \A i \in 1..Len(signed) : signed'[i] = signed[i]
          /\ proposals'[Len(proposals) + 1] = new
          /\ signed'[Len(signed) + 1] = {}
      <3> HIDE DEF new
      <3> QED BY <1>0, <2>1, <2>2, AppendProperties DEF TypeOK
    <2>4. TypeOK'
      BY <1>0, <1>2, <2>3 DEF TypeOK, SubmitProposal
    <2>5. SignCountIsSigners'
      <3> SUFFICES ASSUME NEW id \in ProposalIds'
                   PROVE  proposals'[id].sign_count = Cardinality(signed'[id])
        BY DEF SignCountIsSigners
      <3>1. id \in 1..Len(proposals) \/ id = Len(proposals) + 1
        BY <2>3, <1>a DEF ProposalIds
      <3>2. CASE id \in 1..Len(proposals)
        BY <3>2, <2>3, <1>0, <1>a DEF SignCountIsSigners, TypeOK
      <3>3. CASE id = Len(proposals) + 1
        <4>1. proposals'[id] = new /\ signed'[id] = {}
          <5> HIDE DEF new
          <5> QED BY <3>3, <2>3, <1>0 DEF TypeOK
        <4>2. new.sign_count = 0
          OBVIOUS
        <4> QED BY <4>1, <4>2, FS_EmptySet
      <3> QED BY <3>1, <3>2, <3>3
    <2>6. ThresholdReachable'
      BY <1>0, <1>2 DEF ThresholdReachable, SubmitProposal
    <2> QED BY <2>4, <2>5, <2>6 DEF IInv
  <1>3. ASSUME NEW a \in Addr, NEW id \in ProposalIds, SignProposal(a, id)
        PROVE  IInv'
    <2>1. Cardinality(signed[id] \cup {a}) = Cardinality(signed[id]) + 1
      BY <1>3, <1>b, FS_AddElement DEF SignProposal
    <2>2. TypeOK'
      <3> DEFINE p == [proposals[id] EXCEPT !.sign_count = @ + 1]
      <3>1. p \in Proposal
        BY <1>b DEF Proposal
      <3>2. proposals' = [proposals EXCEPT ![id] = p]
        BY <1>3 DEF SignProposal
      <3>3. proposals' \in Seq(Proposal) /\ Len(proposals') = Len(proposals)
        <4> HIDE DEF p
        <4> QED BY <1>0, <1>a, <3>1, <3>2, ExceptSeq DEF TypeOK
      <3>4. signed' \in Seq(SUBSET Addr) /\ Len(signed') = Len(signed)
        BY <1>0, <1>3, <1>a, <1>b, ExceptSeq DEF TypeOK, SignProposal
      <3> QED BY <1>0, <1>3, <3>3, <3>4 DEF TypeOK, SignProposal
    <2>3. SignCountIsSigners'
      BY <1>0, <1>3, <1>a, <1>b, <2>1 DEF SignCountIsSigners, SignProposal, ProposalIds, TypeOK, Proposal
    <2>4. ThresholdReachable'
      BY <1>0, <1>3 DEF ThresholdReachable, SignProposal
    <2> QED BY <2>2, <2>3, <2>4 DEF IInv
  <1>4. ASSUME NEW a \in Addr, NEW id \in ProposalIds, RevokeSignature(a, id)
        PROVE  IInv'
    <2>1. /\ Cardinality(signed[id] \ {a}) = Cardinality(signed[id]) - 1
          /\ Cardinality(signed[id] \ {a}) \in Nat
      <3>1. a \in signed[id]
        BY <1>4 DEF RevokeSignature
      <3>2. IsFiniteSet(signed[id]) /\ IsFiniteSet(signed[id] \ {a})
        BY <1>b, AddrSubsets
      <3> QED BY <3>1, <3>2, FS_RemoveElement, FS_CardinalityType
    <2>2. proposals[id].sign_count - 1 \in Nat
      BY <1>0, <2>1 DEF SignCountIsSigners
    <2>3. TypeOK'
      <3> DEFINE p == [proposals[id] EXCEPT !.sign_count = @ - 1]
      <3>1. p \in Proposal
        BY <1>b, <2>2 DEF Proposal
      <3>2. proposals' = [proposals EXCEPT ![id] = p]
        BY <1>4 DEF RevokeSignature
      <3>3. proposals' \in Seq(Proposal) /\ Len(proposals') = Len(proposals)
        <4> HIDE DEF p
        <4> QED BY <1>0, <1>a, <3>1, <3>2, ExceptSeq DEF TypeOK
      <3>4. signed' \in Seq(SUBSET Addr) /\ Len(signed') = Len(signed)
        BY <1>0, <1>4, <1>a, <1>b, ExceptSeq DEF TypeOK, RevokeSignature
      <3> QED BY <1>0, <1>4, <3>3, <3>4 DEF TypeOK, RevokeSignature
    <2>4. SignCountIsSigners'
      BY <1>0, <1>4, <1>a, <1>b, <2>1 DEF SignCountIsSigners, RevokeSignature, ProposalIds, TypeOK, Proposal
    <2>5. ThresholdReachable'
      BY <1>0, <1>4 DEF ThresholdReachable, RevokeSignature
    <2> QED BY <2>3, <2>4, <2>5 DEF IInv
  <1>5. ASSUME NEW a \in Addr, NEW id \in ProposalIds, ExecuteProposal(a, id)
        PROVE  IInv'
    <2>1. TypeOK'
      <3> DEFINE p == [proposals[id] EXCEPT !.executed = TRUE]
      <3>1. p \in Proposal
        BY <1>b DEF Proposal
      <3>2. proposals' = [proposals EXCEPT ![id] = p]
        BY <1>5 DEF ExecuteProposal
      <3>3. proposals' \in Seq(Proposal) /\ Len(proposals') = Len(proposals)
        <4> HIDE DEF p
        <4> QED BY <1>0, <1>a, <3>1, <3>2, ExceptSeq DEF TypeOK
      <3> QED BY <1>0, <1>5, <3>3 DEF TypeOK, ExecuteProposal
    <2>2. SignCountIsSigners'
      BY <1>0, <1>5, <1>a, <1>b DEF SignCountIsSigners, ExecuteProposal, ProposalIds, TypeOK, Proposal
    <2>3. ThresholdReachable'
      BY <1>0, <1>5 DEF ThresholdReachable, ExecuteProposal
    <2> QED BY <2>1, <2>2, <2>3 DEF IInv
  <1>6. ASSUME NEW a \in Addr, NEW s \in Expiries, SetProposalExpiry(a, s)
        PROVE  IInv'
    BY <1>0, <1>6 DEF IInv, TypeOK, SignCountIsSigners, ThresholdReachable,
                      SetProposalExpiry, ProposalIds
  <1>7. ASSUME NEW a \in Addr, NEW t \in 0..Cardinality(Addr), UpdateThreshold(a, t)
        PROVE  IInv'
    <2>1. t \in Nat
      BY AddrSubsets
    <2> QED BY <1>0, <1>7, <2>1 DEF IInv, TypeOK, SignCountIsSigners, ThresholdReachable,
                      UpdateThreshold, ProposalIds, ValidThreshold
  <1>8. ASSUME NEW a \in Addr, NEW o \in Addr, AddOwner(a, o)
        PROVE  IInv'
    <2>1. IsFiniteSet(owners) /\ Cardinality(owners) \in Nat
      BY <1>0, AddrSubsets DEF TypeOK
    <2>2. Cardinality(owners \cup {o}) = Cardinality(owners) + 1
      BY <1>8, <2>1, FS_AddElement DEF AddOwner
    <2> QED BY <1>0, <1>8, <2>1, <2>2 DEF IInv, TypeOK, SignCountIsSigners, ThresholdReachable,
                      AddOwner, ProposalIds
  <1>9. ASSUME NEW a \in Addr, NEW o \in Addr, RemoveOwner(a, o)
        PROVE  IInv'
    BY <1>0, <1>9 DEF IInv, TypeOK, SignCountIsSigners, ThresholdReachable,
                      RemoveOwner, ProposalIds, ValidThreshold
  <1>10. ASSUME Tick PROVE IInv'
    BY <1>0, <1>10 DEF IInv, TypeOK, SignCountIsSigners, ThresholdReachable,
                      Tick, ProposalIds
  <1>11. ASSUME UNCHANGED vars PROVE IInv'
    BY <1>0, <1>11 DEF IInv, TypeOK, SignCountIsSigners, ThresholdReachable, vars, ProposalIds
  <1> QED
    BY <1>1, <1>2, <1>3, <1>4, <1>5, <1>6, <1>7, <1>8, <1>9, <1>10, <1>11 DEF Next

(***************************************************************************)
(* The state every call of the wallet leaves behind is well typed, counts  *)
(* its signatures correctly and can still reach its threshold.             *)
(***************************************************************************)
THEOREM MultisigInvariant == Spec => []IInv
  <1>1. Init => IInv
    BY InitIInv
  <1>2. IInv /\ [Next]_vars => IInv'
    BY NextIInv
  <1> QED BY <1>1, <1>2, PTL DEF Spec

(***************************************************************************)
(* sign_count is the number of signers, for any wallet.                    *)
(***************************************************************************)
THEOREM MultisigSignCount == Spec => []SignCountIsSigners
  <1>1. IInv => SignCountIsSigners
    BY DEF IInv
  <1> QED BY <1>1, MultisigInvariant, PTL

(***************************************************************************)
(* The wallet never becomes unable to gather its threshold of owners.      *)
(***************************************************************************)
THEOREM MultisigThresholdReachable == Spec => []ThresholdReachable
  <1>1. IInv => ThresholdReachable
    BY DEF IInv
  <1> QED BY <1>1, MultisigInvariant, PTL

(***************************************************************************)
(* What one step does to one existing proposal: nothing, or one of the     *)
(* three calls that name it.                                               *)
(***************************************************************************)
LEMMA StepOnProposal ==
    ASSUME IInv, [Next]_vars, NEW id \in ProposalIds
    PROVE  \/ proposals'[id] = proposals[id] /\ signed'[id] = signed[id]
           \/ /\ ~proposals[id].executed
              /\ \/ proposals'[id].executed = proposals[id].executed
                 \/ WithinExpiry(id) /\ proposals[id].sign_count >= threshold
  <1>1. /\ proposals \in Seq(Proposal) /\ signed \in Seq(SUBSET Addr)
        /\ id \in 1..Len(proposals) /\ Len(signed) = Len(proposals)
        /\ ProposalIds = 1..Len(proposals)
        /\ \A i \in ProposalIds : proposals[i] \in Proposal
    BY DEF IInv, TypeOK, ProposalIds
  <1>2. ASSUME NEW a \in Addr, SubmitProposal(a)
        PROVE  proposals'[id] = proposals[id] /\ signed'[id] = signed[id]
    BY <1>1, <1>2 DEF SubmitProposal
  <1>3. ASSUME NEW a \in Addr, NEW i \in ProposalIds,
               SignProposal(a, i) \/ RevokeSignature(a, i)
        PROVE  \/ proposals'[id] = proposals[id] /\ signed'[id] = signed[id]
               \/ /\ ~proposals[id].executed
                  /\ proposals'[id].executed = proposals[id].executed
    <2>1. CASE i # id
      BY <1>1, <1>3, <2>1 DEF SignProposal, RevokeSignature
    <2>2. CASE i = id
      <3>1. ~proposals[id].executed
        BY <1>3, <2>2 DEF SignProposal, RevokeSignature
      <3>2. PICK n : proposals' = [proposals EXCEPT ![id] = [@ EXCEPT !.sign_count = n]]
        BY <1>3, <2>2 DEF SignProposal, RevokeSignature
      <3>3. proposals'[id] = [proposals[id] EXCEPT !.sign_count = n]
        BY <1>1, <3>2
      <3> QED BY <1>1, <3>1, <3>3 DEF Proposal
    <2> QED BY <2>1, <2>2
  <1>4. ASSUME NEW a \in Addr, NEW i \in ProposalIds, ExecuteProposal(a, i)
        PROVE  \/ proposals'[id] = proposals[id] /\ signed'[id] = signed[id]
               \/ /\ ~proposals[id].executed
                  /\ WithinExpiry(id) /\ proposals[id].sign_count >= threshold
    BY <1>1, <1>4 DEF ExecuteProposal, Proposal
  <1>5. ASSUME UNCHANGED <<proposals, signed>>
        PROVE  proposals'[id] = proposals[id] /\ signed'[id] = signed[id]
    BY <1>5
  <1>6. \/ \E a \in Addr : SubmitProposal(a)
        \/ \E a \in Addr, i \in ProposalIds : SignProposal(a, i) \/ RevokeSignature(a, i)
        \/ \E a \in Addr, i \in ProposalIds : ExecuteProposal(a, i)
        \/ UNCHANGED <<proposals, signed>>
    BY DEF Next, vars, Initialize, SetProposalExpiry, UpdateThreshold, AddOwner,
           RemoveOwner, Tick
  <1> QED BY <1>2, <1>3, <1>4, <1>5, <1>6

(***************************************************************************)
(* For any wallet, an execution is backed by threshold distinct signers    *)
(* within the proposal's lifetime.                                         *)
(***************************************************************************)
THEOREM MultisigExecutionBacked == Spec => ExecutionBacked
  <1>1. IInv /\ [Next]_vars => [ExecutionBackedStep]_vars
    <2> SUFFICES ASSUME IInv, [Next]_vars, NEW id \in ProposalIds, Executes(id)
                 PROVE  /\ Cardinality(signed[id]) >= threshold
                        /\ expiry > 0 => now - proposals[id].created_at <= expiry
      BY DEF ExecutionBackedStep
    <2>1. WithinExpiry(id) /\ proposals[id].sign_count >= threshold
      BY StepOnProposal DEF Executes
    <2>2. proposals[id].sign_count = Cardinality(signed[id])
      BY DEF IInv, SignCountIsSigners
    <2>3. expiry \in Nat /\ now \in Nat
      BY MultisigAssumption DEF IInv, TypeOK
    <2>4. proposals[id] \in Proposal
      BY DEF IInv, TypeOK, ProposalIds
    <2>5. proposals[id].created_at \in Nat
      BY <2>4 DEF Proposal
    <2> QED BY <2>1, <2>2, <2>3, <2>5 DEF WithinExpiry
  <1> QED BY <1>1, MultisigInvariant, PTL DEF Spec, ExecutionBacked

(***************************************************************************)
(* For any wallet, an executed proposal and its signatures never change.   *)
(***************************************************************************)
THEOREM MultisigExecutedIsFinal == Spec => ExecutedIsFinal
  <1>1. IInv /\ [Next]_vars => [ExecutedIsFinalStep]_vars
    BY StepOnProposal DEF ExecutedIsFinalStep
  <1> QED BY <1>1, MultisigInvariant, PTL DEF Spec, ExecutedIsFinal

-----------------------------------------------------------------------------
(***************************************************************************)
(* Payments, for any keys, requests and lifetimes of a key.                *)
(***************************************************************************)

Payment == [key : PayKeys \cup {None}, first : PayKeys, params : PayParams,
            status : PayStatuses \cup {"pending"}, at : Nat]

\* A request knows its key, and a row it is to release had expired.
PayAsks(q, rows, t) ==
    \/ q = Pay!New
    \/ q.pc = "done"
    \/ /\ q.pc \in {"find", "release", "create"}
       /\ q.key \in PayKeys /\ q.params \in PayParams
       /\ q.pc = "release" => q.old \in Nat /\ q.old \in DOMAIN rows /\ t - rows[q.old].at > PayKeyTTL

PayRequest == \A r \in Addr : PayAsks(payReq[r], payPayments, payNow)

PayInv ==
    /\ payNow \in Nat
    /\ payPayments \in Seq(Payment)
    /\ \A i \in DOMAIN payPayments : /\ payPayments[i].at <= payNow
                                     /\ payPayments[i].key \in {payPayments[i].first, None}
    /\ DOMAIN payReq = Addr
    /\ PayRequest
    /\ Pay!OneChargePerKey

LEMMA PayInvInit == Pay!Init => PayInv
  BY DEF Pay!Init, PayInv, PayRequest, PayAsks, Pay!OneChargePerKey, Pay!Ids

\* Requests, webhooks and the clock change no key of a row, nor its time.
LEMMA PayKept ==
    ASSUME PayInv, payPayments' \in Seq(Payment), DOMAIN payPayments' = DOMAIN payPayments, payNow' \in Nat, payNow' >= payNow,
           \A i \in DOMAIN payPayments :
              /\ payPayments'[i].first = payPayments[i].first /\ payPayments'[i].at = payPayments[i].at
              /\ \/ payPayments'[i].key = payPayments[i].key
                 \/ payPayments'[i].key = None /\ payNow - payPayments[i].at > PayKeyTTL,
           DOMAIN payReq' = Addr, PayRequest'
    PROVE  PayInv'
  <1>1. /\ payNow \in Nat /\ \A i \in DOMAIN payPayments : payPayments[i].at \in Nat
    <2> DEFINE S == Payment
    <2>1. payPayments \in Seq(S)
      BY DEF PayInv
    <2> HIDE DEF S
    <2>2. \A i \in DOMAIN payPayments : payPayments[i] \in S
      BY <2>1
    <2> QED BY <2>2 DEF S, Payment, PayInv
  <1>2. Pay!OneChargePerKey'
    <2>1. \A i, j \in DOMAIN payPayments : i < j /\ payPayments[i].first = payPayments[j].first
                    => payPayments[j].at - payPayments[i].at > PayKeyTTL
      BY DEF PayInv, Pay!OneChargePerKey, Pay!Ids
    <2>2. \A i \in DOMAIN payPayments : payPayments[i].key = None => payNow - payPayments[i].at > PayKeyTTL
      BY DEF PayInv, Pay!OneChargePerKey, Pay!Ids
    <2>3. ASSUME NEW i \in DOMAIN payPayments, payPayments'[i].key = None PROVE payNow' - payPayments'[i].at > PayKeyTTL
      <3>1. payNow - payPayments[i].at > PayKeyTTL /\ payPayments'[i].at = payPayments[i].at
        BY <2>2, <2>3
      <3> QED BY <1>1, <3>1, PaymentAssumption
    <2> QED BY <2>1, <2>3 DEF Pay!OneChargePerKey, Pay!Ids
  <1>3. \A i \in DOMAIN payPayments' : /\ payPayments'[i].at <= payNow'
                                       /\ payPayments'[i].key \in {payPayments'[i].first, None}
    BY <1>1 DEF PayInv
  <1> QED BY <1>2, <1>3 DEF PayInv

\* A request that has found nothing to release.
PayPlain(q) ==
    \/ q.pc = "done"
    \/ q.pc \in {"find", "create"} /\ q.key \in PayKeys /\ q.params \in PayParams

\* One request moves on; the rows keep their keys' expiry.
LEMMA PayRequestStep ==
    ASSUME PayInv, NEW r \in Addr, NEW q, payReq' = [payReq EXCEPT ![r] = q],
           \/ PayPlain(q)
           \/ /\ q.pc = "release" /\ q.key \in PayKeys /\ q.params \in PayParams
              /\ q.old \in DOMAIN payPayments /\ payNow - payPayments[q.old].at > PayKeyTTL,
           DOMAIN payPayments \subseteq DOMAIN payPayments', UNCHANGED payNow,
           \A i \in DOMAIN payPayments : payPayments'[i].at = payPayments[i].at
    PROVE  DOMAIN payReq' = Addr /\ PayRequest'
  <1>1. DOMAIN payReq = Addr /\ PayRequest /\ DOMAIN payPayments = 1..Len(payPayments) /\ Len(payPayments) \in Nat
    BY DEF PayInv
  <1>2. \A s \in Addr : payReq'[s] = IF s = r THEN q ELSE payReq[s]
    BY <1>1
  <1>3. DOMAIN payReq' = Addr
    BY <1>1
  <1>4. ASSUME NEW s \in Addr
        PROVE  PayAsks(payReq'[s], payPayments', payNow')
    <2>1. CASE s = r
      BY <1>1, <1>2, <2>1 DEF PayPlain, PayAsks
    <2>2. CASE s # r
      <3>1. PayAsks(payReq[s], payPayments, payNow)
        BY <1>1 DEF PayRequest
      <3>2. PayAsks(payReq[s], payPayments', payNow)
        BY <1>1, <3>1 DEF PayAsks, Pay!New
      <3> QED BY <1>2, <2>2, <3>2
    <2> QED BY <2>1, <2>2
  <1> QED BY <1>3, <1>4 DEF PayRequest

\* A request that reads, or only answers.
LEMMA PayQuietInv ==
    ASSUME PayInv, UNCHANGED <<payPayments, payNow>>, DOMAIN payReq' = Addr, PayRequest'
    PROVE  PayInv'
  BY DEF PayInv, Pay!OneChargePerKey, Pay!Ids

\* What a request is before its step.
LEMMA PayAsked ==
    ASSUME PayInv, NEW r \in Addr, payReq[r].pc \in {"find", "release", "create"}
    PROVE  /\ payReq[r].key \in PayKeys /\ payReq[r].params \in PayParams
           /\ payReq[r].pc = "release" => payReq[r].old \in Nat /\ payReq[r].old \in DOMAIN payPayments
                                          /\ payNow - payPayments[payReq[r].old].at > PayKeyTTL
  BY DEF PayInv, PayRequest, PayAsks, Pay!New

LEMMA PayFindInv ==
    ASSUME PayInv, NEW r \in Addr,
           \/ Pay!FindNone(r) \/ Pay!FindExpired(r) \/ Pay!FindActive(r) \/ Pay!CreateConflicts(r)
           \/ \E k \in PayKeys, p \in PayParams : Pay!Receive(r, k, p)
    PROVE  PayInv'
  <1>1. UNCHANGED <<payPayments, payNow>>
    BY DEF Pay!FindNone, Pay!FindExpired, Pay!FindActive, Pay!CreateConflicts, Pay!Receive
  <1>2. DOMAIN payPayments \subseteq DOMAIN payPayments' /\ \A i \in DOMAIN payPayments : payPayments'[i].at = payPayments[i].at
    BY <1>1
  <1>3. ASSUME NEW q, payReq' = [payReq EXCEPT ![r] = q], PayPlain(q) PROVE PayInv'
    BY <1>1, <1>2, <1>3, PayRequestStep, PayQuietInv
  <1>4. ASSUME NEW q, payReq' = [payReq EXCEPT ![r] = q],
               q.pc = "release", q.key \in PayKeys, q.params \in PayParams,
               q.old \in DOMAIN payPayments, payNow - payPayments[q.old].at > PayKeyTTL
        PROVE  PayInv'
    BY <1>1, <1>2, <1>4, PayRequestStep, PayQuietInv
  <1>5. PayPlain(Pay!Done)
    BY DEF PayPlain, Pay!Done
  <1>6. CASE \E k \in PayKeys, p \in PayParams : Pay!Receive(r, k, p)
    <2>1. PICK k \in PayKeys, p \in PayParams : Pay!Receive(r, k, p)
      BY <1>6
    <2> DEFINE q == [pc |-> "find", key |-> k, params |-> p, again |-> FALSE, old |-> None]
    <2>2. payReq' = [payReq EXCEPT ![r] = q] /\ PayPlain(q)
      BY <2>1 DEF Pay!Receive, PayPlain
    <2> HIDE DEF q
    <2> QED BY <1>3, <2>2
  <1>7. CASE Pay!FindNone(r)
    <2> DEFINE q == [payReq[r] EXCEPT !.pc = "create"]
    <2>1. payReq[r].pc = "find" /\ (payReq' = [payReq EXCEPT ![r] = Pay!Done] \/ payReq' = [payReq EXCEPT ![r] = q])
      BY <1>7 DEF Pay!FindNone
    <2>2. payReq[r].key \in PayKeys /\ payReq[r].params \in PayParams
      BY <2>1, PayAsked
    <2>3. PayPlain(q)
      BY <2>1, <2>2 DEF PayPlain
    <2> HIDE DEF q
    <2> QED BY <1>3, <1>5, <2>1, <2>3
  <1>8. CASE Pay!FindExpired(r)
    <2>1. PICK i \in Pay!RowsWith(payReq[r].key) :
             Pay!KeyExpired(i) /\ payReq' = [payReq EXCEPT ![r].pc = "release", ![r].old = i]
      BY <1>8 DEF Pay!FindExpired
    <2> DEFINE q == [payReq[r] EXCEPT !.pc = "release", !.old = i]
    <2>2. payReq[r].pc = "find" /\ payReq' = [payReq EXCEPT ![r] = q] /\ i \in DOMAIN payPayments
          /\ payNow - payPayments[i].at > PayKeyTTL
      BY <1>8, <2>1 DEF Pay!FindExpired, Pay!RowsWith, Pay!Ids, Pay!KeyExpired
    <2>3. payReq[r].key \in PayKeys /\ payReq[r].params \in PayParams
      BY <2>2, PayAsked
    <2>4. q.pc = "release" /\ q.old = i /\ q.key \in PayKeys /\ q.params \in PayParams
      BY <2>2, <2>3
    <2> HIDE DEF q
    <2> QED BY <1>4, <2>2, <2>4
  <1>9. CASE Pay!FindActive(r)
    <2>1. PICK i : \/ payReq' = [payReq EXCEPT ![r] = Pay!Done]
                   \/ payReq' = Pay!Answer(r, i, TRUE)
      BY <1>9 DEF Pay!FindActive
    <2> DEFINE q == [pc |-> "done", params |-> payReq[r].params, payment |-> i, replay |-> TRUE]
    <2>2. payReq' = [payReq EXCEPT ![r] = Pay!Done] \/ payReq' = [payReq EXCEPT ![r] = q]
      BY <2>1 DEF Pay!Answer
    <2>3. PayPlain(q)
      BY DEF PayPlain
    <2> HIDE DEF q
    <2> QED BY <1>3, <1>5, <2>2, <2>3
  <1>10. CASE Pay!CreateConflicts(r)
    <2> DEFINE q == [payReq[r] EXCEPT !.pc = "find", !.again = TRUE]
    <2>1. payReq[r].pc = "create" /\ payReq' = [payReq EXCEPT ![r] = q]
      BY <1>10 DEF Pay!CreateConflicts
    <2>2. payReq[r].key \in PayKeys /\ payReq[r].params \in PayParams
      BY <2>1, PayAsked
    <2>3. PayPlain(q)
      BY <2>1, <2>2 DEF PayPlain
    <2> HIDE DEF q
    <2> QED BY <1>3, <2>1, <2>3
  <1> QED BY <1>6, <1>7, <1>8, <1>9, <1>10

LEMMA PayReleaseInv == ASSUME PayInv, NEW r \in Addr, Pay!Release(r) PROVE PayInv'
  <1> DEFINE o == payReq[r].old
             q == [payReq[r] EXCEPT !.pc = "create"]
  <1>1. /\ payReq[r].pc = "release" /\ payPayments' = [payPayments EXCEPT ![o].key = None]
        /\ (payReq' = [payReq EXCEPT ![r] = Pay!Done] \/ payReq' = [payReq EXCEPT ![r] = q]) /\ UNCHANGED payNow
    BY DEF Pay!Release
  <1>2. payReq[r].key \in PayKeys /\ payReq[r].params \in PayParams /\ o \in DOMAIN payPayments
        /\ payNow - payPayments[o].at > PayKeyTTL
    BY <1>1, PayAsked
  <1>3. PayPlain(q) /\ PayPlain(Pay!Done)
    BY <1>1, <1>2 DEF PayPlain, Pay!Done
  <1> HIDE DEF q, o
  <1>4. /\ payPayments' \in Seq(Payment) /\ DOMAIN payPayments' = DOMAIN payPayments
        /\ \A i \in DOMAIN payPayments :
              /\ payPayments'[i].first = payPayments[i].first /\ payPayments'[i].at = payPayments[i].at
              /\ \/ payPayments'[i].key = payPayments[i].key
                 \/ payPayments'[i].key = None /\ payNow - payPayments[i].at > PayKeyTTL
    <2> DEFINE S == Payment
               n == Len(payPayments)
    <2>1. payPayments \in Seq(S)
      BY DEF PayInv
    <2> HIDE DEF S
    <2>2. payPayments \in [1..n -> S] /\ n \in Nat /\ DOMAIN payPayments = 1..n
      BY <2>1
    <2>3. payPayments[o] \in S
      BY <1>2, <2>2
    <2> DEFINE v == [payPayments[o] EXCEPT !.key = None]
    <2>4. v \in S /\ v.first = payPayments[o].first /\ v.at = payPayments[o].at /\ v.key = None
      BY <2>3 DEF S, Payment
    <2>5. payPayments' = [payPayments EXCEPT ![o] = v]
      BY <1>1
    <2> HIDE DEF v, n
    <2>6. payPayments' \in [1..n -> S] /\ DOMAIN payPayments' = DOMAIN payPayments
          /\ \A i \in DOMAIN payPayments : payPayments'[i] = IF i = o THEN v ELSE payPayments[i]
      BY <1>2, <2>2, <2>4, <2>5
    <2>7. payPayments' \in Seq(S)
      BY <2>2, <2>6
    <2> QED BY <1>2, <2>4, <2>6, <2>7 DEF S
  <1>5. DOMAIN payReq' = Addr /\ PayRequest'
    BY <1>1, <1>3, <1>4, PayRequestStep
  <1>6. payNow' \in Nat /\ payNow' >= payNow
    BY <1>1 DEF PayInv
  <1> QED BY <1>4, <1>5, <1>6, PayKept

\* A payment made while no row holds its key: the earlier ones of that key
\* have been released, so they are older than a key lives.
LEMMA PayCreateInv == ASSUME PayInv, NEW r \in Addr, Pay!Create(r) PROVE PayInv'
  <1> DEFINE k == payReq[r].key
             row == [key |-> k, first |-> k, params |-> payReq[r].params, status |-> "pending", at |-> payNow]
             n == Len(payPayments)
             q == [pc |-> "done", params |-> payReq[r].params, payment |-> n + 1, replay |-> FALSE]
  <1>1. /\ payReq[r].pc = "create" /\ payPayments' = Append(payPayments, row)
        /\ payReq' = [payReq EXCEPT ![r] = q] /\ UNCHANGED payNow
        /\ \A i \in DOMAIN payPayments : payPayments[i].key # k
    BY DEF Pay!Create, Pay!Answer, Pay!KeyIsFree, Pay!RowsWith, Pay!Ids
  <1>2. k \in PayKeys /\ payReq[r].params \in PayParams /\ payNow \in Nat
    BY <1>1, PayAsked DEF PayInv
  <1>3. row \in Payment /\ row.key = k /\ row.first = k /\ row.at = payNow /\ PayPlain(q)
    BY <1>2 DEF Payment, PayPlain
  <1> HIDE DEF row, q, k
  <1>4. /\ payPayments' \in Seq(Payment) /\ n \in Nat /\ DOMAIN payPayments = 1..n /\ DOMAIN payPayments' = 1..(n + 1)
        /\ payPayments'[n + 1] = row
        /\ \A i \in 1..n : payPayments'[i] = payPayments[i] /\ payPayments[i].at \in Nat
    <2> DEFINE S == Payment
    <2>1. payPayments \in Seq(S) /\ row \in S
      BY <1>3 DEF PayInv
    <2> HIDE DEF S
    <2>2. /\ Append(payPayments, row) \in Seq(S) /\ n \in Nat /\ DOMAIN payPayments = 1..n
          /\ DOMAIN Append(payPayments, row) = 1..(n + 1) /\ Append(payPayments, row)[n + 1] = row
          /\ \A i \in 1..n : Append(payPayments, row)[i] = payPayments[i] /\ payPayments[i] \in S
      BY <2>1
    <2> HIDE DEF n
    <2> QED BY <1>1, <2>2 DEF S, Payment
  <1> HIDE DEF n
  <1>5. DOMAIN payReq' = Addr /\ PayRequest'
    <2>1. DOMAIN payPayments \subseteq DOMAIN payPayments' /\ \A i \in DOMAIN payPayments : payPayments'[i].at = payPayments[i].at
      BY <1>4
    <2> QED BY <1>1, <1>3, <2>1, PayRequestStep
  <1>6. \A i \in 1..n : /\ payPayments[i].at <= payNow /\ payPayments[i].key \in {payPayments[i].first, None}
                        /\ payPayments[i].key = None => payNow - payPayments[i].at > PayKeyTTL
    BY <1>4 DEF PayInv, Pay!OneChargePerKey, Pay!Ids
  <1>7. ASSUME NEW i \in DOMAIN payPayments', NEW j \in DOMAIN payPayments', i < j, payPayments'[i].first = payPayments'[j].first
        PROVE  payPayments'[j].at - payPayments'[i].at > PayKeyTTL
    <2>1. i \in 1..n /\ payPayments'[i] = payPayments[i]
      <3>1. i \in 1..(n + 1) /\ j \in 1..(n + 1)
        BY <1>4
      <3> QED BY <1>4, <1>7, <3>1
    <2>2. CASE j = n + 1
      <3>1. payPayments'[j].at = payNow /\ payPayments[i].first = k
        BY <1>3, <1>4, <1>7, <2>1, <2>2
      <3>2. payPayments[i].key = None
        BY <1>1, <1>4, <1>6, <2>1, <3>1
      <3> QED BY <1>6, <2>1, <3>1, <3>2
    <2>3. CASE j # n + 1
      <3>1. j \in 1..n /\ payPayments'[j] = payPayments[j]
        BY <1>4, <1>7, <2>3
      <3> QED BY <1>4, <1>7, <2>1, <3>1 DEF PayInv, Pay!OneChargePerKey, Pay!Ids
    <2> QED BY <2>2, <2>3
  <1>8. ASSUME NEW i \in DOMAIN payPayments'
        PROVE  /\ payPayments'[i].at <= payNow /\ payPayments'[i].key \in {payPayments'[i].first, None}
               /\ payPayments'[i].key = None => payNow - payPayments'[i].at > PayKeyTTL
    <2>1. CASE i = n + 1
      BY <1>2, <1>3, <1>4, <2>1, PaymentAssumption
    <2>2. CASE i # n + 1
      BY <1>4, <1>6, <1>8, <2>2
    <2> QED BY <2>1, <2>2
  <1>9. Pay!OneChargePerKey'
    BY <1>1, <1>7, <1>8 DEF Pay!OneChargePerKey, Pay!Ids
  <1> QED BY <1>1, <1>2, <1>4, <1>5, <1>8, <1>9 DEF PayInv

LEMMA PayWebhookInv ==
    ASSUME PayInv, NEW o \in Pay!Ids, NEW status \in PayStatuses, Pay!HandleWebhook(o, status) PROVE PayInv'
  <1> DEFINE S == Payment
             n == Len(payPayments)
             v == [payPayments[o] EXCEPT !.status = status]
  <1>1. payPayments' = [payPayments EXCEPT ![o] = v] /\ UNCHANGED <<payReq, payNow>>
    BY DEF Pay!HandleWebhook
  <1>2. payPayments \in Seq(S) /\ o \in DOMAIN payPayments
    BY DEF PayInv, Pay!Ids
  <1> HIDE DEF S
  <1>3. payPayments \in [1..n -> S] /\ n \in Nat /\ DOMAIN payPayments = 1..n /\ payPayments[o] \in S
    BY <1>2
  <1>4. v \in S /\ v.key = payPayments[o].key /\ v.first = payPayments[o].first /\ v.at = payPayments[o].at
    BY <1>3 DEF S, Payment
  <1> HIDE DEF v, n
  <1>5. payPayments' \in [1..n -> S] /\ DOMAIN payPayments' = DOMAIN payPayments
        /\ \A i \in DOMAIN payPayments : payPayments'[i] = IF i = o THEN v ELSE payPayments[i]
    BY <1>1, <1>2, <1>3, <1>4
  <1>6. payPayments' \in Seq(Payment)
    BY <1>3, <1>5 DEF S
  <1>7. \A i \in DOMAIN payPayments :
              /\ payPayments'[i].first = payPayments[i].first /\ payPayments'[i].at = payPayments[i].at
              /\ payPayments'[i].key = payPayments[i].key
    BY <1>4, <1>5
  <1>8. DOMAIN payReq' = Addr /\ PayRequest'
    <2>1. ASSUME NEW r \in Addr PROVE PayAsks(payReq[r], payPayments', payNow)
      <3>1. PayAsks(payReq[r], payPayments, payNow)
        BY DEF PayInv, PayRequest
      <3> QED BY <1>5, <1>7, <3>1 DEF PayAsks
    <2> QED BY <1>1, <2>1 DEF PayInv, PayRequest
  <1>9. payNow' \in Nat /\ payNow' >= payNow
    BY <1>1 DEF PayInv
  <1> QED BY <1>5, <1>6, <1>7, <1>8, <1>9, PayKept

LEMMA PayInvNext == PayInv /\ [Pay!Next]_(Pay!vars) => PayInv'
  <1> SUFFICES ASSUME PayInv, [Pay!Next]_(Pay!vars) PROVE PayInv'
    OBVIOUS
  <1>1. ASSUME Pay!Reconcile \/ UNCHANGED Pay!vars PROVE PayInv'
    <2>1. UNCHANGED <<payPayments, payReq, payNow>>
      BY <1>1 DEF Pay!Reconcile, Pay!vars
    <2> QED BY <2>1 DEF PayInv, PayRequest, Pay!New, Pay!OneChargePerKey, Pay!Ids
  <1>2. ASSUME Pay!Tick PROVE PayInv'
    <2>1. payNow' = payNow + 1 /\ UNCHANGED <<payPayments, payReq>> /\ payNow \in Nat
      BY <1>2 DEF Pay!Tick, PayInv
    <2>2. payPayments' \in Seq(Payment) /\ payNow' \in Nat /\ payNow' >= payNow
      BY <2>1 DEF PayInv
    <2>3. \A i \in DOMAIN payPayments : payPayments[i].at \in Nat
      <3> DEFINE S == Payment
      <3>1. payPayments \in Seq(S)
        BY DEF PayInv
      <3> HIDE DEF S
      <3>2. \A i \in DOMAIN payPayments : payPayments[i] \in S
        BY <3>1
      <3> QED BY <3>2 DEF S, Payment
    <2>4. PayRequest' /\ DOMAIN payReq' = Addr
      <3>1. ASSUME NEW r \in Addr PROVE PayAsks(payReq[r], payPayments, payNow + 1)
        <4>1. PayAsks(payReq[r], payPayments, payNow)
          BY DEF PayInv, PayRequest
        <4> DEFINE q == payReq[r]
                   t == payNow + 1
        <4>3. \A i \in DOMAIN payPayments : payNow - payPayments[i].at > PayKeyTTL => t - payPayments[i].at > PayKeyTTL
          BY <2>1, <2>3, PaymentAssumption
        <4>4. PayAsks(q, payPayments, payNow)
          BY <4>1
        <4> HIDE DEF q, t
        <4>5. PayAsks(q, payPayments, t)
          BY <4>3, <4>4 DEF PayAsks
        <4> QED BY <4>5 DEF q, t
      <3> QED BY <2>1, <3>1 DEF PayInv, PayRequest
    <2> QED BY <2>1, <2>2, <2>4, PayKept
  <1> QED BY <1>1, <1>2, PayFindInv, PayReleaseInv, PayCreateInv, PayWebhookInv DEF Pay!Next

-----------------------------------------------------------------------------
(***************************************************************************)
(* Referrals, for any users, limits of a code and tiers.                   *)
(***************************************************************************)

LEMMA RefCardinality == \A S : Ref!Cardinality(S) = Cardinality(S)
  BY DEF Ref!Cardinality, Cardinality

RefReward == [referee : RefUsers, user : RefUsers, amount : Int, type : {"referrer_commission", "referee_bonus"}]

RefReferred(refs) == {v \in RefUsers : refs[v] # None}

RefMade(refs, u) == {v \in RefReferred(refs) : refs[v].referrer = u}

RefRows(rows, u, type) == {k \in DOMAIN rows : rows[k].referee = u /\ rows[k].type = type}

\* A code counts the referrals made with it; whoever has referred has one.
RefCounted(codes, refs, raced) ==
    /\ \A v \in RefReferred(refs) : refs[v].referrer # v /\ codes[refs[v].referrer] # None
    /\ \A u \in RefUsers : codes[u] # None =>
        /\ codes[u] = Cardinality(RefMade(refs, u))
        /\ RefMaxUses > 0 /\ u \notin raced => codes[u] <= RefMaxUses

\* The reward rows of a user, seen from his referral.
RefPaidFor(u, ref, rows, raced) ==
    LET com == RefRows(rows, u, "referrer_commission")
        bon == RefRows(rows, u, "referee_bonus")
    IN  /\ ref = None => com = {} /\ bon = {}
        /\ ref # None =>
            /\ Cardinality(com) = Cardinality(bon)
            /\ ref.status = "rewarded" <=> com # {}
            /\ Cardinality(com) > 1 => u \in raced
            /\ \A k \in com : rows[k].user = ref.referrer

\* What a request has read still holds, but for the count of uses.
RefAsks(q, codes, refs) ==
    \/ q = Ref!New
    \/ q.pc = "done"
    \/ /\ q.pc = "apply" /\ q.user \in RefUsers /\ q.row \in Ref!Referral
       /\ q.row.status # "rewarded" /\ q.row.referrer # q.user
       /\ codes[q.row.referrer] # None
       /\ q.uses \in Nat /\ (RefMaxUses > 0 => q.uses < RefMaxUses)
    \/ /\ q.pc = "qualify" /\ q.user \in RefReferred(refs) /\ q.row \in Ref!Referral
       /\ q.row.status = "pending" /\ q.row.referrer = refs[q.user].referrer
       /\ q.commission \in Int

RefTypes ==
    /\ refReferrals \in [RefUsers -> Ref!Referral \cup {None}]
    /\ refCodes \in [RefUsers -> Nat \cup {None}]
    /\ refRewards \in Seq(RefReward)
    /\ DOMAIN refReq = Addr
    /\ IsFiniteSet(RefReferred(refReferrals))

RefInv ==
    /\ RefTypes
    /\ RefCounted(refCodes, refReferrals, refRaced)
    /\ \A u \in RefUsers : RefPaidFor(u, refReferrals[u], refRewards, refRaced)
    /\ \A r \in Addr : RefAsks(refReq[r], refCodes, refReferrals)

LEMMA RefInvMeans == RefInv => Ref!RewardsFollowReferrals
  <1> SUFFICES ASSUME RefInv PROVE Ref!RewardsFollowReferrals
    OBVIOUS
  <1>1. Ref!Referees = RefReferred(refReferrals)
    BY DEF Ref!Referees, RefReferred
  <1>2. \A u \in RefUsers : {v \in Ref!Referees : refReferrals[v].referrer = u} = RefMade(refReferrals, u)
    BY <1>1 DEF RefMade
  <1>3. \A u : /\ Ref!Commissions(u) = RefRows(refRewards, u, "referrer_commission")
               /\ Ref!Bonuses(u) = RefRows(refRewards, u, "referee_bonus")
    BY DEF Ref!Commissions, Ref!Bonuses, RefRows
  <1>4. /\ \A u \in Ref!Referees : refReferrals[u].referrer # u
        /\ \A u \in RefUsers : refCodes[u] # None =>
            /\ refCodes[u] = Ref!Cardinality({v \in Ref!Referees : refReferrals[v].referrer = u})
            /\ RefMaxUses > 0 /\ u \notin refRaced => refCodes[u] <= RefMaxUses
    BY <1>1, <1>2, RefCardinality DEF RefInv, RefCounted
  <1>5. ASSUME NEW u \in Ref!Referees
        PROVE  /\ Ref!Cardinality(Ref!Commissions(u)) = Ref!Cardinality(Ref!Bonuses(u))
               /\ refReferrals[u].status = "rewarded" <=> Ref!Commissions(u) # {}
               /\ Ref!Cardinality(Ref!Commissions(u)) > 1 => u \in refRaced
               /\ \A k \in Ref!Commissions(u) : refRewards[k].user = refReferrals[u].referrer
    <2>1. u \in RefUsers /\ refReferrals[u] # None /\ RefPaidFor(u, refReferrals[u], refRewards, refRaced)
      BY <1>1 DEF RefInv, RefReferred
    <2> QED BY <1>3, <2>1, RefCardinality DEF RefPaidFor
  <1> QED BY <1>4, <1>5 DEF Ref!RewardsFollowReferrals

LEMMA RefInvInit == Ref!Init => RefInv
  <1> SUFFICES ASSUME Ref!Init PROVE RefInv
    OBVIOUS
  <1>1. /\ refCodes = [u \in RefUsers |-> None] /\ refReferrals = [u \in RefUsers |-> None] /\ refRewards = <<>>
        /\ refReq = [r \in Addr |-> Ref!New]
    BY DEF Ref!Init
  <1>2. RefReferred(refReferrals) = {}
    BY <1>1 DEF RefReferred
  <1>3. RefTypes
    <2>1. IsFiniteSet(RefReferred(refReferrals))
      BY <1>2, FS_EmptySet
    <2> QED BY <1>1, <2>1 DEF RefTypes
  <1>4. RefCounted(refCodes, refReferrals, refRaced)
    BY <1>1, <1>2 DEF RefCounted
  <1>5. \A u \in RefUsers : RefPaidFor(u, refReferrals[u], refRewards, refRaced)
    BY <1>1 DEF RefPaidFor, RefRows
  <1>6. \A r \in Addr : RefAsks(refReq[r], refCodes, refReferrals)
    BY <1>1 DEF RefAsks
  <1> QED BY <1>3, <1>4, <1>5, <1>6 DEF RefInv

\* A request that reads, or is answered.
LEMMA RefQuiet ==
    ASSUME RefInv, NEW r \in Addr, NEW q, refReq' = [refReq EXCEPT ![r] = q],
           RefAsks(q, refCodes, refReferrals),
           UNCHANGED <<refCodes, refReferrals, refRewards, refRaced>>
    PROVE  RefInv'
  <1>1. \A s \in Addr : refReq'[s] = IF s = r THEN q ELSE refReq[s]
    BY DEF RefInv, RefTypes
  <1>2. \A s \in Addr : RefAsks(refReq'[s], refCodes, refReferrals)
    BY <1>1 DEF RefInv
  <1>3. RefTypes'
    BY DEF RefInv, RefTypes
  <1> QED BY <1>2, <1>3 DEF RefInv

LEMMA RefCreateCodeInv == ASSUME RefInv, NEW u \in RefUsers, Ref!GetOrCreateCode(u) PROVE RefInv'
  <1>1. refCodes[u] = None /\ refCodes' = [refCodes EXCEPT ![u] = 0] /\ UNCHANGED <<refReferrals, refRewards, refReq, refRaced>>
    BY DEF Ref!GetOrCreateCode
  <1>2. /\ refCodes \in [RefUsers -> Nat \cup {None}]
        /\ refReferrals \in [RefUsers -> Ref!Referral \cup {None}]
    BY DEF RefInv, RefTypes
  <1>3. refCodes' \in [RefUsers -> Nat \cup {None}] /\ \A v \in RefUsers : refCodes'[v] = IF v = u THEN 0 ELSE refCodes[v]
    BY <1>1, <1>2
  <1>4. \A v \in RefReferred(refReferrals) : refReferrals[v].referrer \in RefUsers
    BY <1>2 DEF RefReferred, Ref!Referral
  <1>5. RefMade(refReferrals, u) = {}
    BY <1>1 DEF RefInv, RefCounted, RefMade
  <1>6. RefCounted(refCodes', refReferrals, refRaced)
    <2>1. \A v \in RefReferred(refReferrals) : refReferrals[v].referrer # v /\ refCodes'[refReferrals[v].referrer] # None
      BY <1>3, <1>4, ReferralAssumption, SMTT(30) DEF RefInv, RefCounted
    <2>2. refCodes'[u] = Cardinality(RefMade(refReferrals, u)) /\ (RefMaxUses > 0 => refCodes'[u] <= RefMaxUses)
      <3>1. refCodes'[u] = 0 /\ Cardinality(RefMade(refReferrals, u)) = 0
        BY <1>3, <1>5, FS_EmptySet
      <3> QED BY <3>1, ReferralAssumption
    <2>3. \A v \in RefUsers : v # u => refCodes'[v] = refCodes[v]
      BY <1>3
    <2> QED BY <2>1, <2>2, <2>3 DEF RefInv, RefCounted
  <1>7. ASSUME NEW r \in Addr PROVE RefAsks(refReq[r], refCodes', refReferrals)
    <2>1. RefAsks(refReq[r], refCodes, refReferrals)
      BY DEF RefInv
    <2>2. \A v \in RefUsers : refCodes[v] # None => refCodes'[v] # None
      BY <1>3, ReferralAssumption
    <2> QED BY <2>1, <2>2 DEF RefAsks, Ref!Referral, Ref!New
  <1>8. RefTypes'
    BY <1>1, <1>3 DEF RefInv, RefTypes
  <1> QED BY <1>1, <1>6, <1>7, <1>8 DEF RefInv

LEMMA RefApplyCheckInv ==
    ASSUME RefInv, NEW r \in Addr, NEW u \in RefUsers, NEW owner \in RefUsers, NEW ip \in RefIPs,
           Ref!ApplyCheck(r, u, owner, ip)
    PROVE  RefInv'
  <1> DEFINE row == [referrer |-> owner, status |-> IF Ref!ipCollision(owner, ip) THEN "rejected" ELSE "pending",
                     amount |-> 0, ip |-> ip]
             q == [pc |-> "apply", user |-> u, uses |-> refCodes[owner], row |-> row]
  <1>1. /\ refCodes[owner] # None /\ (RefMaxUses > 0 => refCodes[owner] < RefMaxUses) /\ owner # u
        /\ refReq' = [refReq EXCEPT ![r] = q] /\ UNCHANGED <<refCodes, refReferrals, refRewards, refRaced>>
    BY DEF Ref!ApplyCheck, Ref!MayUse
  <1>2. refCodes[owner] \in Nat
    BY <1>1 DEF RefInv, RefTypes
  <1>3. row \in Ref!Referral /\ row.status # "rewarded" /\ row.referrer = owner
    BY DEF Ref!Referral
  <1> HIDE DEF row
  <1>4. RefAsks(q, refCodes, refReferrals)
    BY <1>1, <1>2, <1>3 DEF RefAsks
  <1> HIDE DEF q
  <1> QED BY <1>1, <1>4, RefQuiet

LEMMA RefQualifyReadInv ==
    ASSUME RefInv, NEW r \in Addr, NEW u \in Ref!Referees, Ref!QualifyRead(r, u)
    PROVE  RefInv'
  <1> DEFINE o == refReferrals[u].referrer
             good == {k \in DOMAIN RefTiers : Cardinality(Ref!Rewarded(o)) >= RefTiers[k].min}
             q == [pc |-> "qualify", user |-> u, row |-> refReferrals[u], commission |-> Ref!tierFor(o).commission]
  <1>1. /\ refReferrals[u].status = "pending" /\ refReq' = [refReq EXCEPT ![r] = q]
        /\ UNCHANGED <<refCodes, refReferrals, refRewards, refRaced>>
    BY DEF Ref!QualifyRead, Ref!Unrewarded
  <1>2. u \in RefReferred(refReferrals) /\ refReferrals[u] \in Ref!Referral
    BY DEF Ref!Referees, RefReferred, RefInv, RefTypes
  <1>3. Cardinality(Ref!Rewarded(o)) \in Nat
    <2>1. Ref!Rewarded(o) \in SUBSET RefReferred(refReferrals)
      BY DEF Ref!Rewarded, Ref!Referees, RefReferred
    <2>2. IsFiniteSet(RefReferred(refReferrals))
      BY DEF RefInv, RefTypes
    <2>3. IsFiniteSet(Ref!Rewarded(o))
      BY <2>1, <2>2, FS_Subset
    <2> QED BY <2>3, FS_CardinalityType
  <1>4. PICK k \in good : \A j \in good : k <= j
    <2> DEFINE T == [min : Nat, commission : Int]
               n == Len(RefTiers)
    <2>1. RefTiers \in Seq(T)
      BY ReferralAssumption
    <2> HIDE DEF T
    <2>2. n \in Nat /\ DOMAIN RefTiers = 1..n /\ \A k \in 1..n : RefTiers[k] \in T
      BY <2>1
    <2>3. good \in SUBSET (0..n) /\ good # {}
      BY <1>3, <2>2, ReferralAssumption DEF T
    <2> HIDE DEF good, n
    <2> QED BY <2>2, <2>3, LeastNumber
  <1>5. Ref!tierFor(o).commission \in Int
    <2>1. good = {j \in DOMAIN RefTiers : Ref!Cardinality(Ref!Rewarded(o)) >= RefTiers[j].min}
      BY RefCardinality
    <2>2. Ref!tierFor(o) = RefTiers[Ref!Min(good)]
      BY <2>1 DEF Ref!tierFor
    <2>3. Ref!Min(good) \in good
      BY <1>4 DEF Ref!Min
    <2> DEFINE T == [min : Nat, commission : Int]
    <2>4. RefTiers \in Seq(T)
      BY ReferralAssumption
    <2> HIDE DEF T
    <2>5. \A j \in DOMAIN RefTiers : RefTiers[j] \in T
      BY <2>4
    <2> QED BY <2>2, <2>3, <2>5 DEF T
  <1>6. RefAsks(q, refCodes, refReferrals)
    BY <1>1, <1>2, <1>5 DEF RefAsks
  <1> HIDE DEF q
  <1> QED BY <1>1, <1>6, RefQuiet

\* A referral is made: the code of its referrer counts one more.
LEMMA RefApplyInv == ASSUME RefInv, NEW r \in Addr, Ref!ApplyReferral(r) PROVE RefInv'
  <1> DEFINE u == refReq[r].user
             row == refReq[r].row
             uses == refReq[r].uses
             o == row.referrer
  <1>1. /\ refReq[r].pc = "apply" /\ refReq' = [refReq EXCEPT ![r] = Ref!Done] /\ UNCHANGED refRewards
        /\ \/ UNCHANGED <<refCodes, refReferrals, refRaced>>
           \/ /\ refReferrals[u] = None
              /\ refReferrals' = [refReferrals EXCEPT ![u] = row]
              /\ refCodes' = [refCodes EXCEPT ![o] = refCodes[o] + 1]
              /\ refRaced' = IF refCodes[o] # uses THEN refRaced \cup {o} ELSE refRaced
    BY DEF Ref!ApplyReferral, Ref!IsUnique
  <1>2. /\ u \in RefUsers /\ row \in Ref!Referral /\ row.status # "rewarded" /\ o # u /\ refCodes[o] # None
        /\ uses \in Nat /\ (RefMaxUses > 0 => uses < RefMaxUses)
    BY <1>1 DEF RefInv, RefAsks, Ref!New
  <1>3. RefAsks(Ref!Done, refCodes, refReferrals)
    BY DEF RefAsks, Ref!Done
  <1>4. CASE UNCHANGED <<refCodes, refReferrals, refRaced>>
    BY <1>1, <1>3, <1>4, RefQuiet
  <1>5. CASE /\ refReferrals[u] = None
             /\ refReferrals' = [refReferrals EXCEPT ![u] = row]
             /\ refCodes' = [refCodes EXCEPT ![o] = refCodes[o] + 1]
             /\ refRaced' = IF refCodes[o] # uses THEN refRaced \cup {o} ELSE refRaced
    <2>1. o \in RefUsers /\ row # None /\ refCodes[o] \in Nat /\ None \notin Nat
      BY <1>2, ReferralAssumption DEF Ref!Referral, RefInv, RefTypes
    <2> HIDE DEF u, row, uses, o
    <2>2. /\ refReferrals \in [RefUsers -> Ref!Referral \cup {None}]
          /\ refReferrals' \in [RefUsers -> Ref!Referral \cup {None}]
          /\ \A v \in RefUsers : refReferrals'[v] = IF v = u THEN row ELSE refReferrals[v]
      BY <1>2, <1>5 DEF RefInv, RefTypes
    <2>3. /\ refCodes' \in [RefUsers -> Nat \cup {None}]
          /\ \A v \in RefUsers : refCodes'[v] = IF v = o THEN refCodes[o] + 1 ELSE refCodes[v]
      BY <2>1, <1>5 DEF RefInv, RefTypes
    <2>4. /\ RefReferred(refReferrals') = RefReferred(refReferrals) \cup {u}
          /\ u \notin RefReferred(refReferrals) /\ IsFiniteSet(RefReferred(refReferrals))
      BY <1>2, <1>5, <2>1, <2>2 DEF RefReferred, RefInv, RefTypes
    <2>5. RefMade(refReferrals', o) = RefMade(refReferrals, o) \cup {u} /\ u \notin RefMade(refReferrals, o)
          /\ IsFiniteSet(RefMade(refReferrals, o))
      <3>1. RefMade(refReferrals, o) \in SUBSET RefReferred(refReferrals)
        BY DEF RefMade
      <3>2. IsFiniteSet(RefMade(refReferrals, o))
        BY <2>4, <3>1, FS_Subset
      <3> QED BY <1>2, <2>2, <2>4, <3>2 DEF RefMade, RefReferred, o
    <2>6. ASSUME NEW v \in RefUsers, v # o PROVE RefMade(refReferrals', v) = RefMade(refReferrals, v)
      BY <1>2, <2>2, <2>4, <2>6 DEF RefMade, RefReferred, o
    <2>7. RefCounted(refCodes', refReferrals', refRaced')
      <3>1. \A v \in RefReferred(refReferrals) : /\ refReferrals[v].referrer # v /\ refCodes[refReferrals[v].referrer] # None
                                                 /\ refReferrals[v].referrer \in RefUsers
        BY <2>2 DEF RefInv, RefCounted, RefReferred, Ref!Referral
      <3>2. \A v \in RefUsers : refCodes[v] # None => refCodes'[v] # None
        BY <2>1, <2>3
      <3>3. ASSUME NEW v \in RefReferred(refReferrals')
            PROVE  refReferrals'[v].referrer # v /\ refCodes'[refReferrals'[v].referrer] # None
        <4>1. CASE v = u
          BY <1>2, <2>1, <2>2, <3>2, <4>1 DEF o
        <4>2. CASE v # u
          <5>1. v \in RefReferred(refReferrals) /\ refReferrals'[v] = refReferrals[v]
            BY <2>2, <2>4, <4>2 DEF RefReferred
          <5> QED BY <3>1, <3>2, <5>1
        <4> QED BY <4>1, <4>2
      <3>4. /\ refCodes[o] = Cardinality(RefMade(refReferrals, o))
            /\ RefMaxUses > 0 /\ o \notin refRaced => refCodes[o] <= RefMaxUses
        BY <1>2, <2>1 DEF RefInv, RefCounted
      <3>5. refCodes'[o] = Cardinality(RefMade(refReferrals', o))
        BY <2>1, <2>3, <2>5, <3>4, FS_AddElement
      <3>6. ASSUME RefMaxUses > 0, o \notin refRaced' PROVE refCodes'[o] <= RefMaxUses
        <4>1. refCodes[o] = uses /\ o \notin refRaced
          BY <1>5, <3>6
        <4> QED BY <1>2, <2>1, <2>3, <3>6, <4>1, ReferralAssumption
      <3>7. ASSUME NEW v \in RefUsers, v # o, refCodes'[v] # None
            PROVE  /\ refCodes'[v] = Cardinality(RefMade(refReferrals', v))
                   /\ RefMaxUses > 0 /\ v \notin refRaced' => refCodes'[v] <= RefMaxUses
        <4>1. refCodes'[v] = refCodes[v] /\ refRaced \subseteq refRaced'
          BY <1>5, <2>3, <3>7
        <4> QED BY <2>6, <3>7, <4>1 DEF RefInv, RefCounted
      <3> QED BY <3>3, <3>5, <3>6, <3>7 DEF RefCounted
    <2>8. ASSUME NEW v \in RefUsers PROVE RefPaidFor(v, refReferrals'[v], refRewards, refRaced')
      <3>1. RefPaidFor(v, refReferrals[v], refRewards, refRaced) /\ refRaced \subseteq refRaced'
        BY <1>5 DEF RefInv
      <3>2. CASE v # u
        <4>1. refReferrals'[v] = refReferrals[v]
          BY <2>2, <3>2
        <4> QED BY <3>1, <4>1 DEF RefPaidFor
      <3>3. CASE v = u
        <4>1. refReferrals'[v] = row /\ refReferrals[v] = None
          BY <1>5, <2>2, <3>3
        <4>2. /\ RefRows(refRewards, v, "referrer_commission") = {} /\ RefRows(refRewards, v, "referee_bonus") = {}
          BY <3>1, <4>1 DEF RefPaidFor
        <4> QED BY <1>2, <2>1, <4>1, <4>2, FS_EmptySet DEF RefPaidFor
      <3> QED BY <3>2, <3>3
    <2>9. ASSUME NEW s \in Addr PROVE RefAsks(refReq'[s], refCodes', refReferrals')
      <3>1. refReq'[s] = Ref!Done \/ refReq'[s] = refReq[s]
        BY <1>1 DEF RefInv, RefTypes
      <3>2. RefAsks(Ref!Done, refCodes', refReferrals')
        BY DEF RefAsks, Ref!Done
      <3>3. RefAsks(refReq[s], refCodes, refReferrals)
        BY DEF RefInv
      <3>4. /\ \A v \in RefUsers : refCodes[v] # None => refCodes'[v] # None
            /\ \A v \in RefReferred(refReferrals) : v \in RefReferred(refReferrals') /\ refReferrals'[v] = refReferrals[v]
        BY <1>5, <2>1, <2>2, <2>3, <2>4 DEF RefReferred
      <3>5. RefAsks(refReq[s], refCodes', refReferrals')
        BY <3>3, <3>4 DEF RefAsks, Ref!Referral, Ref!New
      <3> QED BY <3>1, <3>2, <3>5
    <2>10. RefTypes'
      <3>1. IsFiniteSet(RefReferred(refReferrals'))
        BY <2>4, FS_AddElement
      <3> QED BY <1>1, <2>2, <2>3, <3>1 DEF RefInv, RefTypes
    <2> QED BY <1>1, <2>7, <2>8, <2>9, <2>10 DEF RefInv
  <1> QED BY <1>1, <1>4, <1>5

\* The two rows of a qualification of u, the first of them the row a.
RefQualified(rows, new, u, a) ==
    /\ new \in Seq(RefReward)
    /\ \A v, type : IsFiniteSet(RefRows(rows, v, type))
    /\ \A v, type : v # u => RefRows(new, v, type) = RefRows(rows, v, type)
    /\ \E k : /\ k \notin RefRows(rows, u, "referrer_commission")
              /\ RefRows(new, u, "referrer_commission") = RefRows(rows, u, "referrer_commission") \cup {k}
              /\ new[k] = a
    /\ \E k : /\ k \notin RefRows(rows, u, "referee_bonus")
              /\ RefRows(new, u, "referee_bonus") = RefRows(rows, u, "referee_bonus") \cup {k}
    /\ \A k \in DOMAIN rows : new[k] = rows[k]

LEMMA RefRowsAppend ==
    ASSUME NEW rows \in Seq(RefReward), NEW a \in RefReward, NEW b \in RefReward, NEW u,
           a.referee = u, a.type = "referrer_commission", b.referee = u, b.type = "referee_bonus"
    PROVE  RefQualified(rows, rows \o <<a, b>>, u, a)
  <1> DEFINE S == RefReward
             n == Len(rows)
             new == rows \o <<a, b>>
  <1>1. rows \in Seq(S) /\ a \in S /\ b \in S
    OBVIOUS
  <1> HIDE DEF S
  <1>2. /\ new \in Seq(S) /\ n \in Nat /\ DOMAIN rows = 1..n /\ DOMAIN new = 1..(n + 2)
        /\ new[n + 1] = a /\ new[n + 2] = b /\ \A k \in 1..n : new[k] = rows[k]
    BY <1>1
  <1>3. \A v, type : IsFiniteSet(RefRows(rows, v, type))
    <2>1. \A v, type : RefRows(rows, v, type) \in SUBSET (1..n)
      BY <1>2 DEF RefRows
    <2>2. IsFiniteSet(1..n)
      BY <1>2, FS_Interval
    <2> HIDE DEF n
    <2> QED BY <2>1, <2>2, FS_Subset
  <1> HIDE DEF n, new
  <1>4. 1..(n + 2) = 1..n \cup {n + 1, n + 2} /\ n + 1 \notin 1..n /\ n + 2 \notin 1..n
    BY <1>2
  <1>5. \A v, type : v # u => RefRows(new, v, type) = RefRows(rows, v, type)
    BY <1>2, <1>4 DEF RefRows
  <1>6. /\ RefRows(new, u, "referrer_commission") = RefRows(rows, u, "referrer_commission") \cup {n + 1}
        /\ n + 1 \notin RefRows(rows, u, "referrer_commission")
    BY <1>2, <1>4 DEF RefRows
  <1>7. /\ RefRows(new, u, "referee_bonus") = RefRows(rows, u, "referee_bonus") \cup {n + 2}
        /\ n + 2 \notin RefRows(rows, u, "referee_bonus")
    BY <1>2, <1>4 DEF RefRows
  <1> QED BY <1>2, <1>3, <1>5, <1>6, <1>7 DEF new, S, RefQualified

LEMMA RefQualifyInv == ASSUME RefInv, NEW r \in Addr, Ref!QualifyReferral(r) PROVE RefInv'
  <1> DEFINE u == refReq[r].user
             row == refReq[r].row
             c == refReq[r].commission
             o == row.referrer
             done == [row EXCEPT !.status = "rewarded", !.amount = c]
             a == Ref!Reward(u, o, c, "referrer_commission")
             b == Ref!Reward(u, u, RefBonus, "referee_bonus")
  <1>1. /\ refReq[r].pc = "qualify" /\ refReq' = [refReq EXCEPT ![r] = Ref!Done] /\ UNCHANGED refCodes
        /\ refReferrals' = [refReferrals EXCEPT ![u] = done]
        /\ refRewards' = refRewards \o <<a, b>>
        /\ refRaced' = IF refReferrals[u] # row THEN refRaced \cup {u} ELSE refRaced
    BY DEF Ref!QualifyReferral
  <1>2. /\ u \in RefReferred(refReferrals) /\ row \in Ref!Referral /\ row.status = "pending"
        /\ o = refReferrals[u].referrer /\ c \in Int
    BY <1>1 DEF RefInv, RefAsks, Ref!New
  <1>3. /\ refReferrals \in [RefUsers -> Ref!Referral \cup {None}] /\ refRewards \in Seq(RefReward)
        /\ u \in RefUsers /\ o \in RefUsers
    BY <1>2 DEF RefInv, RefTypes, RefReferred, Ref!Referral
  <1>4. done \in Ref!Referral /\ done.referrer = o /\ done.status = "rewarded" /\ done # None
    BY <1>2, ReferralAssumption DEF Ref!Referral
  <1>5. /\ a \in RefReward /\ a.referee = u /\ a.type = "referrer_commission" /\ a.user = o
        /\ b \in RefReward /\ b.referee = u /\ b.type = "referee_bonus"
    BY <1>2, <1>3, ReferralAssumption DEF Ref!Reward, RefReward
  <1> HIDE DEF u, row, c, o, done, a, b
  <1>6. /\ refRewards' \in Seq(RefReward)
        /\ \A v, type : IsFiniteSet(RefRows(refRewards, v, type))
        /\ \A v, type : v # u => RefRows(refRewards', v, type) = RefRows(refRewards, v, type)
        /\ \E k : /\ k \notin RefRows(refRewards, u, "referrer_commission")
                  /\ RefRows(refRewards', u, "referrer_commission") = RefRows(refRewards, u, "referrer_commission") \cup {k}
                  /\ refRewards'[k] = a
        /\ \E k : /\ k \notin RefRows(refRewards, u, "referee_bonus")
                  /\ RefRows(refRewards', u, "referee_bonus") = RefRows(refRewards, u, "referee_bonus") \cup {k}
        /\ \A k \in DOMAIN refRewards : refRewards'[k] = refRewards[k]
    <2>1. RefQualified(refRewards, refRewards \o <<a, b>>, u, a)
      BY <1>3, <1>5, RefRowsAppend
    <2>2. RefQualified(refRewards, refRewards', u, a)
      BY <1>1, <2>1
    <2> QED BY <2>2 DEF RefQualified
  <1>7. /\ refReferrals' \in [RefUsers -> Ref!Referral \cup {None}]
        /\ \A v \in RefUsers : refReferrals'[v] = IF v = u THEN done ELSE refReferrals[v]
    BY <1>1, <1>3, <1>4
  <1>8. refReferrals[u] # None /\ refReferrals[u].referrer = o
    BY <1>2 DEF RefReferred
  <1>9. RefReferred(refReferrals') = RefReferred(refReferrals)
    BY <1>4, <1>7, <1>8 DEF RefReferred
  <1>10. \A v \in RefReferred(refReferrals) : refReferrals'[v].referrer = refReferrals[v].referrer
    BY <1>4, <1>7, <1>8 DEF RefReferred
  <1>11. \A v : RefMade(refReferrals', v) = RefMade(refReferrals, v)
    BY <1>9, <1>10 DEF RefMade
  <1>12. refRaced \subseteq refRaced'
    BY <1>1
  <1>13. RefCounted(refCodes', refReferrals', refRaced')
    BY <1>1, <1>9, <1>10, <1>11, <1>12 DEF RefInv, RefCounted
  <1>14. ASSUME NEW v \in RefUsers PROVE RefPaidFor(v, refReferrals'[v], refRewards', refRaced')
    <2>1. RefPaidFor(v, refReferrals[v], refRewards, refRaced)
      BY DEF RefInv
    <2>2. CASE v # u
      <3>1. refReferrals'[v] = refReferrals[v]
        BY <1>7, <2>2
      <3>2. /\ RefRows(refRewards', v, "referrer_commission") = RefRows(refRewards, v, "referrer_commission")
            /\ RefRows(refRewards', v, "referee_bonus") = RefRows(refRewards, v, "referee_bonus")
        BY <1>6, <2>2
      <3>3. \A k \in RefRows(refRewards, v, "referrer_commission") : refRewards'[k] = refRewards[k]
        BY <1>6 DEF RefRows
      <3> QED BY <1>12, <2>1, <3>1, <3>2, <3>3 DEF RefPaidFor
    <2>3. CASE v = u
      <3> DEFINE com == RefRows(refRewards, u, "referrer_commission")
                 bon == RefRows(refRewards, u, "referee_bonus")
                 com1 == RefRows(refRewards', u, "referrer_commission")
                 bon1 == RefRows(refRewards', u, "referee_bonus")
      <3>1. IsFiniteSet(com) /\ IsFiniteSet(bon)
        BY <1>6
      <3>2. PICK k : k \notin com /\ com1 = com \cup {k} /\ refRewards'[k] = a
        BY <1>6
      <3>3. PICK j : j \notin bon /\ bon1 = bon \cup {j}
        BY <1>6
      <3>4. /\ Cardinality(com) = Cardinality(bon)
            /\ refReferrals[u].status = "rewarded" <=> com # {}
            /\ \A l \in com : refRewards[l].user = o
        BY <1>8, <2>1, <2>3 DEF RefPaidFor
      <3>5. \A l \in com : refRewards'[l] = refRewards[l]
        BY <1>6 DEF RefRows
      <3> HIDE DEF com, bon, com1, bon1
      <3>6. Cardinality(com1) = Cardinality(com) + 1 /\ Cardinality(bon1) = Cardinality(bon) + 1
        BY <3>1, <3>2, <3>3, FS_AddElement
      <3>7. Cardinality(com1) > 1 => u \in refRaced'
        <4>1. CASE refReferrals[u] # row
          BY <1>1, <4>1
        <4>2. CASE refReferrals[u] = row
          <5>1. com = {}
            BY <1>2, <3>4, <4>2
          <5>2. Cardinality(com) = 0
            BY <5>1, FS_EmptySet
          <5> QED BY <3>6, <5>2
        <4> QED BY <4>1, <4>2
      <3>8. \A l \in com1 : refRewards'[l].user = o
        BY <1>5, <3>2, <3>4, <3>5
      <3>9. refReferrals'[u] = done /\ com1 # {}
        BY <1>3, <1>7, <3>2
      <3> QED BY <1>4, <2>3, <3>4, <3>6, <3>7, <3>8, <3>9 DEF RefPaidFor, com1, bon1
    <2> QED BY <2>2, <2>3
  <1>15. ASSUME NEW s \in Addr PROVE RefAsks(refReq'[s], refCodes', refReferrals')
    <2>1. refReq'[s] = Ref!Done \/ refReq'[s] = refReq[s]
      BY <1>1 DEF RefInv, RefTypes
    <2>2. RefAsks(Ref!Done, refCodes', refReferrals')
      BY DEF RefAsks, Ref!Done
    <2>3. RefAsks(refReq[s], refCodes, refReferrals)
      BY DEF RefInv
    <2>4. RefAsks(refReq[s], refCodes', refReferrals')
      BY <1>1, <1>9, <1>10, <2>3 DEF RefAsks
    <2> QED BY <2>1, <2>2, <2>4
  <1>16. RefTypes'
    BY <1>1, <1>6, <1>7, <1>9 DEF RefInv, RefTypes
  <1> QED BY <1>13, <1>14, <1>15, <1>16 DEF RefInv

LEMMA RefInvNext == RefInv /\ [Ref!Next]_(Ref!vars) => RefInv'
  <1> SUFFICES ASSUME RefInv, [Ref!Next]_(Ref!vars) PROVE RefInv'
    OBVIOUS
  <1>1. CASE UNCHANGED Ref!vars
    BY <1>1 DEF Ref!vars, RefInv, RefTypes
  <1> QED BY <1>1, RefCreateCodeInv, RefApplyCheckInv, RefApplyInv, RefQualifyReadInv, RefQualifyInv DEF Ref!Next

-----------------------------------------------------------------------------
(***************************************************************************)
(* Staking positions, for any amounts, rates and limits.                   *)
(***************************************************************************)

\* A position that is consistent in itself.
StkFields == [user : RefStakers, staked : Nat, accrued : Nat, claimed : Nat, since : Nat, active : BOOLEAN]

StkRow ==
    {p \in StkFields :
        p.claimed <= p.accrued /\ (IF p.active THEN p.staked > 0 ELSE p.staked = 0)}

\* A save adds to the claimed amount it has read what it pays out, and what it
\* has read as claimed had been paid.
StkSaves(q, rows, sums) ==
    /\ q.claim \in Nat
    /\ DOMAIN q.read = DOMAIN q.save /\ DOMAIN q.save \subseteq DOMAIN rows
    /\ \A i \in DOMAIN q.save :
        /\ q.save[i] \in StkRow /\ q.read[i] \in StkRow
        /\ q.save[i].claimed = q.read[i].claimed + q.claim
        /\ q.read[i].claimed <= sums[i]

StkOpens(new) == new = <<>> \/ \E row \in StkRow : row.claimed = 0 /\ new = <<row>>

StkAsks(q, rows, sums) ==
    \/ q = Ref!New
    \/ q.pc = "done"
    \/ q.pc = "commit" /\ StkOpens(q.new) /\ StkSaves(q, rows, sums)

\* What has been paid on a position, against what its row counts as claimed.
StkPaid(rows, sums, lost) ==
    \A i \in DOMAIN rows : sums[i] >= rows[i].claimed /\ (i \notin lost => sums[i] = rows[i].claimed)

StkInv ==
    /\ refNow \in Nat
    /\ refPositions \in Seq(StkRow) /\ refPaid \in Seq(Nat) /\ Len(refPaid) = Len(refPositions)
    /\ StkPaid(refPositions, refPaid, refLost)
    /\ DOMAIN refStakeReq = Addr
    /\ \A r \in Addr : StkAsks(refStakeReq[r], refPositions, refPaid)

\* The rows of the table, with the opaque name of their set.
LEMMA StkRows ==
    ASSUME StkInv
    PROVE  /\ Len(refPositions) \in Nat /\ DOMAIN refPositions = 1..Len(refPositions)
           /\ DOMAIN refPaid = DOMAIN refPositions
           /\ \A i \in DOMAIN refPositions : refPositions[i] \in StkRow /\ refPaid[i] \in Nat
  <1> DEFINE S == StkRow
  <1>1. refPositions \in Seq(S) /\ refPaid \in Seq(Nat) /\ Len(refPaid) = Len(refPositions)
    BY DEF StkInv
  <1> HIDE DEF S
  <1>2. /\ Len(refPositions) \in Nat /\ DOMAIN refPositions = 1..Len(refPositions) /\ DOMAIN refPaid = 1..Len(refPositions)
        /\ \A i \in 1..Len(refPositions) : refPositions[i] \in S /\ refPaid[i] \in Nat
    BY <1>1
  <1> QED BY <1>2 DEF S

LEMMA StkInvMeans == StkInv => Ref!ClaimsAreCounted
  <1> SUFFICES ASSUME StkInv, NEW i \in Ref!Ids
               PROVE  /\ 0 <= refPositions[i].claimed /\ refPositions[i].claimed <= refPositions[i].accrued
                      /\ refPositions[i].staked >= 0 /\ (refPositions[i].active <=> refPositions[i].staked > 0)
                      /\ refPaid[i] >= refPositions[i].claimed
                      /\ i \notin refLost => refPaid[i] = refPositions[i].claimed
    BY DEF Ref!ClaimsAreCounted
  <1>1. i \in DOMAIN refPositions
    BY DEF Ref!Ids
  <1>2. refPositions[i] \in StkRow
    BY <1>1, StkRows
  <1>3. refPaid[i] >= refPositions[i].claimed /\ (i \notin refLost => refPaid[i] = refPositions[i].claimed)
    BY <1>1 DEF StkInv, StkPaid
  <1> QED BY <1>2, <1>3 DEF StkRow, StkFields

LEMMA StkInvInit == Ref!StakeInit => StkInv
  BY DEF Ref!StakeInit, StkInv, StkPaid, StkAsks

\* A request that reads, or is answered without a change.
LEMMA StkQuiet ==
    ASSUME StkInv, NEW r \in Addr, NEW q, refStakeReq' = [refStakeReq EXCEPT ![r] = q],
           StkAsks(q, refPositions, refPaid), UNCHANGED <<refPositions, refPaid, refNow, refLost>>
    PROVE  StkInv'
  <1>1. \A s \in Addr : refStakeReq'[s] = IF s = r THEN q ELSE refStakeReq[s]
    BY DEF StkInv
  <1>2. \A s \in Addr : StkAsks(refStakeReq'[s], refPositions, refPaid)
    BY <1>1 DEF StkInv
  <1> QED BY <1>2 DEF StkInv

LEMMA StkPrepareInv ==
    ASSUME StkInv, NEW r \in Addr, NEW new, NEW save, NEW claim \in Nat, Ref!Prepare(r, new, save, claim),
           StkOpens(new), DOMAIN save \subseteq DOMAIN refPositions,
           \A i \in DOMAIN save : save[i] \in StkRow /\ save[i].claimed = refPositions[i].claimed + claim
    PROVE  StkInv'
  <1> DEFINE read == [i \in DOMAIN save |-> refPositions[i]]
             q == [pc |-> "commit", new |-> new, save |-> save, claim |-> claim, read |-> read]
  <1>1. refStakeReq' = [refStakeReq EXCEPT ![r] = q] /\ UNCHANGED <<refPositions, refPaid, refNow, refLost>>
    BY DEF Ref!Prepare
  <1>2. DOMAIN read = DOMAIN save /\ \A i \in DOMAIN save : read[i] = refPositions[i] /\ read[i] \in StkRow /\ read[i].claimed <= refPaid[i]
    <2>1. \A i \in DOMAIN save : refPositions[i] \in StkRow
      BY StkRows
    <2>2. \A i \in DOMAIN save : refPositions[i].claimed \in Nat
      BY <2>1 DEF StkRow, StkFields
    <2>3. \A i \in DOMAIN save : refPaid[i] \in Nat
      BY StkRows
    <2> QED BY <2>1, <2>2, <2>3 DEF StkInv, StkPaid
  <1> HIDE DEF read
  <1>3. StkSaves(q, refPositions, refPaid)
    BY <1>2 DEF StkSaves
  <1>4. StkAsks(q, refPositions, refPaid)
    BY <1>3 DEF StkAsks
  <1> HIDE DEF q
  <1> QED BY <1>1, <1>4, StkQuiet

LEMMA StkMin == ASSUME StkInv, NEW A \in SUBSET (DOMAIN refPositions), A # {} PROVE Ref!Min(A) \in A
  <1>1. A \in SUBSET (0..Len(refPositions)) /\ Len(refPositions) \in Nat
    BY StkRows
  <1>2. PICK k \in A : \A j \in A : k <= j
    BY <1>1, LeastNumber
  <1> QED BY <1>2 DEF Ref!Min

LEMMA StkStakeInv ==
    ASSUME StkInv, NEW r \in Addr, NEW u \in RefStakers, NEW a \in RefAmounts, Ref!Stake(r, u, a)
    PROVE  StkInv'
  <1> DEFINE open == {i \in DOMAIN refPositions : refPositions[i].user = u /\ refPositions[i].active}
             id == Ref!Min(open)
             row == Ref!NewPosition(u, a)
             more == Ref!ToppedUp(refPositions[id], a)
             save == [i \in {id} |-> Ref!ToppedUp(refPositions[i], a)]
  <1>1. Ref!Prepare(r, <<row>>, <<>>, 0) \/ (open # {} /\ Ref!Prepare(r, <<>>, save, 0))
    BY DEF Ref!Stake, Ref!Ids
  <1>2. a \in Nat /\ a > 0
    BY StakingAssumption
  <1>3. CASE Ref!Prepare(r, <<row>>, <<>>, 0)
    <2>1. row \in StkRow /\ row.claimed = 0
      <3>1. refNow \in Nat
        BY DEF StkInv
      <3>2. row \in StkFields
        BY <1>2, <3>1 DEF Ref!NewPosition, StkFields
      <3>3. row.claimed = 0 /\ row.accrued = 0 /\ row.staked = a /\ row.active
        BY DEF Ref!NewPosition
      <3> HIDE DEF row
      <3>4. row.claimed <= row.accrued /\ row.staked > 0
        BY <1>2, <3>3
      <3>5. row \in StkRow
        BY <3>2, <3>3, <3>4 DEF StkRow
      <3> QED BY <3>3, <3>5
    <2> HIDE DEF row
    <2>2. StkOpens(<<row>>)
      BY <2>1 DEF StkOpens
    <2>3. \A i \in DOMAIN <<>> : FALSE
      OBVIOUS
    <2> QED BY <1>3, <2>2, <2>3, StkPrepareInv
  <1>4. CASE open # {} /\ Ref!Prepare(r, <<>>, save, 0)
    <2>1. open \in SUBSET (DOMAIN refPositions)
      OBVIOUS
    <2> HIDE DEF open
    <2>2. id \in open
      BY <1>4, <2>1, StkMin
    <2>3. id \in DOMAIN refPositions /\ refPositions[id] \in StkRow /\ refPositions[id].active
      BY <2>2, StkRows DEF open
    <2> HIDE DEF id
    <2>4. more \in StkRow /\ more.claimed = refPositions[id].claimed + 0
      BY <1>2, <2>3 DEF StkRow, StkFields, Ref!ToppedUp
    <2>5. DOMAIN save = {id} /\ \A i \in DOMAIN save : save[i] = more
      OBVIOUS
    <2>6. StkOpens(<<>>)
      BY DEF StkOpens
    <2> HIDE DEF save, more
    <2>7. \A i \in DOMAIN save : save[i] \in StkRow /\ save[i].claimed = refPositions[i].claimed + 0
      BY <2>4, <2>5
    <2> QED BY <1>4, <2>3, <2>5, <2>6, <2>7, StkPrepareInv
  <1> QED BY <1>1, <1>3, <1>4

LEMMA StkUnstakeInv ==
    ASSUME StkInv, NEW r \in Addr, NEW id \in Ref!Ids, NEW a \in RefAmounts, Ref!Unstake(r, id, a)
    PROVE  StkInv'
  <1> DEFINE p == refPositions[id]
             less == Ref!Withdrawn(p, a)
             save == [i \in {id} |-> Ref!Withdrawn(refPositions[i], a)]
  <1>1. a <= p.staked /\ Ref!Prepare(r, <<>>, save, 0)
    BY DEF Ref!Unstake, Ref!WithinStake
  <1>2. a \in Nat /\ a > 0
    BY StakingAssumption
  <1>3. id \in DOMAIN refPositions /\ p \in StkRow
    BY StkRows DEF Ref!Ids
  <1>4. DOMAIN save = {id} /\ \A i \in DOMAIN save : save[i] = less
    OBVIOUS
  <1> HIDE DEF save
  <1>5. less \in StkRow /\ less.claimed = p.claimed + 0
    <2> HIDE DEF p
    <2>1. CASE p.staked = a
      <3>1. p \in StkFields /\ p.claimed <= p.accrued
        BY <1>3 DEF StkRow
      <3>2. less = [p EXCEPT !.staked = 0, !.active = FALSE]
        BY <2>1 DEF Ref!Withdrawn
      <3> HIDE DEF less
      <3>3. less \in StkFields
        BY <3>1, <3>2 DEF StkFields
      <3>4. less.staked = 0 /\ ~less.active /\ less.claimed = p.claimed /\ less.accrued = p.accrued /\ p.claimed \in Nat
        BY <3>1, <3>2 DEF StkFields
      <3> QED BY <3>1, <3>3, <3>4 DEF StkRow
    <2>2. CASE p.staked # a
      BY <1>1, <1>2, <1>3, <2>2 DEF StkRow, StkFields, Ref!Withdrawn
    <2> QED BY <2>1, <2>2
  <1> HIDE DEF less
  <1>6. \A i \in DOMAIN save : save[i] \in StkRow /\ save[i].claimed = refPositions[i].claimed + 0
    BY <1>4, <1>5
  <1>7. StkOpens(<<>>)
    BY DEF StkOpens
  <1> QED BY <1>1, <1>3, <1>4, <1>6, <1>7, StkPrepareInv

LEMMA StkClaimInv ==
    ASSUME StkInv, NEW r \in Addr, NEW id \in Ref!Ids, Ref!ClaimRewards(r, id)
    PROVE  StkInv'
  <1> DEFINE p == refPositions[id]
             pending == p.accrued - p.claimed
             more == Ref!Claimed(p, pending)
             save == [i \in {id} |-> Ref!Claimed(refPositions[i], pending)]
  <1>1. pending > 0 /\ Ref!Prepare(r, <<>>, save, pending)
    BY DEF Ref!ClaimRewards
  <1>2. id \in DOMAIN refPositions /\ p \in StkRow
    BY StkRows DEF Ref!Ids
  <1>3. DOMAIN save = {id} /\ \A i \in DOMAIN save : save[i] = more
    OBVIOUS
  <1> HIDE DEF save
  <1>4. more \in StkRow /\ more.claimed = p.claimed + pending /\ pending \in Nat
    <2>1. p \in StkFields /\ pending \in Nat /\ p.claimed \in Nat /\ p.accrued \in Nat /\ p.claimed + pending = p.accrued
      BY <1>1, <1>2 DEF StkRow, StkFields
    <2> HIDE DEF pending, p
    <2>2. more \in StkFields
      BY <2>1 DEF StkFields, Ref!Claimed
    <2>3. /\ more.claimed = p.claimed + pending /\ more.accrued = p.accrued /\ more.staked = p.staked
          /\ more.active = p.active
      BY <2>1 DEF StkFields, Ref!Claimed
    <2> HIDE DEF more
    <2> QED BY <1>2, <2>1, <2>2, <2>3 DEF StkRow
  <1> HIDE DEF more, pending
  <1>5. \A i \in DOMAIN save : save[i] \in StkRow /\ save[i].claimed = refPositions[i].claimed + pending
    BY <1>3, <1>4
  <1>6. StkOpens(<<>>)
    BY DEF StkOpens
  <1> QED BY <1>1, <1>2, <1>3, <1>4, <1>5, <1>6, StkPrepareInv

LEMMA StkRewardInt ==
    ASSUME NEW p \in StkRow, NEW apr \in Nat, StkInv
    PROVE  Ref!StakeReward(p, apr) \in Int
  <1> DEFINE m == p.staked * apr
             d == refNow - p.since
             m1 == m \div RefBpsUnit
             m2 == m1 * d
  <1>1. m \in Int /\ d \in Int /\ RefBpsUnit \in Nat \ {0} /\ RefYear \in Nat \ {0}
    BY StakingAssumption DEF StkRow, StkFields, StkInv
  <1> HIDE DEF m, d
  <1>2. m1 \in Int
    BY <1>1
  <1> HIDE DEF m1
  <1>3. m2 \in Int
    BY <1>1, <1>2
  <1> HIDE DEF m2
  <1>4. m2 \div RefYear \in Int
    BY <1>1, <1>3
  <1> QED BY <1>4 DEF Ref!StakeReward, m2, m1, m, d

LEMMA StkDistributeInv ==
    ASSUME StkInv, NEW r \in Addr, NEW apr \in RefAprs, Ref!DistributeRewards(r, apr)
    PROVE  StkInv'
  <1> DEFINE credited == {i \in DOMAIN refPositions : refPositions[i].active /\ Ref!StakeReward(refPositions[i], apr) > 0}
             save == [i \in credited |-> Ref!Credited(refPositions[i], apr)]
  <1>1. Ref!Prepare(r, <<>>, save, 0)
    BY DEF Ref!DistributeRewards, Ref!Ids
  <1>2. DOMAIN save \subseteq DOMAIN refPositions
    OBVIOUS
  <1>3. ASSUME NEW i \in DOMAIN save PROVE save[i] \in StkRow /\ save[i].claimed = refPositions[i].claimed + 0
    <2> DEFINE p == refPositions[i]
               w == Ref!StakeReward(p, apr)
               v == Ref!Credited(p, apr)
               t == refNow
    <2>1. p \in StkRow /\ apr \in Nat /\ t \in Nat
      BY <1>2, StkRows, StakingAssumption DEF StkInv
    <2>2. w > 0 /\ save[i] = v
      OBVIOUS
    <2>3. w \in Int
      BY <2>1, StkRewardInt
    <2>5. v = [p EXCEPT !.since = t, !.accrued = p.accrued + w]
      BY DEF Ref!Credited
    <2> HIDE DEF w, p, v, t
    <2>4. v \in StkRow /\ v.claimed = p.claimed + 0
      <3>1. p \in StkFields /\ p.claimed \in Nat /\ p.accrued \in Nat
        BY <2>1 DEF StkRow, StkFields
      <3>4. p.accrued + w \in Nat
        BY <2>2, <2>3, <3>1
      <3> DEFINE z == p.accrued + w
      <3>5. v = [p EXCEPT !.since = t, !.accrued = z] /\ z \in Nat
        BY <2>5, <3>4
      <3> HIDE DEF z
      <3>2. v \in StkFields
        BY <2>1, <3>1, <3>5 DEF StkFields
      <3>3. /\ v.claimed = p.claimed /\ v.accrued = p.accrued + w /\ v.staked = p.staked
            /\ v.active = p.active
        BY <2>5, <3>1 DEF StkFields
      <3> QED BY <2>1, <2>2, <2>3, <3>1, <3>2, <3>3 DEF StkRow
    <2> HIDE DEF save
    <2> QED BY <2>2, <2>4 DEF p
  <1>4. StkOpens(<<>>)
    BY DEF StkOpens
  <1> HIDE DEF save
  <1> QED BY <1>1, <1>2, <1>3, <1>4, StkPrepareInv

\* The rows after a commit.
StkExtends(ext, S, n, a, new, m) ==
    /\ ext \in Seq(S) /\ Len(ext) = n + m
    /\ \A i \in 1..n : ext[i] = a[i]
    /\ \A i \in 1..(n + m) : i \in 1..n \/ (i = n + 1 /\ m = 1 /\ ext[i] = new[1])

LEMMA StkAppend ==
    ASSUME NEW S, NEW n \in Nat, NEW a \in [1..n -> S], NEW new \in Seq(S), Len(new) \in {0, 1}
    PROVE  StkExtends(a \o new, S, n, a, new, Len(new))
  <1>1. a \in Seq(S) /\ Len(a) = n
    OBVIOUS
  <1>2. \A i \in 1..(n + Len(new)) : i \in 1..n \/ (i = n + 1 /\ Len(new) = 1)
    <2> DEFINE m == Len(new)
    <2>1. m \in {0, 1}
      OBVIOUS
    <2> HIDE DEF m
    <2>2. \A i \in 1..(n + m) : i \in 1..n \/ (i = n + 1 /\ m = 1)
      BY <2>1
    <2> QED BY <2>2 DEF m
  <1>3. /\ a \o new \in Seq(S) /\ Len(a \o new) = n + Len(new)
        /\ \A i \in 1..n : (a \o new)[i] = a[i]
        /\ Len(new) = 1 => (a \o new)[n + 1] = new[1]
    BY <1>1
  <1> QED BY <1>2, <1>3 DEF StkExtends

LEMMA StkCommitInv == ASSUME StkInv, NEW r \in Addr, Ref!Commit(r) PROVE StkInv'
  <1> DEFINE q == refStakeReq[r]
             new == q.new
             save == q.save
             n == Len(refPositions)
             m == Len(new)
             saved == [i \in DOMAIN refPositions |-> IF i \in DOMAIN save THEN save[i] ELSE refPositions[i]]
             sums == [i \in DOMAIN refPositions |-> refPaid[i] + IF i \in DOMAIN save THEN q.claim ELSE 0]
             zeros == [i \in DOMAIN new |-> 0]
  <1>1. /\ q.pc = "commit" /\ refPositions' = saved \o new /\ refPaid' = sums \o zeros
        /\ refLost' = refLost \cup {i \in DOMAIN q.read : refPositions[i] # q.read[i]}
        /\ refStakeReq' = [refStakeReq EXCEPT ![r] = Ref!Done] /\ UNCHANGED refNow
    BY DEF Ref!Commit, Ref!Saved, Ref!Stale, Ref!Ids
  <1>2. StkOpens(new) /\ StkSaves(q, refPositions, refPaid)
    <2>1. StkAsks(q, refPositions, refPaid)
      BY DEF StkInv
    <2>2. q.pc = "commit"
      BY <1>1
    <2> HIDE DEF q
    <2>3. q.pc = "commit" /\ StkOpens(q.new) /\ StkSaves(q, refPositions, refPaid)
      BY <2>1, <2>2 DEF StkAsks, Ref!New
    <2> QED BY <2>3
  <1>3. /\ n \in Nat /\ DOMAIN refPositions = 1..n /\ DOMAIN refPaid = 1..n
        /\ \A i \in 1..n : refPositions[i] \in StkRow /\ refPaid[i] \in Nat
    BY StkRows
  <1>4. /\ q.claim \in Nat /\ DOMAIN q.read = DOMAIN save /\ DOMAIN save \subseteq 1..n
        /\ \A i \in DOMAIN save : /\ save[i] \in StkRow /\ q.read[i] \in StkRow
                                  /\ save[i].claimed = q.read[i].claimed + q.claim
                                  /\ q.read[i].claimed <= refPaid[i]
    BY <1>2, <1>3 DEF StkSaves
  <1>5. new \in Seq(StkRow) /\ m \in {0, 1} /\ zeros \in Seq(Nat) /\ Len(zeros) = m
        /\ (m = 1 => new[1].claimed = 0 /\ zeros[1] = 0)
    <2> DEFINE S == StkRow
    <2>1. new = <<>> \/ \E row \in S : row.claimed = 0 /\ new = <<row>>
      BY <1>2 DEF StkOpens
    <2> HIDE DEF S, new
    <2>2. CASE new = <<>>
      BY <2>2 DEF S
    <2>3. ASSUME NEW row \in S, row.claimed = 0, new = <<row>> PROVE <1>5!1
      BY <2>3 DEF S
    <2> QED BY <2>1, <2>2, <2>3
  <1> HIDE DEF new, save, zeros, n, q
  <1>6. saved \in [1..n -> StkRow] /\ sums \in [1..n -> Nat]
    BY <1>3, <1>4
  <1>7. /\ \A i \in 1..n : saved[i] = (IF i \in DOMAIN save THEN save[i] ELSE refPositions[i])
        /\ \A i \in 1..n : sums[i] = refPaid[i] + (IF i \in DOMAIN save THEN q.claim ELSE 0)
    BY <1>3
  <1> HIDE DEF saved, sums
  <1>8. /\ refPositions' \in Seq(StkRow) /\ Len(refPositions') = n + m /\ DOMAIN refPositions' = 1..(n + m)
        /\ \A i \in 1..n : refPositions'[i] = saved[i]
        /\ \A i \in 1..(n + m) : i \in 1..n \/ (i = n + 1 /\ m = 1 /\ refPositions'[i] = new[1])
    <2> DEFINE S == StkRow
    <2>1. saved \in [1..n -> S] /\ new \in Seq(S)
      BY <1>5, <1>6
    <2> HIDE DEF S
    <2>2. StkExtends(saved \o new, S, n, saved, new, m)
      BY <1>3, <1>5, <2>1, StkAppend
    <2> HIDE DEF m
    <2>3. StkExtends(refPositions', S, n, saved, new, m)
      BY <1>1, <2>2
    <2>4. DOMAIN refPositions' = 1..(n + m)
      BY <2>3 DEF StkExtends
    <2> QED BY <2>3, <2>4 DEF S, StkExtends
  <1>9. /\ refPaid' \in Seq(Nat) /\ Len(refPaid') = n + m
        /\ \A i \in 1..n : refPaid'[i] = sums[i]
        /\ \A i \in 1..(n + m) : i \in 1..n \/ (i = n + 1 /\ m = 1 /\ refPaid'[i] = zeros[1])
    <2>1. StkExtends(sums \o zeros, Nat, n, sums, zeros, Len(zeros))
      BY <1>3, <1>5, <1>6, StkAppend
    <2>2. StkExtends(refPaid', Nat, n, sums, zeros, m)
      BY <1>1, <1>5, <2>1
    <2> HIDE DEF m
    <2> QED BY <2>2 DEF StkExtends
  <1> HIDE DEF m
  <1>10. \A i \in 1..n : /\ refPositions[i].claimed \in Nat
                         /\ i \in DOMAIN save => save[i].claimed \in Nat /\ q.read[i].claimed \in Nat
    BY <1>3, <1>4 DEF StkRow, StkFields
  <1>11. StkPaid(refPositions', refPaid', refLost')
    <2> SUFFICES ASSUME NEW i \in 1..(n + m)
                 PROVE  refPaid'[i] >= refPositions'[i].claimed /\ (i \notin refLost' => refPaid'[i] = refPositions'[i].claimed)
      BY <1>8 DEF StkPaid
    <2>1. CASE i = n + 1 /\ m = 1
      <3>1. i \notin 1..n
        BY <1>3, <2>1
      <3>2. refPositions'[i].claimed = 0 /\ refPaid'[i] = 0
        BY <1>5, <1>8, <1>9, <2>1, <3>1
      <3> QED BY <3>2
    <2>2. CASE i \in 1..n
      <3>1. refPaid[i] >= refPositions[i].claimed /\ (i \notin refLost => refPaid[i] = refPositions[i].claimed)
        BY <1>3, <2>2 DEF StkInv, StkPaid
      <3>2. CASE i \in DOMAIN save
        <4>1. /\ refPaid'[i] = refPaid[i] + q.claim /\ refPositions'[i] = save[i]
              /\ save[i].claimed = q.read[i].claimed + q.claim /\ q.read[i].claimed <= refPaid[i]
          BY <1>4, <1>7, <1>8, <1>9, <2>2, <3>2
        <4>2. i \notin refLost' => q.read[i].claimed = refPaid[i]
          BY <1>1, <1>4, <3>1, <3>2
        <4> QED BY <1>3, <1>4, <1>10, <2>2, <3>2, <4>1, <4>2
      <3>3. CASE i \notin DOMAIN save
        <4>1. refPaid'[i] = refPaid[i] + 0 /\ refPositions'[i] = refPositions[i]
          BY <1>7, <1>8, <1>9, <2>2, <3>3
        <4> QED BY <1>1, <1>3, <2>2, <3>1, <4>1
      <3> QED BY <3>2, <3>3
    <2> QED BY <1>8, <2>1, <2>2
  <1>12. ASSUME NEW s \in Addr PROVE StkAsks(refStakeReq'[s], refPositions', refPaid')
    <2>1. refStakeReq'[s] = Ref!Done \/ refStakeReq'[s] = refStakeReq[s]
      BY <1>1 DEF StkInv
    <2>2. StkAsks(Ref!Done, refPositions', refPaid')
      BY DEF StkAsks, Ref!Done
    <2>3. StkAsks(refStakeReq[s], refPositions, refPaid)
      BY DEF StkInv
    <2>4. DOMAIN refPositions \subseteq DOMAIN refPositions' /\ \A i \in DOMAIN refPositions : refPaid'[i] >= refPaid[i] /\ refPaid'[i] \in Nat
      <3>1. \A i \in 1..n : refPaid'[i] = refPaid[i] + 0 \/ refPaid'[i] = refPaid[i] + q.claim
        BY <1>7, <1>9
      <3>2. ASSUME NEW i \in 1..n PROVE refPaid'[i] >= refPaid[i] /\ refPaid'[i] \in Nat
        <4>1. refPaid[i] \in Nat /\ q.claim \in Nat
          BY <1>3, <1>4
        <4>2. refPaid'[i] = refPaid[i] \/ refPaid'[i] = refPaid[i] + q.claim
          BY <3>1, <4>1
        <4> QED BY <4>1, <4>2
      <3>3. 1..n \subseteq 1..(n + m)
        BY <1>3, <1>5
      <3> QED BY <1>3, <1>8, <3>2, <3>3
    <2>5. ASSUME NEW p, StkSaves(p, refPositions, refPaid) PROVE StkSaves(p, refPositions', refPaid')
      <3>1. ASSUME NEW i \in DOMAIN p.save PROVE p.read[i].claimed <= refPaid'[i]
        <4>1. i \in DOMAIN refPositions /\ p.read[i] \in StkRow /\ p.read[i].claimed <= refPaid[i]
          BY <2>5 DEF StkSaves
        <4>2. p.read[i].claimed \in Nat /\ refPaid[i] \in Nat
          BY <1>3, <4>1 DEF StkRow, StkFields
        <4> QED BY <2>4, <4>1, <4>2
      <3> QED BY <2>4, <2>5, <3>1 DEF StkSaves
    <2>6. StkAsks(refStakeReq[s], refPositions', refPaid')
      BY <2>3, <2>5 DEF StkAsks
    <2> QED BY <2>1, <2>2, <2>6
  <1>13. DOMAIN refStakeReq' = Addr /\ refNow' \in Nat
    BY <1>1 DEF StkInv
  <1> QED BY <1>8, <1>9, <1>11, <1>12, <1>13 DEF StkInv

LEMMA StkInvNext == StkInv /\ [Ref!StakeNext]_(Ref!stakeVars) => StkInv'
  <1> SUFFICES ASSUME StkInv, [Ref!StakeNext]_(Ref!stakeVars) PROVE StkInv'
    OBVIOUS
  <1>1. CASE UNCHANGED Ref!stakeVars
    BY <1>1 DEF Ref!stakeVars, StkInv
  <1>2. ASSUME NEW r \in Addr, Ref!Abort(r) PROVE StkInv'
    <2>1. refStakeReq' = [refStakeReq EXCEPT ![r] = Ref!Done] /\ UNCHANGED <<refPositions, refPaid, refNow, refLost>>
      BY <1>2 DEF Ref!Abort
    <2>2. StkAsks(Ref!Done, refPositions, refPaid)
      BY DEF StkAsks, Ref!Done
    <2> QED BY <2>1, <2>2, StkQuiet
  <1>3. ASSUME Ref!Tick PROVE StkInv'
    <2>1. refNow' = refNow + 1 /\ UNCHANGED <<refPositions, refPaid, refStakeReq, refLost>>
      BY <1>3 DEF Ref!Tick
    <2> QED BY <2>1 DEF StkInv
  <1> QED BY <1>1, <1>2, <1>3, StkStakeInv, StkUnstakeInv, StkClaimInv, StkDistributeInv, StkCommitInv DEF Ref!StakeNext

-----------------------------------------------------------------------------
\* PaidOnce for any keys, users, tiers, stakers and limits, whatever the
\* requests of the three services do at once.
THEOREM OncePaid == Pay!Spec /\ Ref!Spec /\ Ref!StakeSpec => []PaidOnce
  <1>1. PayInv => Pay!OneChargePerKey
    BY DEF PayInv
  <1>2. Pay!Spec => []Pay!OneChargePerKey
    BY <1>1, PayInvInit, PayInvNext, PTL DEF Pay!Spec
  <1>3. Ref!Spec => []Ref!RewardsFollowReferrals
    BY RefInvMeans, RefInvInit, RefInvNext, PTL DEF Ref!Spec
  <1>4. Ref!StakeSpec => []Ref!ClaimsAreCounted
    BY StkInvMeans, StkInvInit, StkInvNext, PTL DEF Ref!StakeSpec
  <1> QED BY <1>2, <1>3, <1>4, PTL DEF PaidOnce

-----------------------------------------------------------------------------
(***************************************************************************)
(* The two limiters, for any rates, sizes, limits and times to live.       *)
(***************************************************************************)

\* The calls let pass from a to b.
LimCalls(times, a, b) == {k \in DOMAIN times : a <= times[k] /\ times[k] <= b}

LimCount(times, a, b) == Cardinality(LimCalls(times, a, b))

LEMMA LimWithin == \A times, a, b : Lim!Within(times, a, b) = LimCount(times, a, b)
  BY DEF Lim!Within, Lim!Cardinality, LimCount, LimCalls, Cardinality

LEMMA LimMin ==
    ASSUME NEW x \in Int, NEW y \in Int
    PROVE  Lim!Min({x, y}) = IF x <= y THEN x ELSE y
  <1> DEFINE m == Lim!Min({x, y})
  <1>1. m \in {x, y} /\ m <= x /\ m <= y
    <2>1. \E z \in {x, y} : \A w \in {x, y} : z <= w
      OBVIOUS
    <2> QED BY <2>1 DEF Lim!Min
  <1> HIDE DEF m
  <1>2. m = IF x <= y THEN x ELSE y
    BY <1>1
  <1> QED BY <1>2 DEF m

LEMMA LimMax ==
    ASSUME NEW x \in Int, NEW y \in Int
    PROVE  Lim!Max({x, y}) = IF x >= y THEN x ELSE y
  <1> DEFINE m == Lim!Max({x, y})
  <1>1. m \in {x, y} /\ m >= x /\ m >= y
    <2>1. \E z \in {x, y} : \A w \in {x, y} : z >= w
      OBVIOUS
    <2> QED BY <2>1 DEF Lim!Max
  <1> HIDE DEF m
  <1>2. m = IF x >= y THEN x ELSE y
    BY <1>1
  <1> QED BY <1>2 DEF m

LEMMA LimFinite ==
    ASSUME NEW times \in Seq(Nat), NEW a, NEW b
    PROVE  IsFiniteSet(LimCalls(times, a, b)) /\ LimCount(times, a, b) \in Nat
  <1>1. LimCalls(times, a, b) \in SUBSET (1..Len(times)) /\ Len(times) \in Nat
    BY DEF LimCalls
  <1>2. IsFiniteSet(1..Len(times))
    BY <1>1, FS_Interval
  <1>3. IsFiniteSet(LimCalls(times, a, b))
    BY <1>1, <1>2, FS_Subset
  <1> QED BY <1>3, FS_CardinalityType DEF LimCount

\* No call in a span, and a span of the calls of another.
LEMMA LimNone ==
    ASSUME NEW times \in Seq(Nat), NEW a, NEW b, \A k \in DOMAIN times : ~(a <= times[k] /\ times[k] <= b)
    PROVE  LimCount(times, a, b) = 0
  <1>1. LimCalls(times, a, b) = {}
    BY DEF LimCalls
  <1> QED BY <1>1, FS_EmptySet DEF LimCount

LEMMA LimFewer ==
    ASSUME NEW times \in Seq(Nat), NEW a \in Int, NEW b \in Int, NEW c \in Int, NEW d \in Int,
           \A k \in DOMAIN times : a <= times[k] /\ times[k] <= b => c <= times[k] /\ times[k] <= d
    PROVE  LimCount(times, a, b) <= LimCount(times, c, d)
  <1>1. LimCalls(times, a, b) \in SUBSET LimCalls(times, c, d)
    BY DEF LimCalls
  <1> QED BY <1>1, LimFinite, FS_Subset DEF LimCount

LEMMA LimAppend ==
    ASSUME NEW times \in Seq(Nat), NEW t \in Nat, NEW a \in Int, NEW b \in Int
    PROVE  LimCount(Append(times, t), a, b)
              = LimCount(times, a, b) + IF a <= t /\ t <= b THEN 1 ELSE 0
  <1> DEFINE n == Len(times)
             new == Append(times, t)
  <1>1. /\ n \in Nat /\ DOMAIN times = 1..n /\ DOMAIN new = 1..(n + 1) /\ new[n + 1] = t
        /\ \A k \in 1..n : new[k] = times[k] /\ times[k] \in Nat
    OBVIOUS
  <1> HIDE DEF n, new
  <1>2. 1..(n + 1) = 1..n \cup {n + 1} /\ n + 1 \notin 1..n
    BY <1>1
  <1>3. n + 1 \notin LimCalls(times, a, b) /\ IsFiniteSet(LimCalls(times, a, b))
    BY <1>1, <1>2, LimFinite DEF LimCalls
  <1>4. CASE a <= t /\ t <= b
    <2>1. LimCalls(new, a, b) = LimCalls(times, a, b) \cup {n + 1}
      BY <1>1, <1>2, <1>4 DEF LimCalls
    <2>2. LimCount(new, a, b) = LimCount(times, a, b) + 1
      BY <1>3, <2>1, FS_AddElement DEF LimCount
    <2> QED BY <1>4, <2>2 DEF new
  <1>5. CASE ~(a <= t /\ t <= b)
    <2>1. LimCalls(new, a, b) = LimCalls(times, a, b)
      BY <1>1, <1>2, <1>5 DEF LimCalls
    <2>2. LimCount(new, a, b) = LimCount(times, a, b) + 0
      BY <2>1, LimFinite DEF LimCount
    <2> QED BY <1>5, <2>2 DEF new
  <1> QED BY <1>4, <1>5

LEMMA LimAppendRows ==
    ASSUME NEW times \in Seq(Nat), NEW t \in Nat
    PROVE  /\ Append(times, t) \in Seq(Nat) /\ DOMAIN times \subseteq DOMAIN Append(times, t)
           /\ \A k \in DOMAIN times : Append(times, t)[k] = times[k] /\ times[k] \in Nat
           /\ \A k \in DOMAIN Append(times, t) : k \in DOMAIN times \/ Append(times, t)[k] = t
           /\ \E k \in DOMAIN Append(times, t) : Append(times, t)[k] = t
  <1> DEFINE n == Len(times)
             new == Append(times, t)
  <1>1. /\ new \in Seq(Nat) /\ n \in Nat /\ DOMAIN times = 1..n /\ DOMAIN new = 1..(n + 1) /\ new[n + 1] = t
        /\ \A k \in 1..n : new[k] = times[k] /\ times[k] \in Nat
    OBVIOUS
  <1> HIDE DEF n, new
  <1>2. 1..(n + 1) = 1..n \cup {n + 1}
    BY <1>1
  <1>3. /\ new \in Seq(Nat) /\ DOMAIN times \subseteq DOMAIN new
        /\ \A k \in DOMAIN times : new[k] = times[k] /\ times[k] \in Nat
        /\ \A k \in DOMAIN new : k \in DOMAIN times \/ new[k] = t
        /\ \E k \in DOMAIN new : new[k] = t
    BY <1>1, <1>2
  <1> QED BY <1>3 DEF new

\* What drips into the bucket in x ticks.
LimDrip(x) == LimRate * x

LEMMA LimDripType == LimRate \in Nat /\ LimDrip(0) = 0 /\ \A x \in Int : LimDrip(x) \in Int
  BY LimitAssumption DEF LimDrip

LEMMA LimDripNat == ASSUME NEW x \in Nat PROVE LimDrip(x) \in Nat
  BY LimitAssumption DEF LimDrip

LEMMA LimDripStep == ASSUME NEW x \in Int PROVE LimDrip(x + 1) = LimDrip(x) + LimRate
  BY LimitAssumption DEF LimDrip

LEMMA LimDripSum == ASSUME NEW x \in Int, NEW y \in Int PROVE LimDrip(x + y) = LimDrip(x) + LimDrip(y)
  BY LimitAssumption DEF LimDrip

LEMMA LimDripMore == ASSUME NEW x \in Int, NEW y \in Int, x <= y PROVE LimDrip(x) <= LimDrip(y)
  BY LimitAssumption DEF LimDrip

\* The tokens a request finds at t.
LimAvail(b, t) == IF b = None THEN LimBurst ELSE Lim!Min({LimBurst, b.tokens + LimDrip(t - b.at)})

LimBucketOK(b, adm, t) ==
    /\ t \in Nat /\ adm \in Seq(Nat) /\ \A k \in DOMAIN adm : adm[k] <= t
    /\ \/ b = None
       \/ /\ b \in Lim!rateLimitEntry /\ b.tokens <= LimBurst /\ b.at = b.lastSeen /\ b.at <= t
          /\ \A k \in DOMAIN adm : adm[k] <= b.at

\* No span up to t has let more pass than the size and the drip.
LimSpans(adm, t) == \A a, b \in 0..t : a <= b => LimCount(adm, a, b) <= LimBurst + LimDrip(b - a)

\* Nor could it if every token left at t were taken at once.
LimLeft(bucket, adm, t) ==
    \A a \in 0..t : LimCount(adm, a, t) + LimAvail(bucket, t) <= LimBurst + LimDrip(t - a)

LEMMA LimAvailFacts ==
    ASSUME NEW b, NEW adm, NEW t, LimBucketOK(b, adm, t)
    PROVE  /\ LimAvail(b, t) \in 0..LimBurst
           /\ LimBurst \in Nat
           /\ LimAvail(b, t + 1) <= LimBurst
           /\ LimAvail(b, t + 1) <= LimAvail(b, t) + LimRate
           /\ LimAvail(b, t + 1) \in Nat
  <1>1. LimBurst \in Nat /\ LimRate \in Nat
    BY LimitAssumption
  <1>2. CASE b = None
    BY <1>1, <1>2 DEF LimAvail
  <1>3. CASE b # None
    <2> DEFINE v == b.tokens
               d == t - b.at
    <2>1. v \in Nat /\ v <= LimBurst /\ d \in Nat /\ (t + 1) - b.at = d + 1
      BY <1>1, <1>3 DEF LimBucketOK, Lim!rateLimitEntry
    <2> HIDE DEF v, d
    <2> DEFINE e == LimDrip(d)
               f == LimDrip(d + 1)
    <2>2. e \in Nat /\ f = e + LimRate
      BY <2>1, LimDripNat, LimDripStep
    <2>5. LimDrip((t + 1) - b.at) = f /\ LimDrip(t - b.at) = e
      BY <2>1 DEF d
    <2>3. LimAvail(b, t) = Lim!Min({LimBurst, v + e}) /\ LimAvail(b, t + 1) = Lim!Min({LimBurst, v + f})
      BY <1>3, <2>5 DEF LimAvail, v
    <2> HIDE DEF e, f
    <2>4. /\ LimAvail(b, t) = IF LimBurst <= v + e THEN LimBurst ELSE v + e
          /\ LimAvail(b, t + 1) = IF LimBurst <= v + f THEN LimBurst ELSE v + f
      BY <1>1, <2>1, <2>2, <2>3, LimMin
    <2> QED BY <1>1, <2>1, <2>2, <2>4
  <1> QED BY <1>2, <1>3

LEMMA LimTickBucket ==
    ASSUME NEW b, NEW adm, NEW t, LimBucketOK(b, adm, t), LimSpans(adm, t), LimLeft(b, adm, t)
    PROVE  LimSpans(adm, t + 1) /\ LimLeft(b, adm, t + 1)
  <1>1. t \in Nat /\ adm \in Seq(Nat) /\ (\A k \in DOMAIN adm : adm[k] <= t /\ adm[k] \in Nat)
    BY DEF LimBucketOK
  <1>2. LimAvail(b, t) \in 0..LimBurst /\ LimBurst \in Nat /\ LimAvail(b, t + 1) <= LimBurst
        /\ LimAvail(b, t + 1) <= LimAvail(b, t) + LimRate /\ LimAvail(b, t + 1) \in Nat
    BY LimAvailFacts
  <1>3. ASSUME NEW a \in 0..t
        PROVE  /\ LimCount(adm, a, t + 1) = LimCount(adm, a, t) /\ LimCount(adm, a, t) \in Nat
               /\ LimDrip((t + 1) - a) = LimDrip(t - a) + LimRate /\ LimDrip(t - a) \in Nat
    <2>1. LimCalls(adm, a, t + 1) = LimCalls(adm, a, t)
      BY <1>1 DEF LimCalls
    <2>2. t - a \in Nat /\ (t + 1) - a = (t - a) + 1
      BY <1>1
    <2>3. LimDrip((t + 1) - a) = LimDrip(t - a) + LimRate /\ LimDrip(t - a) \in Nat
      BY <2>2, LimDripNat, LimDripStep
    <2>4. LimCount(adm, a, t) \in Nat
      BY <1>1, LimFinite
    <2> QED BY <2>1, <2>3, <2>4 DEF LimCount
  <1>4. LimCount(adm, t + 1, t + 1) = 0 /\ LimDrip((t + 1) - (t + 1)) = 0
    <2>1. (t + 1) - (t + 1) = 0 /\ \A k \in DOMAIN adm : ~(t + 1 <= adm[k] /\ adm[k] <= t + 1)
      BY <1>1
    <2>2. LimDrip((t + 1) - (t + 1)) = 0
      BY <2>1, LimDripType
    <2> QED BY <1>1, <2>1, <2>2, LimNone
  <1>5. 0..(t + 1) = 0..t \cup {t + 1}
    BY <1>1
  <1>6. LimLeft(b, adm, t + 1)
    <2> SUFFICES ASSUME NEW a \in 0..(t + 1)
                 PROVE  LimCount(adm, a, t + 1) + LimAvail(b, t + 1) <= LimBurst + LimDrip((t + 1) - a)
      BY DEF LimLeft
    <2>1. CASE a = t + 1
      BY <1>2, <1>4, <2>1
    <2>2. CASE a \in 0..t
      <3>1. LimCount(adm, a, t) + LimAvail(b, t) <= LimBurst + LimDrip(t - a)
        BY <2>2 DEF LimLeft
      <3> QED BY <1>2, <1>3, <2>2, <3>1, LimDripType
    <2> QED BY <1>5, <2>1, <2>2
  <1>7. LimSpans(adm, t + 1)
    <2> SUFFICES ASSUME NEW a \in 0..(t + 1), NEW c \in 0..(t + 1), a <= c
                 PROVE  LimCount(adm, a, c) <= LimBurst + LimDrip(c - a)
      BY DEF LimSpans
    <2>1. CASE c \in 0..t
      <3>1. a \in 0..t
        BY <1>1, <2>1
      <3> QED BY <2>1, <3>1 DEF LimSpans
    <2>2. CASE c = t + 1 /\ a = t + 1
      <3>1. LimCount(adm, a, c) = 0 /\ LimDrip(c - a) = 0
        BY <1>4, <2>2
      <3> QED BY <1>2, <3>1
    <2>3. CASE c = t + 1 /\ a \in 0..t
      <3>1. LimCount(adm, a, t) <= LimBurst + LimDrip(t - a)
        BY <1>1, <2>3 DEF LimSpans
      <3>2. LimCount(adm, a, t + 1) <= LimBurst + LimDrip((t + 1) - a)
        BY <1>2, <1>3, <2>3, <3>1, LimDripType
      <3> QED BY <2>3, <3>2
    <2> QED BY <1>5, <2>1, <2>2, <2>3
  <1> QED BY <1>6, <1>7

\* A call at t: t is in every span that ends there, and takes a token.
LEMMA LimAllowBucket ==
    ASSUME NEW b, NEW adm, NEW t, LimBucketOK(b, adm, t), LimSpans(adm, t), LimLeft(b, adm, t),
           LimAvail(b, t) >= 1, NEW c, LimAvail(c, t) = LimAvail(b, t) - 1
    PROVE  LimSpans(Append(adm, t), t) /\ LimLeft(c, Append(adm, t), t)
  <1> DEFINE new == Append(adm, t)
             v == LimAvail(b, t)
  <1>1. t \in Nat /\ adm \in Seq(Nat) /\ v \in 0..LimBurst /\ LimBurst \in Nat
    BY LimAvailFacts DEF LimBucketOK
  <1>2. ASSUME NEW a \in 0..t
        PROVE  LimCount(new, a, t) = LimCount(adm, a, t) + 1 /\ LimCount(adm, a, t) \in Nat
               /\ LimCount(adm, a, t) + v <= LimBurst + LimDrip(t - a) /\ LimDrip(t - a) \in Int
    <2>1. LimCount(adm, a, t) \in Nat /\ LimDrip(t - a) \in Int
      <3>1. t - a \in Int
        BY <1>1
      <3> QED BY <1>1, <3>1, LimFinite, LimDripType
    <2>2. LimCount(new, a, t) = LimCount(adm, a, t) + 1
      BY <1>1, LimAppend
    <2> QED BY <2>1, <2>2 DEF LimLeft
  <1>3. LimLeft(c, new, t)
    BY <1>1, <1>2 DEF LimLeft
  <1>4. ASSUME NEW a \in 0..t, NEW d \in 0..t, a <= d PROVE LimCount(new, a, d) <= LimBurst + LimDrip(d - a)
    <2>1. CASE d = t
      <3> DEFINE p == LimCount(new, a, t)
                 o == LimCount(adm, a, t)
                 w == LimDrip(t - a)
      <3>2. p = o + 1 /\ o \in Nat /\ o + v <= LimBurst + w /\ w \in Int /\ v >= 1
        BY <1>2
      <3>1. LimCount(new, a, t) <= LimBurst + LimDrip(t - a)
        <4> HIDE DEF o, w, v
        <4>1. p <= LimBurst + w
          <5> HIDE DEF p
          <5> QED BY <1>1, <3>2
        <4> QED BY <4>1 DEF w
      <3> QED BY <2>1, <3>1
    <2>2. CASE d # t
      <3>1. LimCount(new, a, d) = LimCount(adm, a, d) + 0 /\ LimCount(adm, a, d) \in Nat
        BY <1>1, <1>4, <2>2, LimAppend, LimFinite
      <3> QED BY <1>4, <3>1 DEF LimSpans
    <2> QED BY <2>1, <2>2
  <1> QED BY <1>3, <1>4 DEF LimSpans

\* A bucket is thrown away after Idle ticks, in which it has filled.
LEMMA LimCleanBucket ==
    ASSUME NEW b, NEW adm, NEW t, LimBucketOK(b, adm, t), LimSpans(adm, t), LimLeft(b, adm, t),
           LimBurst <= LimDrip(LimIdle), b # None, b.lastSeen < t - LimIdle
    PROVE  LimLeft(None, adm, t)
  <1> DEFINE l == b.lastSeen
  <1>1. /\ t \in Nat /\ adm \in Seq(Nat) /\ LimBurst \in Nat /\ LimIdle \in Nat /\ l \in Nat /\ l <= t /\ l + LimIdle < t
        /\ \A k \in DOMAIN adm : adm[k] <= l /\ adm[k] \in Nat
    BY LimitAssumption DEF LimBucketOK, Lim!rateLimitEntry
  <1> HIDE DEF l
  <1>2. ASSUME NEW a \in 0..t PROVE LimCount(adm, a, t) <= LimDrip(t - a) /\ LimCount(adm, a, t) \in Nat
    <2>1. LimCount(adm, a, t) \in Nat /\ LimDrip(t - a) \in Nat
      <3>1. t - a \in Nat
        BY <1>1
      <3> QED BY <1>1, <3>1, LimFinite, LimDripNat
    <2>2. CASE a > l
      <3>1. \A k \in DOMAIN adm : ~(a <= adm[k] /\ adm[k] <= t)
        BY <1>1, <2>2
      <3> QED BY <1>1, <2>1, <3>1, LimNone
    <2>3. CASE a <= l
      <3>1. LimCalls(adm, a, t) = LimCalls(adm, a, l)
        BY <1>1, <2>3 DEF LimCalls
      <3>2. LimCount(adm, a, t) <= LimBurst + LimDrip(l - a)
        BY <1>1, <2>3, <3>1 DEF LimSpans, LimCount
      <3>3. /\ LimDrip(LimIdle + (l - a)) = LimDrip(LimIdle) + LimDrip(l - a)
            /\ LimDrip(LimIdle + (l - a)) <= LimDrip(t - a)
            /\ LimDrip(LimIdle) \in Int /\ LimDrip(l - a) \in Int /\ LimDrip(LimIdle + (l - a)) \in Int
        <4>1. l - a \in Int /\ LimIdle \in Int /\ t - a \in Int /\ LimIdle + (l - a) \in Int /\ LimIdle + (l - a) <= t - a
          BY <1>1
        <4>2. LimDrip(LimIdle + (l - a)) = LimDrip(LimIdle) + LimDrip(l - a)
          BY <4>1, LimDripSum
        <4>3. LimDrip(LimIdle + (l - a)) <= LimDrip(t - a)
          BY <4>1, LimDripMore
        <4> QED BY <4>1, <4>2, <4>3, LimDripType
      <3> QED BY <1>1, <2>1, <3>2, <3>3
    <2> QED BY <1>1, <2>2, <2>3
  <1> SUFFICES ASSUME NEW a \in 0..t PROVE LimCount(adm, a, t) + LimBurst <= LimBurst + LimDrip(t - a)
    BY DEF LimLeft, LimAvail
  <1>3. LimDrip(t - a) \in Int
    <2>1. t - a \in Int
      BY <1>1
    <2> QED BY <2>1, LimDripType
  <1> DEFINE p == LimCount(adm, a, t)
             w == LimDrip(t - a)
  <1>4. p \in Nat /\ p <= w /\ w \in Int
    BY <1>2, <1>3
  <1> HIDE DEF p, w
  <1>5. p + LimBurst <= LimBurst + w
    BY <1>1, <1>4
  <1> QED BY <1>5 DEF p, w

\* The larger limit, and the calls counted under the key that is alive at t.
LimCap == IF LimGetBurst >= LimMutateBurst THEN LimGetBurst ELSE LimMutateBurst

LimAlive(c, t) == IF c # None /\ c.expires > t THEN c.count ELSE 0

\* The key lives TTL after its last call; it has counted every call that is
\* less than TTL older than that one.
LimCounterOK(c, cnt, t) ==
    /\ t \in Nat /\ cnt \in Seq(Nat) /\ \A k \in DOMAIN cnt : cnt[k] <= t
    /\ \A a \in Nat : LimCount(cnt, a, a + LimTTL - 1) <= LimCap
    /\ \/ c = None /\ cnt = <<>>
       \/ /\ c \in Lim!Counter /\ c.count <= LimCap
          /\ \A k \in DOMAIN cnt : cnt[k] + LimTTL <= c.expires
          /\ \E k \in DOMAIN cnt : cnt[k] + LimTTL = c.expires
          /\ \A a \in Nat : a + LimTTL + LimTTL > c.expires => LimCount(cnt, a, t) <= c.count

LimRefusedOK(r, cnt) ==
    r # None => /\ r.at \in Nat
                /\ \E k \in DOMAIN cnt : cnt[k] <= r.at /\ r.at < cnt[k] + LimTTL

LEMMA LimCapFacts ==
    /\ LimCap \in Nat /\ LimTTL \in Nat
    /\ \A limit \in {LimGetBurst, LimMutateBurst} : limit \in Nat \ {0} /\ limit <= LimCap
  BY LimitAssumption DEF LimCap

LEMMA LimCounterRows ==
    ASSUME NEW c, NEW cnt, NEW t, LimCounterOK(c, cnt, t)
    PROVE  t \in Nat /\ cnt \in Seq(Nat) /\ (\A k \in DOMAIN cnt : cnt[k] <= t /\ cnt[k] \in Nat)
  BY DEF LimCounterOK

LEMMA LimTickCounter ==
    ASSUME NEW c, NEW cnt, NEW t, LimCounterOK(c, cnt, t)
    PROVE  LimCounterOK(c, cnt, t + 1)
  <1>1. t \in Nat /\ cnt \in Seq(Nat) /\ (\A k \in DOMAIN cnt : cnt[k] <= t /\ cnt[k] \in Nat)
    BY DEF LimCounterOK
  <1>2. ASSUME NEW a PROVE LimCount(cnt, a, t + 1) = LimCount(cnt, a, t)
    <2>1. LimCalls(cnt, a, t + 1) = LimCalls(cnt, a, t)
      BY <1>1 DEF LimCalls
    <2> QED BY <2>1 DEF LimCount
  <1>3. t + 1 \in Nat /\ \A k \in DOMAIN cnt : cnt[k] <= t + 1
    BY <1>1
  <1> QED BY <1>2, <1>3 DEF LimCounterOK

\* Less than TTL before t, only the calls of the living key.
LEMMA LimAliveCalls ==
    ASSUME NEW c, NEW cnt, NEW t, LimCounterOK(c, cnt, t), NEW a \in Nat, a + LimTTL > t
    PROVE  LimCount(cnt, a, t) <= LimAlive(c, t) /\ LimAlive(c, t) \in Nat
  <1>1. t \in Nat /\ cnt \in Seq(Nat) /\ (\A k \in DOMAIN cnt : cnt[k] <= t /\ cnt[k] \in Nat)
    BY LimCounterRows
  <1>5. LimTTL \in Nat
    BY LimCapFacts
  <1>2. CASE c = None
    <2>1. cnt = <<>>
      BY <1>2, LimitAssumption DEF LimCounterOK
    <2>3. \A k \in DOMAIN cnt : FALSE
      BY <2>1
    <2>2. LimCount(cnt, a, t) = 0
      BY <1>1, <2>3, LimNone
    <2> QED BY <1>2, <2>2 DEF LimAlive
  <1>3. CASE c # None /\ ~(c.expires > t)
    <2>1. c.expires \in Nat /\ \A k \in DOMAIN cnt : cnt[k] + LimTTL <= c.expires
      BY <1>3 DEF LimCounterOK, Lim!Counter
    <2> DEFINE e == c.expires
    <2>4. e \in Nat /\ e <= t /\ \A k \in DOMAIN cnt : cnt[k] + LimTTL <= e
      BY <1>1, <1>3, <2>1
    <2> HIDE DEF e
    <2>2. \A k \in DOMAIN cnt : ~(a <= cnt[k] /\ cnt[k] <= t)
      <3> SUFFICES ASSUME NEW k \in DOMAIN cnt PROVE ~(a <= cnt[k])
        OBVIOUS
      <3> DEFINE x == cnt[k]
      <3>1. x \in Nat /\ x + LimTTL <= e
        BY <1>1, <2>4
      <3> HIDE DEF x
      <3>2. ~(a <= x)
        BY <1>1, <1>5, <2>4, <3>1
      <3> QED BY <3>2 DEF x
    <2>3. LimCount(cnt, a, t) = 0
      BY <1>1, <2>2, LimNone
    <2> QED BY <1>3, <2>3 DEF LimAlive
  <1>4. CASE c # None /\ c.expires > t
    <2>1. /\ c.expires \in Nat /\ c.count \in Nat
          /\ \E k \in DOMAIN cnt : cnt[k] + LimTTL = c.expires
      BY <1>4 DEF LimCounterOK, Lim!Counter
    <2>2. a + LimTTL + LimTTL > c.expires
      BY <1>1, <1>5, <2>1
    <2>3. LimCount(cnt, a, t) <= c.count
      BY <1>4, <2>2 DEF LimCounterOK
    <2> QED BY <1>4, <2>1, <2>3 DEF LimAlive
  <1> QED BY <1>2, <1>3, <1>4

LEMMA LimCallCounter ==
    ASSUME NEW c, NEW cnt, NEW t, LimCounterOK(c, cnt, t), NEW limit \in {LimGetBurst, LimMutateBurst},
           LimAlive(c, t) < limit
    PROVE  LimCounterOK([count |-> LimAlive(c, t) + 1, expires |-> t + LimTTL], Append(cnt, t), t)
  <1> DEFINE n == LimAlive(c, t)
             new == Append(cnt, t)
             d == [count |-> n + 1, expires |-> t + LimTTL]
  <1>1. t \in Nat /\ cnt \in Seq(Nat) /\ (\A k \in DOMAIN cnt : cnt[k] <= t /\ cnt[k] \in Nat)
    BY DEF LimCounterOK
  <1>2. LimCap \in Nat /\ LimTTL \in Nat /\ limit \in Nat /\ limit <= LimCap
    BY LimCapFacts
  <1>3. n \in Nat /\ n < limit
    <2>1. c = None \/ c.count \in Nat
      BY DEF LimCounterOK, Lim!Counter
    <2> QED BY <2>1 DEF LimAlive
  <1>4. /\ new \in Seq(Nat) /\ \A k \in DOMAIN new : new[k] <= t
        /\ \E k \in DOMAIN new : new[k] = t
    <2>1. /\ new \in Seq(Nat) /\ \A k \in DOMAIN cnt : new[k] = cnt[k]
          /\ \A k \in DOMAIN new : k \in DOMAIN cnt \/ new[k] = t
          /\ \E k \in DOMAIN new : new[k] = t
      BY <1>1, LimAppendRows
    <2> HIDE DEF new
    <2>2. ASSUME NEW k \in DOMAIN new PROVE new[k] <= t
      <3>1. CASE k \in DOMAIN cnt
        BY <3>1, <1>1, <2>1
      <3>2. CASE new[k] = t
        BY <3>2, <1>1
      <3> QED BY <3>1, <3>2, <2>1
    <2> QED BY <2>1, <2>2
  <1>5. \A a \in Nat : a + LimTTL > t => LimCount(cnt, a, t) <= n
    BY LimAliveCalls
  <1> HIDE DEF n, new
  <1>6. ASSUME NEW a \in Nat PROVE LimCount(new, a, a + LimTTL - 1) <= LimCap
    <2> DEFINE b == a + LimTTL - 1
    <2>1. b \in Int
      BY <1>2
    <2>2. LimCount(cnt, a, b) <= LimCap /\ LimCount(cnt, a, b) \in Nat
      BY <1>1, LimFinite DEF LimCounterOK
    <2>3. LimCount(new, a, b) = LimCount(cnt, a, b) + IF a <= t /\ t <= b THEN 1 ELSE 0
      BY <1>1, <2>1, LimAppend DEF new
    <2>4. ASSUME a <= t /\ t <= b PROVE LimCount(new, a, b) <= LimCap
      <3>1. a + LimTTL > t
        BY <1>1, <1>2, <2>4
      <3>2. LimCount(cnt, a, t) <= n /\ LimCount(cnt, a, t) \in Nat
        BY <1>1, <1>5, <3>1, LimFinite
      <3>3. LimCount(cnt, a, b) <= LimCount(cnt, a, t)
        BY <1>1, <2>1, LimFewer
      <3> HIDE DEF b
      <3> QED BY <1>2, <1>3, <2>2, <2>3, <2>4, <3>2, <3>3
    <2>5. ASSUME ~(a <= t /\ t <= b) PROVE LimCount(new, a, b) <= LimCap
      <3> HIDE DEF b
      <3> QED BY <1>2, <2>2, <2>3, <2>5
    <2> HIDE DEF b
    <2>6. LimCount(new, a, b) <= LimCap
      BY <2>4, <2>5
    <2> QED BY <2>6 DEF b
  <1>7. ASSUME NEW a \in Nat, a + LimTTL + LimTTL > t + LimTTL PROVE LimCount(new, a, t) <= n + 1
    <2>1. a + LimTTL > t
      BY <1>1, <1>2, <1>7
    <2>2. LimCount(cnt, a, t) <= n /\ LimCount(cnt, a, t) \in Nat
      BY <1>1, <1>5, <2>1, LimFinite
    <2>3. LimCount(new, a, t) = LimCount(cnt, a, t) + IF a <= t /\ t <= t THEN 1 ELSE 0
      BY <1>1, LimAppend DEF new
    <2> QED BY <1>3, <2>2, <2>3
  <1>8. d \in Lim!Counter /\ d.count = n + 1 /\ d.expires = t + LimTTL /\ n + 1 <= LimCap
    BY <1>1, <1>2, <1>3 DEF Lim!Counter
  <1>9. \A k \in DOMAIN new : new[k] + LimTTL <= t + LimTTL
    <2>1. \A k \in DOMAIN new : new[k] \in Nat
      BY <1>4
    <2> QED BY <1>1, <1>2, <1>4, <2>1
  <1>10. \E k \in DOMAIN new : new[k] + LimTTL = t + LimTTL
    BY <1>4
  <1> HIDE DEF d
  <1>11. LimCounterOK(d, new, t)
    BY <1>1, <1>4, <1>6, <1>7, <1>8, <1>9, <1>10 DEF LimCounterOK
  <1> QED BY <1>11 DEF d, n, new

LimInv ==
    /\ LimBucketOK(limBucket, limAdmitted, limNow)
    /\ LimBurst <= LimDrip(LimIdle) => LimSpans(limAdmitted, limNow) /\ LimLeft(limBucket, limAdmitted, limNow)
    /\ LimCounterOK(limCounter, limCounted, limNow)
    /\ LimRefusedOK(limRefused, limCounted)

LEMMA LimInvMeans == LimInv => Lim!LimitsHold
  <1> SUFFICES ASSUME LimInv PROVE Lim!LimitsHold
    OBVIOUS
  <1>1. limNow \in Nat /\ limAdmitted \in Seq(Nat) /\ limCounted \in Seq(Nat) /\ LimTTL \in Nat
    BY LimCapFacts DEF LimInv, LimBucketOK, LimCounterOK
  <1>2. ASSUME LimBurst <= LimRate * LimIdle, NEW a \in 0..limNow, NEW b \in a..limNow
        PROVE  Lim!Within(limAdmitted, a, b) <= LimBurst + LimRate * (b - a)
    <2>1. LimSpans(limAdmitted, limNow)
      BY <1>2 DEF LimInv, LimDrip
    <2>2. b \in 0..limNow /\ a <= b
      BY <1>1
    <2>3. LimCount(limAdmitted, a, b) <= LimBurst + LimDrip(b - a)
      BY <2>1, <2>2 DEF LimSpans
    <2> QED BY <2>3, LimWithin DEF LimDrip
  <1>3. ASSUME NEW a \in 0..limNow
        PROVE  Lim!Within(limCounted, a, Lim!Min({limNow, a + LimTTL - 1})) <= Lim!Max({LimGetBurst, LimMutateBurst})
    <2> DEFINE b == a + LimTTL - 1
               m == Lim!Min({limNow, b})
               c == Lim!Max({LimGetBurst, LimMutateBurst})
    <2>1. b \in Int /\ m \in Int /\ m <= b /\ a \in Nat
      <3>1. b \in Int /\ a \in Nat
        BY <1>1
      <3> HIDE DEF b
      <3>2. m = IF limNow <= b THEN limNow ELSE b
        BY <1>1, <3>1, LimMin
      <3> QED BY <1>1, <3>1, <3>2
    <2>2. c = LimCap
      BY LimMax, LimitAssumption DEF LimCap
    <2>3. LimCount(limCounted, a, b) <= LimCap
      BY <2>1 DEF LimInv, LimCounterOK
    <2>4. LimCount(limCounted, a, m) <= LimCount(limCounted, a, b)
      <3>1. \A k \in DOMAIN limCounted : limCounted[k] \in Nat
        BY <1>1
      <3> HIDE DEF b, m
      <3>2. \A k \in DOMAIN limCounted : a <= limCounted[k] /\ limCounted[k] <= m => a <= limCounted[k] /\ limCounted[k] <= b
        BY <2>1, <3>1
      <3> QED BY <1>1, <2>1, <3>2, LimFewer
    <2>5. LimCount(limCounted, a, m) \in Nat /\ LimCount(limCounted, a, b) \in Nat /\ LimCap \in Nat
      BY <1>1, LimFinite, LimCapFacts
    <2> HIDE DEF b, m, c
    <2>6. LimCount(limCounted, a, m) <= c
      BY <2>2, <2>3, <2>4, <2>5
    <2> QED BY <2>6, LimWithin DEF c, m, b
  <1>4. limRefused # None => \E k \in DOMAIN limCounted : limCounted[k] <= limRefused.at /\ limRefused.at < limCounted[k] + LimTTL
    BY DEF LimInv, LimRefusedOK
  <1> QED BY <1>2, <1>3, <1>4 DEF Lim!LimitsHold

LEMMA LimInvInit == Lim!Init => LimInv
  <1> SUFFICES ASSUME Lim!Init PROVE LimInv
    OBVIOUS
  <1>1. /\ limBucket = None /\ limCounter = None /\ limNow = 0 /\ limAdmitted = <<>> /\ limCounted = <<>> /\ limRefused = None
    BY DEF Lim!Init
  <1>2. \A a, b : LimCount(<<>>, a, b) = 0
    <2>1. <<>> \in Seq(Nat) /\ \A k \in DOMAIN <<>> : FALSE
      OBVIOUS
    <2> QED BY <2>1, LimNone
  <1>3. LimBucketOK(limBucket, limAdmitted, limNow)
    BY <1>1 DEF LimBucketOK
  <1>4. \A a, b \in 0..0 : LimDrip(b - a) = 0
    BY LimDripType
  <1>5. LimSpans(limAdmitted, limNow) /\ LimLeft(limBucket, limAdmitted, limNow)
    BY <1>1, <1>2, <1>4, LimitAssumption DEF LimSpans, LimLeft, LimAvail
  <1>6. LimCounterOK(limCounter, limCounted, limNow)
    BY <1>1, <1>2, LimCapFacts DEF LimCounterOK
  <1>7. LimRefusedOK(limRefused, limCounted)
    BY <1>1 DEF LimRefusedOK
  <1> QED BY <1>3, <1>5, <1>6, <1>7 DEF LimInv

\* A bucket request, whether a token is left or not.
LEMMA LimAllowInv == ASSUME LimInv, Lim!allow PROVE LimInv'
  <1> DEFINE t == limNow
             e == Lim!Entry
             v == Lim!Tokens(e)
             w == IF v >= 1 THEN v - 1 ELSE v
             c == [tokens |-> w, at |-> t, lastSeen |-> t]
  <1>1. /\ limBucket' = c /\ limAdmitted' = (IF v >= 1 THEN Append(limAdmitted, t) ELSE limAdmitted)
        /\ UNCHANGED <<limCounter, limNow, limCounted, limRefused>>
    BY DEF Lim!allow
  <1>2. /\ limNow \in Nat /\ limAdmitted \in Seq(Nat) /\ \A k \in DOMAIN limAdmitted : limAdmitted[k] <= t /\ limAdmitted[k] \in Nat
    BY DEF LimInv, LimBucketOK
  <1>3. LimBurst \in Nat /\ LimAvail(limBucket, t) \in 0..LimBurst
    BY LimAvailFacts DEF LimInv
  <1>4. v = LimAvail(limBucket, t)
    <2>1. CASE limBucket = None
      <3>1. e.tokens = LimBurst /\ e.at = t
        BY <2>1 DEF Lim!Entry
      <3> HIDE DEF e
      <3>2. t - e.at = 0
        BY <1>2, <3>1
      <3>3. LimDrip(t - e.at) = 0
        BY <3>2, LimDripType
      <3>4. e.tokens + LimDrip(t - e.at) = LimBurst
        BY <1>3, <3>1, <3>3
      <3>5. v = Lim!Min({LimBurst, LimBurst})
        BY <3>4 DEF Lim!Tokens, LimDrip
      <3>6. v = LimBurst
        BY <1>3, <3>5, LimMin
      <3> QED BY <2>1, <3>6 DEF LimAvail
    <2>2. CASE limBucket # None
      BY <2>2 DEF LimAvail, Lim!Entry, Lim!Tokens, LimDrip
    <2> QED BY <2>1, <2>2
  <1> HIDE DEF v, e
  <1>5. w \in Nat /\ w <= LimBurst
    BY <1>3, <1>4
  <1>6. c \in Lim!rateLimitEntry /\ c.tokens = w /\ c.at = t /\ c.lastSeen = t /\ c # None
    <2>1. c \in Lim!rateLimitEntry
      BY <1>2, <1>5 DEF Lim!rateLimitEntry
    <2> QED BY <2>1, LimitAssumption
  <1> HIDE DEF w, c
  <1>7. LimAvail(c, t) = w
    <2>1. LimDrip(t - c.at) = 0
      <3>1. t - c.at = 0
        BY <1>2, <1>6
      <3> QED BY <3>1, LimDripType
    <2>2. c.tokens + LimDrip(t - c.at) = w
      BY <1>5, <1>6, <2>1
    <2>3. LimAvail(c, t) = Lim!Min({LimBurst, w})
      BY <1>6, <2>2 DEF LimAvail
    <2> QED BY <1>3, <1>5, <2>3, LimMin
  <1>8. limAdmitted' \in Seq(Nat) /\ \A k \in DOMAIN limAdmitted' : limAdmitted'[k] <= t
    <2>1. CASE v >= 1
      <3> DEFINE new == Append(limAdmitted, t)
      <3>1. /\ new \in Seq(Nat) /\ \A k \in DOMAIN limAdmitted : new[k] = limAdmitted[k]
            /\ \A k \in DOMAIN new : k \in DOMAIN limAdmitted \/ new[k] = t
        BY <1>2, LimAppendRows
      <3>2. limAdmitted' = new
        BY <1>1, <2>1
      <3> HIDE DEF new
      <3>3. \A k \in DOMAIN new : new[k] <= t
        BY <1>2, <3>1, SMTT(30)
      <3> QED BY <3>1, <3>2, <3>3
    <2>2. CASE ~(v >= 1)
      BY <1>1, <1>2, <2>2
    <2> QED BY <2>1, <2>2
  <1>9. LimBucketOK(limBucket', limAdmitted', limNow')
    BY <1>1, <1>2, <1>5, <1>6, <1>8 DEF LimBucketOK
  <1>10. ASSUME LimBurst <= LimDrip(LimIdle)
         PROVE  LimSpans(limAdmitted', limNow') /\ LimLeft(limBucket', limAdmitted', limNow')
    <2>1. LimBucketOK(limBucket, limAdmitted, t) /\ LimSpans(limAdmitted, t) /\ LimLeft(limBucket, limAdmitted, t)
      BY <1>10 DEF LimInv
    <2>2. CASE v >= 1
      <3>1. LimAvail(limBucket, t) >= 1 /\ LimAvail(c, t) = LimAvail(limBucket, t) - 1
        BY <1>4, <1>7, <2>2 DEF w
      <3>2. LimSpans(Append(limAdmitted, t), t) /\ LimLeft(c, Append(limAdmitted, t), t)
        BY <2>1, <3>1, LimAllowBucket
      <3> QED BY <1>1, <2>2, <3>2
    <2>3. CASE ~(v >= 1)
      <3>1. LimAvail(c, t) = LimAvail(limBucket, t)
        BY <1>4, <1>7, <2>3 DEF w
      <3>2. LimLeft(c, limAdmitted, t)
        BY <2>1, <3>1 DEF LimLeft
      <3> QED BY <1>1, <2>1, <2>3, <3>2
    <2> QED BY <2>2, <2>3
  <1>11. LimCounterOK(limCounter', limCounted', limNow') /\ LimRefusedOK(limRefused', limCounted')
    BY <1>1 DEF LimInv
  <1> QED BY <1>9, <1>10, <1>11 DEF LimInv

LEMMA LimCleanupInv == ASSUME LimInv, Lim!cleanupLoop PROVE LimInv'
  <1> DEFINE t == limNow
  <1>1. /\ limBucket' = (IF limBucket # None /\ limBucket.lastSeen < t - LimIdle THEN None ELSE limBucket)
        /\ UNCHANGED <<limCounter, limNow, limAdmitted, limCounted, limRefused>>
    BY DEF Lim!cleanupLoop, Lim!Expired
  <1>2. LimCounterOK(limCounter', limCounted', limNow') /\ LimRefusedOK(limRefused', limCounted')
    BY <1>1 DEF LimInv
  <1>3. LimBucketOK(limBucket', limAdmitted', limNow')
    BY <1>1 DEF LimInv, LimBucketOK
  <1>4. ASSUME LimBurst <= LimDrip(LimIdle)
        PROVE  LimSpans(limAdmitted', limNow') /\ LimLeft(limBucket', limAdmitted', limNow')
    <2>1. LimBucketOK(limBucket, limAdmitted, t) /\ LimSpans(limAdmitted, t) /\ LimLeft(limBucket, limAdmitted, t)
      BY <1>4 DEF LimInv
    <2>2. CASE limBucket # None /\ limBucket.lastSeen < t - LimIdle
      <3>1. LimLeft(None, limAdmitted, t)
        BY <1>4, <2>1, <2>2, LimCleanBucket
      <3> QED BY <1>1, <2>1, <2>2, <3>1
    <2>3. CASE ~(limBucket # None /\ limBucket.lastSeen < t - LimIdle)
      BY <1>1, <2>1, <2>3
    <2> QED BY <2>2, <2>3
  <1> QED BY <1>2, <1>3, <1>4 DEF LimInv

LEMMA LimCheckInv ==
    ASSUME LimInv, NEW limit \in {LimGetBurst, LimMutateBurst}, Lim!checkLimit(limit)
    PROVE  LimInv'
  <1> DEFINE t == limNow
             n == LimAlive(limCounter, t)
             d == [count |-> n + 1, expires |-> t + LimTTL]
  <1>1. Lim!Count = n
    BY DEF Lim!Count, LimAlive
  <1>2. UNCHANGED <<limBucket, limNow, limAdmitted>>
    BY DEF Lim!checkLimit
  <1>3. \/ n < limit /\ limCounter' = d /\ limCounted' = Append(limCounted, t) /\ limRefused' = limRefused
        \/ n >= limit /\ limRefused' = [at |-> t, limit |-> limit] /\ limCounter' = limCounter /\ limCounted' = limCounted
    BY <1>1 DEF Lim!checkLimit
  <1>4. LimCounterOK(limCounter, limCounted, t) /\ LimRefusedOK(limRefused, limCounted)
    BY DEF LimInv
  <1>5. /\ t \in Nat /\ limCounted \in Seq(Nat) /\ (\A k \in DOMAIN limCounted : limCounted[k] <= t /\ limCounted[k] \in Nat)
    BY <1>4, LimCounterRows
  <1>6. CASE n < limit /\ limCounter' = d /\ limCounted' = Append(limCounted, t) /\ limRefused' = limRefused
    <2>1. LimCounterOK(d, Append(limCounted, t), t)
      BY <1>4, <1>6, LimCallCounter
    <2>2. LimCounterOK(limCounter', limCounted', limNow')
      BY <1>2, <1>6, <2>1
    <2>3. LimRefusedOK(limRefused', limCounted')
      <3> DEFINE new == Append(limCounted, t)
      <3>1. DOMAIN limCounted \subseteq DOMAIN new /\ \A k \in DOMAIN limCounted : new[k] = limCounted[k]
        BY <1>5, LimAppendRows
      <3>2. limCounted' = new /\ limRefused' = limRefused
        BY <1>6
      <3> HIDE DEF new
      <3> QED BY <1>4, <3>1, <3>2 DEF LimRefusedOK
    <2> QED BY <1>2, <2>2, <2>3 DEF LimInv
  <1>7. CASE n >= limit /\ limRefused' = [at |-> t, limit |-> limit] /\ limCounter' = limCounter /\ limCounted' = limCounted
    <2>1. limit \in Nat \ {0} /\ LimTTL \in Nat
      BY LimCapFacts
    <2>2. limCounter # None /\ limCounter.expires > t
      <3> SUFFICES ASSUME ~(limCounter # None /\ limCounter.expires > t) PROVE FALSE
        OBVIOUS
      <3>1. n = 0
        BY DEF LimAlive
      <3> HIDE DEF n
      <3> QED BY <1>7, <2>1, <3>1
    <2>3. PICK k \in DOMAIN limCounted : limCounted[k] + LimTTL = limCounter.expires
      BY <1>4, <2>2 DEF LimCounterOK
    <2>4. limRefused'.at = t /\ limCounted[k] <= t /\ t < limCounted[k] + LimTTL
      BY <1>5, <1>7, <2>2, <2>3
    <2>5. LimRefusedOK(limRefused', limCounted')
      BY <1>5, <1>7, <2>4 DEF LimRefusedOK
    <2> QED BY <1>2, <1>4, <1>7, <2>5 DEF LimInv
  <1> QED BY <1>3, <1>6, <1>7

LEMMA LimTickInv == ASSUME LimInv, Lim!Tick PROVE LimInv'
  <1>1. limNow' = limNow + 1 /\ UNCHANGED <<limBucket, limCounter, limAdmitted, limCounted, limRefused>>
    BY DEF Lim!Tick
  <1>2. LimBucketOK(limBucket, limAdmitted, limNow + 1)
    <2>1. LimBucketOK(limBucket, limAdmitted, limNow)
      BY DEF LimInv
    <2> DEFINE t == limNow
    <2>2. t \in Nat /\ t + 1 \in Nat /\ limAdmitted \in Seq(Nat) /\ \A k \in DOMAIN limAdmitted : limAdmitted[k] <= t + 1
      BY <2>1 DEF LimBucketOK
    <2>3. limBucket = None \/ limBucket.at <= t + 1
      BY <2>1 DEF LimBucketOK, Lim!rateLimitEntry
    <2> QED BY <2>1, <2>2, <2>3 DEF LimBucketOK
  <1>3. LimBurst <= LimDrip(LimIdle) => LimSpans(limAdmitted, limNow + 1) /\ LimLeft(limBucket, limAdmitted, limNow + 1)
    BY LimTickBucket DEF LimInv
  <1>4. LimCounterOK(limCounter, limCounted, limNow + 1)
    BY LimTickCounter DEF LimInv
  <1>5. LimRefusedOK(limRefused, limCounted)
    BY DEF LimInv
  <1> QED BY <1>1, <1>2, <1>3, <1>4, <1>5 DEF LimInv

LEMMA LimInvNext == LimInv /\ [Lim!Next]_(Lim!vars) => LimInv'
  <1> SUFFICES ASSUME LimInv, [Lim!Next]_(Lim!vars) PROVE LimInv'
    OBVIOUS
  <1>1. ASSUME Lim!checkLimitFails \/ UNCHANGED Lim!vars PROVE LimInv'
    <2>1. UNCHANGED <<limBucket, limCounter, limNow, limAdmitted, limCounted, limRefused>>
      BY <1>1 DEF Lim!checkLimitFails, Lim!vars
    <2> QED BY <2>1 DEF LimInv
  <1> QED BY <1>1, LimAllowInv, LimCleanupInv, LimCheckInv, LimTickInv DEF Lim!Next

\* Both limiters keep to their limits over every span of time, for any rate,
\* size, idle time and time to live, whenever the clean-up runs.
THEOREM LimitsHeld == Lim!Spec => []LimitsHold
  <1>1. LimInv => LimitsHold
    BY LimInvMeans DEF LimitsHold
  <1> QED BY <1>1, LimInvInit, LimInvNext, PTL DEF Lim!Spec

(***************************************************************************)
(* Assets and their metadata.  What a request has read may be old; what it *)
(* is about to save is a row that could be edited, whose URI is among the  *)
(* versions unless its version was lost, and what it is about to answer is *)
(* a row.  Version numbers never get ahead of their place in the history,  *)
(* also when two requests have counted the same versions.                  *)
(***************************************************************************)
AstTexts == AstUris \cup {Ast!NoUri}
AstVersion == [version : Nat, uri : AstTexts]
AstEditing == {"latest", "record", "save"}
AstEdit == [pc : AstEditing, op : {"update", "revert", "freeze"}, row : Ast!AllRows, uri : AstTexts,
            next : Nat]

AstAsks(q, vs, lost) ==
    /\ q.pc = "detail" => q.value \in Ast!AllRows
    /\ q.pc \in AstEditing =>
        /\ q \in AstEdit
        /\ q.op = "freeze" => q.pc = "save" /\ q.uri = q.row.uri
        /\ q.op # "freeze" => ~q.row.immutable
    /\ q.pc = "record" => q.next \in 1..(Len(vs) + 1)
    /\ q.pc = "save" /\ q.op # "freeze" /\ ~lost => \E k \in DOMAIN vs : vs[k].uri = q.row.uri

AstTyped ==
    /\ astNow \in Nat /\ astAsset \in Ast!AllRows \cup {None}
    /\ astVersions \in Seq(AstVersion)
    /\ DOMAIN astSeen = Ast!AllRows /\ \A v \in Ast!AllRows : astSeen[v] \in Int /\ astSeen[v] <= astNow
    /\ astDetail # None =>
        astDetail.value \in Ast!AllRows /\ astDetail.until \in Int /\ astDetail.until <= astNow + AstCacheTTL
    /\ DOMAIN astReq = Addr

AstInv ==
    /\ AstTyped
    /\ astAsset = None => astHad = {} /\ \A v \in Ast!AllRows : astSeen[v] = -1
    /\ \A k \in DOMAIN astVersions : astVersions[k].version \in 1..k
    /\ \A r \in Addr : AstAsks(astReq[r], astVersions, "lost" \in astRaced)
    /\ \A r \in Addr : astReq[r].pc \in AstEditing \cup {"mint"} => astAsset # None
    /\ MetadataIsKept

\* A row is any URI with the two flags.
LEMMA AstRows == Ast!AllRows = [uri : AstTexts, immutable : BOOLEAN, verified : BOOLEAN]
  <1>1. ASSUME NEW x \in [uri : AstTexts, immutable : BOOLEAN, verified : BOOLEAN] PROVE x \in Ast!AllRows
    <2>1. x = Ast!Row(x.uri, x.immutable, x.verified)
      BY <1>1 DEF Ast!Row
    <2>2. x.uri \in AstTexts /\ x.immutable \in BOOLEAN /\ x.verified \in BOOLEAN
      BY <1>1
    <2> QED BY <2>1, <2>2 DEF Ast!AllRows, AstTexts
  <1>2. ASSUME NEW x \in Ast!AllRows
        PROVE  x \in [uri : AstTexts, immutable : BOOLEAN, verified : BOOLEAN]
    <2>1. PICK u \in AstTexts, i \in BOOLEAN, v \in BOOLEAN : x = Ast!Row(u, i, v)
      BY <1>2 DEF Ast!AllRows, AstTexts
    <2> QED BY <2>1 DEF Ast!Row
  <1> QED BY <1>1, <1>2

LEMMA AstInvInit == Ast!Init => AstInv
  <1> SUFFICES ASSUME Ast!Init PROVE AstInv
    OBVIOUS
  <1>1. \A r \in Addr : astReq[r] = [pc |-> "new"]
    BY DEF Ast!Init, Ast!New
  <1>2. astAsset \in Ast!AllRows \cup {None}
    <2>1. astAsset = None \/ astAsset = Ast!Row(Ast!NoUri, FALSE, TRUE)
      BY DEF Ast!Init
    <2>2. Ast!Row(Ast!NoUri, FALSE, TRUE) \in Ast!AllRows
      BY AstRows DEF Ast!Row, AstTexts
    <2> QED BY <2>1, <2>2
  <1>3. AstTyped
    BY <1>2, AssetAssumption DEF AstTyped, Ast!Init
  <1>4. \A v \in Ast!AllRows : astSeen[v] = -1
    BY DEF Ast!Init
  <1>5. MetadataIsKept
    <2>1. astAsset # None => astAsset = Ast!Row(Ast!NoUri, FALSE, TRUE) /\ astHad = {Ast!NoUri}
      BY DEF Ast!Init
    <2>2. astVersions = <<>> /\ astDetail = None
      BY DEF Ast!Init
    <2> QED BY <1>4, <2>1, <2>2 DEF MetadataIsKept, Ast!MetadataIsKept, Ast!Recent, Ast!Lapsed, Ast!Row
  <1>6. \A r \in Addr : AstAsks(astReq[r], astVersions, "lost" \in astRaced)
    BY <1>1 DEF AstAsks, AstEditing
  <1>7. \A r \in Addr : astReq[r].pc \notin AstEditing \cup {"mint"}
    BY <1>1 DEF AstEditing
  <1>8. astVersions = <<>> /\ (astAsset = None => astHad = {})
    BY DEF Ast!Init
  <1> QED BY <1>3, <1>4, <1>5, <1>6, <1>7, <1>8 DEF AstInv

\* A step of one request that leaves the row and its history alone.
LEMMA AstQuiet ==
    ASSUME AstInv, NEW r \in Addr, NEW q, AstAsks(q, astVersions, "lost" \in astRaced),
           astReq' = [astReq EXCEPT ![r] = q],
           q.pc \in AstEditing \cup {"mint"} => astAsset # None,
           UNCHANGED <<astNow, astAsset, astVersions, astSeen, astHad>>,
           astDetail' = astDetail \/ astDetail' = None \/
               (/\ astDetail'.value \in Ast!AllRows /\ astDetail'.until \in Int
                /\ astDetail'.until <= astNow + AstCacheTTL
                /\ "detail" \notin astRaced' => astDetail'.value = astAsset),
           astRaced \subseteq astRaced', astRaced' \subseteq astRaced \cup {"detail", "list"}
    PROVE  AstInv'
  <1>1. "lost" \in astRaced' <=> "lost" \in astRaced
    OBVIOUS
  <1>2. ("row" \in astRaced' <=> "row" \in astRaced) /\ ("version" \in astRaced' <=> "version" \in astRaced)
    OBVIOUS
  <1>3. DOMAIN astReq' = Addr
    BY DEF AstInv, AstTyped
  <1>4. \A p \in Addr : astReq'[p] = IF p = r THEN q ELSE astReq[p]
    BY DEF AstInv, AstTyped
  <1>5. AstTyped'
    BY <1>3 DEF AstInv, AstTyped
  <1>6. \A p \in Addr : AstAsks(astReq'[p], astVersions', "lost" \in astRaced')
    BY <1>1, <1>4 DEF AstInv
  <1>7. \A p \in Addr : astReq'[p].pc \in AstEditing \cup {"mint"} => astAsset' # None
    BY <1>4 DEF AstInv
  <1>8. MetadataIsKept'
    BY <1>1, <1>2 DEF AstInv, MetadataIsKept, Ast!MetadataIsKept, Ast!Recent, Ast!Lapsed
  <1>9. /\ astAsset' = None => astHad' = {} /\ \A v \in Ast!AllRows : astSeen'[v] = -1
        /\ \A k \in DOMAIN astVersions' : astVersions'[k].version \in 1..k
    BY DEF AstInv
  <1> QED BY <1>5, <1>6, <1>7, <1>8, <1>9 DEF AstInv

\* The row becomes v, which only r did: what it was is kept in the history,
\* and an immutable row stays so, unless a copy was out of date.
AstChange(r, q, v) ==
    /\ q.pc \in {"mint", "done"} /\ astReq' = [astReq EXCEPT ![r] = q]
    /\ Ast!Write(v) /\ UNCHANGED <<astNow, astVersions, astDetail>>
    /\ astRaced \subseteq astRaced' /\ astRaced' \subseteq astRaced \cup {"row"}
    /\ astAsset # None /\ "row" \notin astRaced' /\ astAsset.immutable =>
           v.immutable /\ v.uri = astAsset.uri
    /\ astAsset # None /\ astRaced' \cap {"row", "lost"} = {} =>
           v.uri = astAsset.uri \/ \E k \in DOMAIN astVersions : astVersions[k].uri = astAsset.uri

LEMMA AstWrites ==
    ASSUME AstInv, NEW r \in Addr, NEW q, NEW v \in Ast!AllRows, AstChange(r, q, v)
    PROVE  AstInv'
  <1> USE AssetAssumption DEF AstChange
  <1>a. /\ AstTyped /\ astAsset' = v /\ v # None /\ astHad' = astHad \cup {v.uri}
        /\ astAsset = None => astHad = {} /\ \A x \in Ast!AllRows : astSeen[x] = -1
    BY DEF AstInv, Ast!Write
  <1>b. /\ astAsset = None => astSeen' = astSeen
        /\ astAsset # None => astAsset \in Ast!AllRows /\ astSeen' = [astSeen EXCEPT ![astAsset] = astNow]
    BY <1>a DEF Ast!Write, AstTyped
  <1>c. /\ DOMAIN astSeen' = Ast!AllRows
        /\ \A x \in Ast!AllRows :
              astSeen'[x] = IF astAsset # None /\ x = astAsset THEN astNow ELSE astSeen[x]
    BY <1>a, <1>b DEF AstTyped
  <1>1. ("lost" \in astRaced' <=> "lost" \in astRaced) /\ ("version" \in astRaced' <=> "version" \in astRaced)
        /\ ("detail" \in astRaced' <=> "detail" \in astRaced)
    OBVIOUS
  <1>2. DOMAIN astReq' = Addr /\ \A p \in Addr : astReq'[p] = IF p = r THEN q ELSE astReq[p]
    BY <1>a DEF AstTyped
  <1>3. AstTyped'
    BY <1>a, <1>c, <1>2 DEF AstTyped
  <1>4. AstAsks(q, astVersions, "lost" \in astRaced)
    BY DEF AstAsks, AstEditing
  <1>5. \A p \in Addr : AstAsks(astReq'[p], astVersions', "lost" \in astRaced')
    BY <1>1, <1>2, <1>4 DEF AstInv
  <1>6. astRaced' \cap {"row", "lost"} = {} =>
            astHad' \subseteq {v.uri} \cup {astVersions[k].uri : k \in DOMAIN astVersions}
    BY <1>a DEF AstInv, MetadataIsKept, Ast!MetadataIsKept
  <1>7. "row" \notin astRaced' => \A x \in Ast!AllRows : x.immutable /\ astSeen'[x] >= 0 => v.immutable /\ v.uri = x.uri
    BY <1>a, <1>c DEF AstInv, MetadataIsKept, Ast!MetadataIsKept
  <1>8. "detail" \notin astRaced => Ast!Recent(astDetail)'
    <2>1. CASE astDetail = None
      BY <2>1 DEF Ast!Recent, Ast!Lapsed
    <2>2. CASE astDetail # None
      <3>1. "detail" \notin astRaced => Ast!Recent(astDetail)
        BY DEF AstInv, MetadataIsKept, Ast!MetadataIsKept
      <3>2. astDetail.value \in Ast!AllRows /\ astDetail.until \in Int /\ astDetail.until <= astNow + AstCacheTTL
        BY <1>a, <2>2 DEF AstTyped
      <3>3. astSeen[astDetail.value] \in Int /\ astSeen[astDetail.value] <= astNow /\ astNow \in Nat
        BY <1>a, <3>2 DEF AstTyped
      <3>4. astSeen'[astDetail.value] = IF astAsset # None /\ astDetail.value = astAsset THEN astNow
                                        ELSE astSeen[astDetail.value]
        BY <1>c, <3>2
      <3> QED BY <2>2, <3>1, <3>2, <3>3, <3>4 DEF Ast!Recent, Ast!Lapsed
    <2> QED BY <2>1, <2>2
  <1>9. MetadataIsKept'
    <2>1. "version" \notin astRaced' => \A k \in DOMAIN astVersions' : astVersions'[k].version = k
      BY <1>1 DEF AstInv, MetadataIsKept, Ast!MetadataIsKept
    <2> QED BY <1>a, <1>1, <1>6, <1>7, <1>8, <2>1 DEF MetadataIsKept, Ast!MetadataIsKept
  <1>10. \A p \in Addr : astReq'[p].pc \in AstEditing \cup {"mint"} => astAsset' # None
    BY <1>a
  <1>11. \A k \in DOMAIN astVersions' : astVersions'[k].version \in 1..k
    BY DEF AstInv
  <1> QED BY <1>a, <1>3, <1>5, <1>9, <1>10, <1>11 DEF AstInv

LEMMA AstTokenizeInv == ASSUME AstInv, NEW r \in Addr, Ast!TokenizeAsset(r) PROVE AstInv'
  <1> DEFINE v == Ast!Row(Ast!NoUri, FALSE, FALSE)
  <1>1. v \in Ast!AllRows
    BY AstRows DEF Ast!Row, AstTexts
  <1> HIDE DEF v
  <1>2. Ast!Write(v) /\ astReq' = [astReq EXCEPT ![r] = [pc |-> "mint"]] /\ astAsset = None
    BY DEF Ast!TokenizeAsset, Ast!Goto, v
  <1>3. UNCHANGED <<astNow, astVersions, astDetail>> /\ astRaced' = astRaced
    BY DEF Ast!TokenizeAsset
  <1> DEFINE q == [pc |-> "mint"]
  <1>4. AstChange(r, q, v)
    BY <1>2, <1>3 DEF AstChange
  <1> HIDE DEF q
  <1> QED BY <1>1, <1>4, AstWrites

LEMMA AstMintInv == ASSUME AstInv, NEW r \in Addr, NEW ok \in BOOLEAN, Ast!Mint(r, ok) PROVE AstInv'
  <1>1. astReq[r].pc = "mint" /\ astReq' = [astReq EXCEPT ![r] = [pc |-> "done"]]
    BY DEF Ast!Mint, Ast!Goto, Ast!Done
  <1>2. astAsset # None /\ astAsset \in Ast!AllRows
    BY <1>1 DEF AstInv, AstTyped
  <1>3. UNCHANGED <<astNow, astVersions, astDetail>> /\ astRaced' = astRaced
    BY DEF Ast!Mint
  <1>4. CASE ok
    <2> DEFINE v == [astAsset EXCEPT !.verified = TRUE]
    <2>1. v \in Ast!AllRows /\ v.uri = astAsset.uri /\ v.immutable = astAsset.immutable
      BY <1>2, AstRows
    <2>2. Ast!Write(v)
      BY <1>4 DEF Ast!Mint
    <2> HIDE DEF v
    <2> DEFINE q == [pc |-> "done"]
    <2>3. AstChange(r, q, v)
      BY <1>1, <1>3, <2>1, <2>2 DEF AstChange
    <2> HIDE DEF q
    <2> QED BY <2>1, <2>3, AstWrites
  <1>5. CASE ~ok
    <2>1. AstAsks([pc |-> "done"], astVersions, "lost" \in astRaced)
      BY DEF AstAsks, AstEditing
    <2>2. UNCHANGED <<astAsset, astSeen, astHad>>
      BY <1>5 DEF Ast!Mint
    <2> QED BY <1>1, <1>2, <1>3, <2>1, <2>2, AstQuiet
  <1> QED BY <1>4, <1>5

\* The steps that only read, and the records that change nothing of the row.
LEMMA AstReadsInv ==
    ASSUME AstInv, NEW r \in Addr,
           \/ Ast!ListAssets(r) \/ Ast!GetAsset(r) \/ Ast!ListAssetForSale(r) \/ Ast!TransferAsset(r)
           \/ \E uri \in AstUris : Ast!UpdateMetadata(r, uri)
           \/ \E k \in DOMAIN astVersions : Ast!RevertMetadataVersion(r, k)
           \/ Ast!MakeMetadataImmutable(r)
    PROVE  AstInv'
  <1>0. astAsset # None => astAsset \in Ast!AllRows /\ astAsset.uri \in AstTexts
    BY AstRows DEF AstInv, AstTyped
  <1>1. CASE Ast!ListAssets(r)
    <2> DEFINE q == [pc |-> "list", value |-> astAsset]
    <2>1. AstAsks(q, astVersions, "lost" \in astRaced) /\ q.pc \notin AstEditing \cup {"mint"}
      BY DEF AstAsks, AstEditing
    <2>2. astReq' = [astReq EXCEPT ![r] = q] /\ UNCHANGED <<astNow, astAsset, astVersions, astSeen, astHad, astDetail, astRaced>>
      BY <1>1 DEF Ast!ListAssets, Ast!Goto
    <2> HIDE DEF q
    <2> QED BY <2>1, <2>2, AstQuiet
  <1>2. CASE Ast!GetAsset(r)
    <2> DEFINE q == [pc |-> "detail", value |-> astAsset]
    <2>1. AstAsks(q, astVersions, "lost" \in astRaced) /\ q.pc \notin AstEditing \cup {"mint"}
      BY <1>0, <1>2 DEF AstAsks, AstEditing, Ast!GetAsset
    <2>2. astReq' = [astReq EXCEPT ![r] = q] /\ UNCHANGED <<astNow, astAsset, astVersions, astSeen, astHad, astDetail, astRaced>>
      BY <1>2 DEF Ast!GetAsset, Ast!Goto
    <2> HIDE DEF q
    <2> QED BY <2>1, <2>2, AstQuiet
  <1>3. CASE Ast!ListAssetForSale(r) \/ Ast!TransferAsset(r)
    <2> DEFINE q == [pc |-> "done"]
    <2>1. AstAsks(q, astVersions, "lost" \in astRaced) /\ q.pc \notin AstEditing \cup {"mint"}
      BY DEF AstAsks, AstEditing
    <2>2. /\ astReq' = [astReq EXCEPT ![r] = q] /\ UNCHANGED <<astNow, astAsset, astVersions, astSeen, astHad, astRaced>>
          /\ astDetail' = None
      BY <1>3 DEF Ast!ListAssetForSale, Ast!TransferAsset, Ast!Goto, Ast!Done
    <2> HIDE DEF q
    <2> QED BY <2>1, <2>2, AstQuiet
  <1>4. ASSUME NEW uri \in AstUris, Ast!UpdateMetadata(r, uri) PROVE AstInv'
    <2> DEFINE q == [pc |-> "latest", op |-> "update", row |-> astAsset, uri |-> uri, next |-> 0]
    <2>0. astAsset # None /\ ~astAsset.immutable /\ uri \in AstTexts
      BY <1>4 DEF Ast!UpdateMetadata, Ast!MayEdit, AstTexts
    <2>1. AstAsks(q, astVersions, "lost" \in astRaced)
      BY <1>0, <2>0 DEF AstAsks, AstEditing, AstEdit
    <2>2. astReq' = [astReq EXCEPT ![r] = q] /\ UNCHANGED <<astNow, astAsset, astVersions, astSeen, astHad, astDetail, astRaced>>
      BY <1>4 DEF Ast!UpdateMetadata, Ast!Goto
    <2> HIDE DEF q
    <2> QED BY <2>0, <2>1, <2>2, AstQuiet
  <1>5. ASSUME NEW k \in DOMAIN astVersions, Ast!RevertMetadataVersion(r, k) PROVE AstInv'
    <2> DEFINE q == [pc |-> "latest", op |-> "revert", row |-> astAsset, uri |-> astVersions[k].uri, next |-> 0]
    <2>0. astAsset # None /\ ~astAsset.immutable
      BY <1>5 DEF Ast!RevertMetadataVersion, Ast!MayEdit
    <2>3. astVersions[k].uri \in AstTexts
      <3>1. astVersions[k] \in AstVersion
        <4> DEFINE S == AstVersion
        <4>1. astVersions \in Seq(S)
          BY DEF AstInv, AstTyped
        <4> HIDE DEF S
        <4>2. astVersions[k] \in S
          BY <4>1
        <4> QED BY <4>2 DEF S
      <3> QED BY <3>1 DEF AstVersion
    <2>1. AstAsks(q, astVersions, "lost" \in astRaced)
      BY <1>0, <2>0, <2>3 DEF AstAsks, AstEditing, AstEdit
    <2>2. astReq' = [astReq EXCEPT ![r] = q] /\ UNCHANGED <<astNow, astAsset, astVersions, astSeen, astHad, astDetail, astRaced>>
      BY <1>5 DEF Ast!RevertMetadataVersion, Ast!Goto
    <2> HIDE DEF q
    <2> QED BY <2>0, <2>1, <2>2, AstQuiet
  <1>6. CASE Ast!MakeMetadataImmutable(r)
    <2> DEFINE q == [pc |-> "save", op |-> "freeze", row |-> astAsset, uri |-> astAsset.uri, next |-> 0]
    <2>0. astAsset # None
      BY <1>6 DEF Ast!MakeMetadataImmutable
    <2>1. AstAsks(q, astVersions, "lost" \in astRaced)
      BY <1>0, <2>0 DEF AstAsks, AstEditing, AstEdit
    <2>2. astReq' = [astReq EXCEPT ![r] = q] /\ UNCHANGED <<astNow, astAsset, astVersions, astSeen, astHad, astDetail, astRaced>>
      BY <1>6 DEF Ast!MakeMetadataImmutable, Ast!Goto
    <2> HIDE DEF q
    <2> QED BY <2>0, <2>1, <2>2, AstQuiet
  <1> QED BY <1>1, <1>2, <1>3, <1>4, <1>5, <1>6

LEMMA AstFillInv == ASSUME AstInv, NEW r \in Addr, Ast!Fill(r) PROVE AstInv'
  <1> DEFINE q == [pc |-> "done"]
  <1>1. AstAsks(q, astVersions, "lost" \in astRaced) /\ q.pc \notin AstEditing \cup {"mint"}
    BY DEF AstAsks, AstEditing
  <1>2. astReq' = [astReq EXCEPT ![r] = q] /\ UNCHANGED <<astNow, astAsset, astVersions, astSeen, astHad>>
    BY DEF Ast!Fill, Ast!Goto, Ast!Done
  <1>3. astReq[r].pc = "list" \/ astReq[r].pc = "detail"
    BY DEF Ast!Fill
  <1>4. astRaced \subseteq astRaced' /\ astRaced' \subseteq astRaced \cup {"detail", "list"}
    BY <1>3 DEF Ast!Fill
  <1> HIDE DEF q
  <1>5. CASE astReq[r].pc = "list"
    <2>1. astDetail' = astDetail
      BY <1>5 DEF Ast!Fill
    <2> QED BY <1>1, <1>2, <1>4, <2>1, AstQuiet
  <1>6. CASE astReq[r].pc = "detail"
    <2>1. astDetail' = [value |-> astReq[r].value, until |-> astNow + AstCacheTTL]
      BY <1>6 DEF Ast!Fill, Ast!Cached
    <2>2. astReq[r].value \in Ast!AllRows /\ astNow \in Nat
      BY <1>6 DEF AstInv, AstAsks, AstTyped
    <2>3. astDetail'.value = astReq[r].value /\ astDetail'.until = astNow + AstCacheTTL
      BY <2>1
    <2>4. "detail" \notin astRaced' => astReq[r].value = astAsset
      BY <1>6 DEF Ast!Fill
    <2>5. /\ astDetail'.value \in Ast!AllRows /\ astDetail'.until \in Int
          /\ astDetail'.until <= astNow + AstCacheTTL
          /\ "detail" \notin astRaced' => astDetail'.value = astAsset
      BY <2>2, <2>3, <2>4, AssetAssumption
    <2> QED BY <1>1, <1>2, <1>4, <2>5, AstQuiet
  <1> QED BY <1>3, <1>5, <1>6

LEMMA AstTickInv == ASSUME AstInv, Ast!Tick PROVE AstInv'
  <1>1. astNow' = astNow + 1
        /\ UNCHANGED <<astAsset, astVersions, astDetail, astReq, astSeen, astHad, astRaced>>
    BY DEF Ast!Tick
  <1>2. AstTyped'
    BY <1>1, AssetAssumption DEF AstInv, AstTyped
  <1>3. "detail" \notin astRaced => Ast!Recent(astDetail)'
    <2>1. Ast!Lapsed(astDetail) => Ast!Lapsed(astDetail)'
      BY <1>1 DEF AstInv, AstTyped, Ast!Lapsed
    <2> QED BY <1>1, <2>1 DEF AstInv, MetadataIsKept, Ast!MetadataIsKept, Ast!Recent
  <1>4. MetadataIsKept'
    BY <1>1, <1>3 DEF AstInv, MetadataIsKept, Ast!MetadataIsKept
  <1> QED BY <1>1, <1>2, <1>4 DEF AstInv

\* Nobody's number is ahead of the end of the history.
LEMMA AstNumbers ==
    ASSUME AstInv
    PROVE  /\ Ast!NextVersion(Ast!Numbers) \in 1..(Len(astVersions) + 1)
           /\ "version" \notin astRaced => Ast!NextVersion(Ast!Numbers) = Len(astVersions) + 1
  <1> DEFINE n == Len(astVersions)
             A == Ast!Numbers
  <1>1. n \in Nat /\ DOMAIN astVersions = 1..n
    BY DEF AstInv, AstTyped
  <1>2. \A k \in 1..n : astVersions[k].version \in 1..k
    BY <1>1 DEF AstInv
  <1>3. A = {astVersions[k].version : k \in 1..n}
    BY <1>1 DEF Ast!Numbers
  <1>4. \A k \in 1..n : astVersions[k].version \in 0..n
    BY <1>1, <1>2
  <1>5. A \in SUBSET (0..n) /\ A \subseteq 1..n
    BY <1>1, <1>2, <1>3
  <1>6. CASE A = {}
    <2>1. n = 0
      <3> SUFFICES ASSUME n # 0 PROVE FALSE
        OBVIOUS
      <3>1. 1 \in 1..n
        BY <1>1
      <3>2. astVersions[1].version \in A
        BY <1>3, <3>1
      <3> QED BY <1>6, <3>2
    <2>2. Ast!NextVersion(A) = 1
      BY <1>6 DEF Ast!NextVersion
    <2> QED BY <2>1, <2>2
  <1>7. CASE A # {}
    <2>1. PICK m \in A : \A j \in A : j <= m
      <3> HIDE DEF A, n
      <3> QED BY <1>1, <1>5, <1>7, GreatestNumber
    <2>2. Ast!Max(A) \in A /\ \A j \in A : j <= Ast!Max(A)
      <3> HIDE DEF A
      <3>1. \E x \in A : \A y \in A : y <= x
        BY <2>1
      <3>2. Ast!Max(A) = CHOOSE x \in A : \A y \in A : x >= y
        BY DEF Ast!Max
      <3>3. \A x, y \in A : (y <= x) <=> (x >= y)
        BY <1>5
      <3> QED BY <3>1, <3>2, <3>3
    <2>3. Ast!NextVersion(A) = Ast!Max(A) + 1
      BY <1>7 DEF Ast!NextVersion
    <2>4. Ast!Max(A) \in 1..n
      BY <1>5, <2>2
    <2>5. "version" \notin astRaced => Ast!Max(A) = n
      <3> SUFFICES ASSUME "version" \notin astRaced PROVE Ast!Max(A) = n
        OBVIOUS
      <3>1. n \in 1..n
        BY <1>1, <2>4
      <3>2. astVersions[n].version = n
        BY <1>1, <3>1 DEF AstInv, MetadataIsKept, Ast!MetadataIsKept
      <3>3. n \in A
        BY <1>3, <3>1, <3>2
      <3>4. n <= Ast!Max(A)
        BY <2>2, <3>3
      <3> QED BY <1>1, <2>4, <3>4
    <2> QED BY <1>1, <2>3, <2>4, <2>5
  <1> QED BY <1>6, <1>7

LEMMA AstRecordReadInv == ASSUME AstInv, NEW r \in Addr, Ast!RecordRead(r) PROVE AstInv'
  <1> DEFINE n == Ast!NextVersion(Ast!Numbers)
             p == astReq[r]
             q == [p EXCEPT !.pc = "record", !.next = n]
  <1>1. p.pc = "latest" /\ astReq' = [astReq EXCEPT ![r] = q]
    BY DEF Ast!RecordRead, Ast!Goto
  <1>2. p.pc \in AstEditing /\ astAsset # None
    BY <1>1 DEF AstInv, AstEditing
  <1>3. p \in AstEdit /\ p.op # "freeze" /\ ~p.row.immutable
    <2>1. AstAsks(p, astVersions, "lost" \in astRaced)
      BY DEF AstInv
    <2> HIDE DEF p
    <2> QED BY <1>1, <1>2, <2>1 DEF AstAsks
  <1>4. n \in 1..(Len(astVersions) + 1) /\ n \in Nat
    <2>1. Len(astVersions) \in Nat
      BY DEF AstInv, AstTyped
    <2>2. n \in 1..(Len(astVersions) + 1)
      BY AstNumbers
    <2> HIDE DEF n
    <2> QED BY <2>1, <2>2
  <1>5. AstAsks(q, astVersions, "lost" \in astRaced)
    <2> HIDE DEF p, n
    <2>1. q \in AstEdit /\ q.pc = "record" /\ q.op = p.op /\ q.row = p.row /\ q.uri = p.uri /\ q.next = n
      BY <1>3, <1>4 DEF AstEdit, AstEditing
    <2> HIDE DEF q
    <2> QED BY <1>3, <1>4, <2>1 DEF AstAsks
  <1>6. UNCHANGED <<astNow, astAsset, astVersions, astSeen, astHad, astDetail, astRaced>>
    BY DEF Ast!RecordRead
  <1> HIDE DEF q, p, n
  <1> QED BY <1>1, <1>2, <1>5, <1>6, AstQuiet

\* A request that leaves off, or saves without the version it meant to keep:
\* what the asset has had may be missing from the history from then on.
LEMMA AstRecordFailsInv == ASSUME AstInv, NEW r \in Addr, Ast!RecordFails(r) PROVE AstInv'
  <1> DEFINE p == astReq[r]
             q == IF p.op = "update" THEN [p EXCEPT !.pc = "save"] ELSE Ast!Done
  <1>1. p.pc = "record" /\ astReq' = [astReq EXCEPT ![r] = q]
    BY DEF Ast!RecordFails, Ast!Goto
  <1>2. p.pc \in AstEditing /\ astAsset # None
    BY <1>1 DEF AstInv, AstEditing
  <1>3. p \in AstEdit /\ p.op # "freeze" /\ ~p.row.immutable
    <2>1. AstAsks(p, astVersions, "lost" \in astRaced)
      BY DEF AstInv
    <2> HIDE DEF p
    <2> QED BY <1>1, <1>2, <2>1 DEF AstAsks
  <1>4. astRaced' = astRaced \cup {"lost"}
        /\ UNCHANGED <<astNow, astAsset, astVersions, astSeen, astHad, astDetail>>
    BY DEF Ast!RecordFails
  <1>5. AstAsks(q, astVersions, TRUE)
    <2> HIDE DEF p
    <2>1. CASE p.op = "update"
      <3>1. q \in AstEdit /\ q.pc = "save" /\ q.op = p.op /\ q.row = p.row /\ q.uri = p.uri
        BY <1>3, <2>1 DEF AstEdit, AstEditing
      <3> HIDE DEF q
      <3> QED BY <1>3, <3>1 DEF AstAsks
    <2>2. CASE p.op # "update"
      <3>1. q.pc = "done"
        BY <2>2 DEF Ast!Done
      <3> HIDE DEF q
      <3> QED BY <3>1 DEF AstAsks, AstEditing
    <2> QED BY <2>1, <2>2
  <1> HIDE DEF q, p
  <1>6. DOMAIN astReq' = Addr /\ \A a \in Addr : astReq'[a] = IF a = r THEN q ELSE astReq[a]
    BY <1>1 DEF AstInv, AstTyped
  <1>7. "lost" \in astRaced' /\ ("row" \in astRaced' <=> "row" \in astRaced)
        /\ ("version" \in astRaced' <=> "version" \in astRaced) /\ ("detail" \in astRaced' <=> "detail" \in astRaced)
    BY <1>4
  <1>8. \A a \in Addr : AstAsks(astReq'[a], astVersions', "lost" \in astRaced')
    <2> SUFFICES ASSUME NEW a \in Addr PROVE AstAsks(astReq'[a], astVersions, TRUE)
      BY <1>4, <1>7
    <2>1. CASE a = r
      BY <1>5, <1>6, <2>1
    <2>2. CASE a # r
      <3>1. astReq'[a] = astReq[a] /\ AstAsks(astReq[a], astVersions, "lost" \in astRaced)
        BY <1>6, <2>2 DEF AstInv
      <3> QED BY <3>1 DEF AstAsks
    <2> QED BY <2>1, <2>2
  <1>9. AstTyped'
    BY <1>4, <1>6 DEF AstInv, AstTyped
  <1>10. MetadataIsKept'
    BY <1>4, <1>7 DEF AstInv, MetadataIsKept, Ast!MetadataIsKept, Ast!Recent, Ast!Lapsed
  <1>11. \A a \in Addr : astReq'[a].pc \in AstEditing \cup {"mint"} => astAsset' # None
    BY <1>2, <1>4, <1>6 DEF AstInv
  <1> QED BY <1>4, <1>8, <1>9, <1>10, <1>11 DEF AstInv

\* One more version, of the row that is about to be replaced.
LEMMA AstRecordInv == ASSUME AstInv, NEW r \in Addr, Ast!RecordVersion(r) PROVE AstInv'
  <1> DEFINE p == astReq[r]
             q == [p EXCEPT !.pc = "save"]
             e == [version |-> p.next, uri |-> p.row.uri]
             n == Len(astVersions)
  <1>1. p.pc = "record" /\ astReq' = [astReq EXCEPT ![r] = q] /\ astVersions' = Append(astVersions, e)
    BY DEF Ast!RecordVersion, Ast!Goto
  <1>2. p.pc \in AstEditing /\ astAsset # None
    BY <1>1 DEF AstInv, AstEditing
  <1>3. p \in AstEdit /\ p.op # "freeze" /\ ~p.row.immutable /\ p.next \in 1..(n + 1)
    <2>1. AstAsks(p, astVersions, "lost" \in astRaced)
      BY DEF AstInv
    <2> HIDE DEF p
    <2> QED BY <1>1, <1>2, <2>1 DEF AstAsks
  <1>4. /\ UNCHANGED <<astNow, astAsset, astSeen, astHad, astDetail>>
        /\ astRaced' = IF p.next # Ast!NextVersion(Ast!Numbers) THEN astRaced \cup {"version"} ELSE astRaced
    BY DEF Ast!RecordVersion
  <1>5. n \in Nat /\ DOMAIN astVersions = 1..n
    BY DEF AstInv, AstTyped
  <1> HIDE DEF p
  <1>6. e \in AstVersion /\ e.version = p.next /\ e.uri = p.row.uri
    BY <1>3, AstRows DEF AstEdit, AstVersion
  <1>7. q \in AstEdit /\ q.pc = "save" /\ q.op = p.op /\ q.row = p.row /\ q.uri = p.uri
    BY <1>3 DEF AstEdit, AstEditing
  <1>8. /\ astVersions' \in Seq(AstVersion) /\ Len(astVersions') = n + 1 /\ astVersions'[n + 1] = e
        /\ \A k \in 1..n : astVersions'[k] = astVersions[k]
    <2> DEFINE S == AstVersion
    <2>1. astVersions \in Seq(S) /\ e \in S
      BY <1>6 DEF AstInv, AstTyped
    <2> HIDE DEF S, e
    <2>2. /\ astVersions' \in Seq(S) /\ Len(astVersions') = n + 1 /\ astVersions'[n + 1] = e
          /\ \A k \in 1..n : astVersions'[k] = astVersions[k]
      BY <1>1, <1>5, <2>1
    <2> QED BY <2>2 DEF S
  <1> HIDE DEF q, e, n
  <1>9. DOMAIN astVersions' = 1..(n + 1) /\ n + 1 \in 1..(n + 1) /\ \A k \in 1..(n + 1) : k \in 1..n \/ k = n + 1
    BY <1>5, <1>8
  <1>10. DOMAIN astReq' = Addr /\ \A a \in Addr : astReq'[a] = IF a = r THEN q ELSE astReq[a]
    BY <1>1 DEF AstInv, AstTyped
  <1>11. /\ "lost" \in astRaced' <=> "lost" \in astRaced
         /\ "row" \in astRaced' <=> "row" \in astRaced
         /\ "detail" \in astRaced' <=> "detail" \in astRaced
         /\ "version" \notin astRaced' => "version" \notin astRaced /\ p.next = Ast!NextVersion(Ast!Numbers)
    BY <1>4
  <1>12. \A a \in Addr : AstAsks(astReq'[a], astVersions', "lost" \in astRaced')
    <2> SUFFICES ASSUME NEW a \in Addr PROVE AstAsks(astReq'[a], astVersions', "lost" \in astRaced')
      OBVIOUS
    <2>1. CASE a = r
      <3>1. astReq'[a] = q /\ \E k \in DOMAIN astVersions' : astVersions'[k].uri = q.row.uri
        BY <1>6, <1>7, <1>8, <1>9, <1>10, <2>1
      <3> QED BY <1>3, <1>7, <3>1 DEF AstAsks
    <2>2. CASE a # r
      <3>1. astReq'[a] = astReq[a] /\ AstAsks(astReq[a], astVersions, "lost" \in astRaced)
        BY <1>10, <2>2 DEF AstInv
      <3>2. 1..(Len(astVersions) + 1) \subseteq 1..(Len(astVersions') + 1)
        BY <1>5, <1>8 DEF n
      <3>3. ASSUME NEW u, \E k \in DOMAIN astVersions : astVersions[k].uri = u
            PROVE  \E k \in DOMAIN astVersions' : astVersions'[k].uri = u
        <4>1. PICK k \in 1..n : astVersions[k].uri = u
          BY <1>5, <3>3
        <4>2. k \in DOMAIN astVersions' /\ astVersions'[k].uri = u
          BY <1>5, <1>8, <1>9, <4>1
        <4> QED BY <4>2
      <3> DEFINE s == astReq[a]
      <3>4. ("lost" \in astRaced') = ("lost" \in astRaced)
        BY ONLY <1>11
      <3>5. s.pc = "save" /\ s.op # "freeze" /\ "lost" \notin astRaced =>
                \E k \in DOMAIN astVersions' : astVersions'[k].uri = s.row.uri
        <4> HIDE DEF s
        <4> QED BY ONLY <3>1, <3>3 DEF AstAsks, s
      <3> HIDE DEF s
      <3>6. AstAsks(s, astVersions', "lost" \in astRaced')
        BY ONLY <3>1, <3>2, <3>4, <3>5 DEF AstAsks, s
      <3> QED BY ONLY <3>1, <3>6 DEF s
    <2> QED BY <2>1, <2>2
  <1>13. AstTyped'
    BY <1>4, <1>8, <1>10 DEF AstInv, AstTyped
  <1>14. \A k \in DOMAIN astVersions' : astVersions'[k].version \in 1..k
    <2>1. \A k \in 1..n : astVersions[k].version \in 1..k
      BY <1>5 DEF AstInv
    <2> QED BY <1>3, <1>6, <1>8, <1>9, <2>1
  <1>15. "version" \notin astRaced' => \A k \in DOMAIN astVersions' : astVersions'[k].version = k
    <2> SUFFICES ASSUME "version" \notin astRaced' PROVE \A k \in DOMAIN astVersions' : astVersions'[k].version = k
      OBVIOUS
    <2>1. p.next = n + 1
      BY <1>11, AstNumbers DEF n
    <2>2. \A k \in 1..n : astVersions[k].version = k
      BY <1>5, <1>11 DEF AstInv, MetadataIsKept, Ast!MetadataIsKept
    <2> QED BY <1>6, <1>8, <1>9, <2>1, <2>2
  <1>16. astRaced' \cap {"row", "lost"} = {} /\ astAsset' # None =>
             astHad' \subseteq {astAsset'.uri} \cup {astVersions'[k].uri : k \in DOMAIN astVersions'}
    <2> SUFFICES ASSUME astRaced' \cap {"row", "lost"} = {}, NEW u \in astHad', u # astAsset'.uri
                 PROVE  \E k \in DOMAIN astVersions' : astVersions'[k].uri = u
      OBVIOUS
    <2>1. astRaced \cap {"row", "lost"} = {} /\ u \in astHad /\ u # astAsset.uri
      BY <1>4, <1>11
    <2>2. u \in {astVersions[k].uri : k \in DOMAIN astVersions}
      BY <1>2, <2>1 DEF AstInv, MetadataIsKept, Ast!MetadataIsKept
    <2>3. PICK k \in 1..n : astVersions[k].uri = u
      BY <1>5, <2>2
    <2>4. k \in DOMAIN astVersions' /\ astVersions'[k].uri = u
      BY <1>5, <1>8, <1>9, <2>3
    <2> QED BY <2>4
  <1>17. MetadataIsKept'
    BY <1>4, <1>11, <1>15, <1>16 DEF AstInv, MetadataIsKept, Ast!MetadataIsKept, Ast!Recent, Ast!Lapsed
  <1>18. \A a \in Addr : astReq'[a].pc \in AstEditing \cup {"mint"} => astAsset' # None
    BY <1>2, <1>4, <1>10 DEF AstInv
  <1>19. astAsset' = None => astHad' = {} /\ \A v \in Ast!AllRows : astSeen'[v] = -1
    BY <1>4 DEF AstInv
  <1> QED BY <1>12, <1>13, <1>14, <1>17, <1>18, <1>19 DEF AstInv

\* The row as it was read, with the new URI, or frozen.
LEMMA AstSaveInv == ASSUME AstInv, NEW r \in Addr, Ast!SaveAsset(r) PROVE AstInv'
  <1> DEFINE p == astReq[r]
             v == Ast!Edited(p)
             q == [pc |-> "done"]
  <1>1. p.pc = "save" /\ astReq' = [astReq EXCEPT ![r] = q] /\ Ast!Write(v)
    BY DEF Ast!SaveAsset, Ast!Goto, Ast!Done
  <1>2. p.pc \in AstEditing /\ AstAsks(p, astVersions, "lost" \in astRaced)
    BY <1>1 DEF AstInv, AstEditing
  <1>3. /\ UNCHANGED <<astNow, astVersions, astDetail>>
        /\ astRaced' = IF astAsset # p.row THEN astRaced \cup {"row"} ELSE astRaced
    BY DEF Ast!SaveAsset
  <1> HIDE DEF p
  <1>4. /\ p \in AstEdit /\ p.row \in Ast!AllRows
        /\ p.op = "freeze" => p.uri = p.row.uri
        /\ p.op # "freeze" => ~p.row.immutable
        /\ p.op # "freeze" /\ "lost" \notin astRaced => \E k \in DOMAIN astVersions : astVersions[k].uri = p.row.uri
    BY <1>1, <1>2 DEF AstAsks, AstEdit
  <1>5. v \in Ast!AllRows /\ v.uri = p.uri /\ (p.row.immutable => v.immutable)
    BY <1>4, AstRows DEF Ast!Edited, AstEdit
  <1> HIDE DEF v
  <1>6. astRaced \subseteq astRaced' /\ astRaced' \subseteq astRaced \cup {"row"}
        /\ ("row" \notin astRaced' => astAsset = p.row) /\ ("lost" \in astRaced' <=> "lost" \in astRaced)
    BY <1>3
  <1>7. AstChange(r, q, v)
    <2>1. "row" \notin astRaced' /\ astAsset.immutable => v.immutable /\ v.uri = astAsset.uri
      BY <1>4, <1>5, <1>6
    <2>2. astRaced' \cap {"row", "lost"} = {} =>
              v.uri = astAsset.uri \/ \E k \in DOMAIN astVersions : astVersions[k].uri = astAsset.uri
      BY <1>4, <1>5, <1>6
    <2> QED BY <1>1, <1>3, <1>6, <2>1, <2>2 DEF AstChange
  <1> HIDE DEF q
  <1> QED BY <1>5, <1>7, AstWrites

LEMMA AstInvNext == AstInv /\ [Ast!Next]_(Ast!vars) => AstInv'
  <1> SUFFICES ASSUME AstInv, [Ast!Next]_(Ast!vars) PROVE AstInv'
    OBVIOUS
  <1>1. CASE UNCHANGED Ast!vars
    BY <1>1 DEF Ast!vars, AstInv, AstTyped, MetadataIsKept, Ast!MetadataIsKept, Ast!Recent, Ast!Lapsed
  <1>2. CASE Ast!Next
    BY <1>2, AstTokenizeInv, AstMintInv, AstReadsInv, AstFillInv, AstRecordReadInv, AstRecordInv,
       AstRecordFailsInv, AstSaveInv, AstTickInv DEF Ast!Next
  <1> QED BY <1>1, <1>2

\* Whatever requests overlap, the history of an asset is complete unless a
\* copy was out of date, and its cached detail was true a lifetime ago.
THEOREM MetadataKept == Ast!Spec => []MetadataIsKept
  <1>1. AstInv => MetadataIsKept
    BY DEF AstInv
  <1> QED BY <1>1, AstInvInit, AstInvNext, PTL DEF Ast!Spec

(***************************************************************************)
(* Sign-in with a provider.  An identity has one row of links for ever,    *)
(* since the constraint sees the hidden rows; a session, and a request     *)
(* about to create one, has such a row behind it; and a user made for an   *)
(* identity has it too, unless its request is still to make the link or    *)
(* was refused it.                                                         *)
(***************************************************************************)
SocEmails == AuthEmails \cup {AuthEmailOf[i] : i \in AuthIdentities}
SocUser == [email : SocEmails, via : AuthIdentities \cup {None}]
SocLink == [identity : AuthIdentities, user : Nat, deleted : BOOLEAN]

SocLinked(ls, id, u) == \E k \in DOMAIN ls : ls[k].identity = id /\ ls[k].user = u

SocAsks(q, ls) ==
    /\ q.pc \in {"create", "link", "manual", "session"} => q.id \in AuthIdentities
    /\ q.pc \in {"link", "manual", "session"} => q.user \in Nat
    /\ q.pc = "session" => SocLinked(ls, q.id, q.user)

SocMaking(q, id, u) == q.pc = "link" /\ q.created /\ q.id = id /\ q.user = u

SocOwned(us, ls, rs, os) ==
    \A u \in DOMAIN us \ os : us[u].via # None =>
        SocLinked(ls, us[u].via, u) \/ \E r \in AuthSocialReqs : SocMaking(rs[r], us[u].via, u)

SocInv ==
    /\ authUsers \in Seq(SocUser) /\ authLinks \in Seq(SocLink) /\ DOMAIN authSocialReq = AuthSocialReqs
    /\ \A r \in AuthSocialReqs : SocAsks(authSocialReq[r], authLinks)
    /\ \A j, k \in DOMAIN authLinks : authLinks[j].identity = authLinks[k].identity => j = k
    /\ \A s \in authSocialSessions : SocLinked(authLinks, s.identity, s.user)
    /\ SocOwned(authUsers, authLinks, authSocialReq, authOrphans)

LEMMA SocInvMeans == SocInv => Auth!OneUserPerIdentity
  <1> SUFFICES ASSUME SocInv PROVE Auth!OneUserPerIdentity
    OBVIOUS
  <1>1. ASSUME NEW s \in authSocialSessions, NEW t \in authSocialSessions, s.identity = t.identity
        PROVE  s.user = t.user
    <2>1. PICK j \in DOMAIN authLinks : authLinks[j].identity = s.identity /\ authLinks[j].user = s.user
      BY DEF SocInv, SocLinked
    <2>2. PICK k \in DOMAIN authLinks : authLinks[k].identity = t.identity /\ authLinks[k].user = t.user
      BY DEF SocInv, SocLinked
    <2>3. j = k
      BY <1>1, <2>1, <2>2 DEF SocInv
    <2> QED BY <2>1, <2>2, <2>3
  <1>2. ASSUME NEW u \in DOMAIN authUsers \ authOrphans, authUsers[u].via # None,
               \A r \in AuthSocialReqs : authSocialReq[r] \in {Auth!New, Auth!Done}
        PROVE  SocLinked(authLinks, authUsers[u].via, u)
    <2>1. \A r \in AuthSocialReqs : authSocialReq[r].pc # "link"
      BY <1>2 DEF Auth!New, Auth!Done
    <2> QED BY <1>2, <2>1 DEF SocInv, SocOwned, SocMaking
  <1> QED BY <1>1, <1>2 DEF Auth!OneUserPerIdentity, SocLinked

LEMMA SocInvInit == Auth!SocialInit => SocInv
  <1> SUFFICES ASSUME Auth!SocialInit PROVE SocInv
    OBVIOUS
  <1>1. \A r \in AuthSocialReqs : authSocialReq[r] = [pc |-> "new"]
    BY DEF Auth!SocialInit, Auth!New
  <1>2. authLinks = <<>> /\ authSocialSessions = {} /\ authOrphans = {} /\ DOMAIN authSocialReq = AuthSocialReqs
    BY DEF Auth!SocialInit
  <1>3. authUsers = <<>> \/ \E e \in AuthEmails : authUsers = <<[email |-> e, via |-> None]>>
    <2>1. PICK es \in SUBSET AuthEmails :
            authUsers = IF es = {} THEN <<>> ELSE <<[email |-> CHOOSE e \in es : TRUE, via |-> None]>>
      BY DEF Auth!SocialInit
    <2>2. es # {} => (CHOOSE e \in es : TRUE) \in AuthEmails
      OBVIOUS
    <2> QED BY <2>1, <2>2
  <1>4. authUsers \in Seq(SocUser) /\ \A u \in DOMAIN authUsers : authUsers[u].via = None
    <2>1. CASE authUsers = <<>>
      BY <2>1
    <2>2. ASSUME NEW e \in AuthEmails, authUsers = <<[email |-> e, via |-> None]>> PROVE <1>4!1 /\ <1>4!2
      <3>1. [email |-> e, via |-> None] \in SocUser
        BY DEF SocUser, SocEmails
      <3> QED BY <2>2, <3>1
    <2> QED BY <1>3, <2>1, <2>2
  <1>5. \A r \in AuthSocialReqs : SocAsks(authSocialReq[r], authLinks)
    BY <1>1 DEF SocAsks
  <1> QED BY <1>2, <1>4, <1>5 DEF SocInv, SocOwned

\* More rows of links: what was linked stays linked.
LEMMA SocMoreLinks ==
    ASSUME NEW ls, NEW ms, \A k \in DOMAIN ls : k \in DOMAIN ms /\ ms[k].identity = ls[k].identity /\ ms[k].user = ls[k].user
    PROVE  /\ \A id, u : SocLinked(ls, id, u) => SocLinked(ms, id, u)
           /\ \A q : SocAsks(q, ls) => SocAsks(q, ms)
  <1>1. \A id, u : SocLinked(ls, id, u) => SocLinked(ms, id, u)
    BY DEF SocLinked
  <1> QED BY <1>1 DEF SocAsks

\* A step of one request that makes neither a user nor a link, and is not
\* that of a request about to link the user it made.
LEMMA SocQuiet ==
    ASSUME SocInv, NEW r \in AuthSocialReqs, NEW q, authSocialReq' = [authSocialReq EXCEPT ![r] = q],
           SocAsks(q, authLinks), authSocialReq[r].pc # "link",
           UNCHANGED <<authUsers, authLinks, authOrphans>>,
           \A s \in authSocialSessions' : SocLinked(authLinks, s.identity, s.user)
    PROVE  SocInv'
  <1>1. DOMAIN authSocialReq' = AuthSocialReqs
        /\ \A p \in AuthSocialReqs : authSocialReq'[p] = IF p = r THEN q ELSE authSocialReq[p]
    BY DEF SocInv
  <1>2. \A p \in AuthSocialReqs : SocAsks(authSocialReq'[p], authLinks)
    BY <1>1 DEF SocInv
  <1>3. SocOwned(authUsers, authLinks, authSocialReq', authOrphans)
    <2> SUFFICES ASSUME NEW u \in DOMAIN authUsers \ authOrphans, authUsers[u].via # None,
                        ~SocLinked(authLinks, authUsers[u].via, u)
                 PROVE  \E p \in AuthSocialReqs : SocMaking(authSocialReq'[p], authUsers[u].via, u)
      BY DEF SocOwned
    <2>1. PICK p \in AuthSocialReqs : SocMaking(authSocialReq[p], authUsers[u].via, u)
      BY DEF SocInv, SocOwned
    <2>2. p # r
      BY <2>1 DEF SocMaking
    <2>3. authSocialReq'[p] = authSocialReq[p]
      BY <1>1, <2>2
    <2> QED BY <2>1, <2>3
  <1>4. SocOwned(authUsers', authLinks', authSocialReq', authOrphans')
    BY <1>3
  <1>5. \A p \in AuthSocialReqs : SocAsks(authSocialReq'[p], authLinks')
    BY <1>2
  <1>6. \A s \in authSocialSessions' : SocLinked(authLinks', s.identity, s.user)
    OBVIOUS
  <1>7. /\ authUsers' \in Seq(SocUser) /\ authLinks' \in Seq(SocLink)
        /\ \A j, k \in DOMAIN authLinks' : authLinks'[j].identity = authLinks'[k].identity => j = k
    BY DEF SocInv
  <1> QED BY <1>1, <1>4, <1>5, <1>6, <1>7 DEF SocInv

LEMMA SocRow == ASSUME SocInv, NEW k \in DOMAIN authLinks PROVE authLinks[k] \in SocLink
  <1> DEFINE S == SocLink
  <1>1. authLinks \in Seq(S)
    BY DEF SocInv
  <1> HIDE DEF S
  <1>2. authLinks[k] \in S
    BY <1>1
  <1> QED BY <1>2 DEF S

LEMMA SocCallbackInv ==
    ASSUME SocInv, NEW r \in AuthSocialReqs, NEW id \in AuthIdentities, Auth!findOrCreateUserForProfile(r, id)
    PROVE  SocInv'
  <1>1. authSocialReq[r].pc # "link"
    BY DEF Auth!findOrCreateUserForProfile, Auth!New
  <1>2. UNCHANGED <<authUsers, authLinks, authOrphans>> /\ authSocialSessions' = authSocialSessions
    BY DEF Auth!findOrCreateUserForProfile
  <1>3. PICK q : authSocialReq' = [authSocialReq EXCEPT ![r] = q] /\ SocAsks(q, authLinks)
    <2>1. CASE \E k \in Auth!LinkOf(id) : Auth!SocialGoto(r, [pc |-> "session", id |-> id, user |-> authLinks[k].user])
      <3>1. PICK k \in Auth!LinkOf(id) : Auth!SocialGoto(r, [pc |-> "session", id |-> id, user |-> authLinks[k].user])
        BY <2>1
      <3> DEFINE q == [pc |-> "session", id |-> id, user |-> authLinks[k].user]
      <3>2. k \in DOMAIN authLinks /\ authLinks[k].identity = id
        BY DEF Auth!LinkOf
      <3>3. authLinks[k].user \in Nat
        BY <3>2, SocRow DEF SocLink
      <3>4. SocAsks(q, authLinks)
        BY <3>2, <3>3 DEF SocAsks, SocLinked
      <3>5. authSocialReq' = [authSocialReq EXCEPT ![r] = q]
        BY <3>1 DEF Auth!SocialGoto
      <3> QED BY <3>4, <3>5
    <2>2. CASE \E u \in Auth!WithEmail(AuthEmailOf[id]) :
                 Auth!SocialGoto(r, [pc |-> "link", id |-> id, user |-> u, created |-> FALSE])
      <3>1. PICK u \in Auth!WithEmail(AuthEmailOf[id]) :
                 Auth!SocialGoto(r, [pc |-> "link", id |-> id, user |-> u, created |-> FALSE])
        BY <2>2
      <3> DEFINE q == [pc |-> "link", id |-> id, user |-> u, created |-> FALSE]
      <3>2. u \in Nat
        BY DEF Auth!WithEmail, SocInv
      <3>3. SocAsks(q, authLinks) /\ authSocialReq' = [authSocialReq EXCEPT ![r] = q]
        BY <3>1, <3>2 DEF SocAsks, Auth!SocialGoto
      <3> QED BY <3>3
    <2>3. CASE Auth!SocialGoto(r, [pc |-> "create", id |-> id])
      <3> DEFINE q == [pc |-> "create", id |-> id]
      <3>3. SocAsks(q, authLinks) /\ authSocialReq' = [authSocialReq EXCEPT ![r] = q]
        BY <2>3 DEF SocAsks, Auth!SocialGoto
      <3> QED BY <3>3
    <2> QED BY <2>1, <2>2, <2>3 DEF Auth!findOrCreateUserForProfile
  <1>4. \A s \in authSocialSessions' : SocLinked(authLinks, s.identity, s.user)
    BY <1>2 DEF SocInv
  <1> QED BY <1>1, <1>2, <1>3, <1>4, SocQuiet

LEMMA SocSessionInv ==
    ASSUME SocInv, NEW r \in AuthSocialReqs, Auth!CreateSocialSession(r)
    PROVE  SocInv'
  <1> DEFINE q == [pc |-> "done"]
             p == authSocialReq[r]
  <1>1. p.pc = "session" /\ authSocialReq' = [authSocialReq EXCEPT ![r] = q]
        /\ UNCHANGED <<authUsers, authLinks, authOrphans>>
    BY DEF Auth!CreateSocialSession, Auth!SocialGoto, Auth!Done
  <1>2. SocAsks(q, authLinks)
    BY DEF SocAsks
  <1>3. SocLinked(authLinks, p.id, p.user)
    BY <1>1 DEF SocInv, SocAsks
  <1>4. authSocialSessions' = authSocialSessions \cup {[identity |-> p.id, user |-> p.user]}
    BY DEF Auth!CreateSocialSession
  <1>5. \A s \in authSocialSessions' : SocLinked(authLinks, s.identity, s.user)
    <2> HIDE DEF p
    <2> QED BY <1>3, <1>4 DEF SocInv
  <1> HIDE DEF q
  <1> QED BY <1>1, <1>2, <1>5, SocQuiet

LEMMA SocManualInv ==
    ASSUME SocInv, NEW r \in AuthSocialReqs, NEW u \in DOMAIN authUsers, NEW id \in AuthIdentities,
           Auth!LinkAccount(r, u, id)
    PROVE  SocInv'
  <1> DEFINE q == [pc |-> "manual", id |-> id, user |-> u]
  <1>1. authSocialReq[r].pc # "link" /\ authSocialReq' = [authSocialReq EXCEPT ![r] = q]
        /\ UNCHANGED <<authUsers, authLinks, authOrphans>> /\ authSocialSessions' = authSocialSessions
    BY DEF Auth!LinkAccount, Auth!SocialGoto, Auth!New
  <1>2. u \in Nat
    BY DEF SocInv
  <1>3. SocAsks(q, authLinks)
    BY <1>2 DEF SocAsks
  <1>4. \A s \in authSocialSessions' : SocLinked(authLinks, s.identity, s.user)
    BY <1>1 DEF SocInv
  <1> HIDE DEF q
  <1> QED BY <1>1, <1>3, <1>4, SocQuiet

\* The link is hidden, and stays in the table.
LEMMA SocUnlinkInv ==
    ASSUME SocInv, NEW r \in AuthSocialReqs, NEW u \in DOMAIN authUsers, NEW id \in AuthIdentities,
           Auth!UnlinkAccount(r, u, id)
    PROVE  SocInv'
  <1> DEFINE q == [pc |-> "done"]
             mine == {k \in Auth!LinkOf(id) : authLinks[k].user = u}
             G(k) == [authLinks[k] EXCEPT !.deleted = TRUE]
  <1>1. /\ authSocialReq[r].pc # "link" /\ authSocialReq' = [authSocialReq EXCEPT ![r] = q]
        /\ authUsers' = authUsers /\ authOrphans' = authOrphans /\ authSocialSessions' = authSocialSessions
        /\ authLinks' = [k \in DOMAIN authLinks |-> IF k \in mine THEN G(k) ELSE authLinks[k]]
    BY DEF Auth!UnlinkAccount, Auth!SocialGoto, Auth!New, Auth!Done
  <1>2. ASSUME NEW k \in DOMAIN authLinks
        PROVE  authLinks'[k] \in SocLink /\ authLinks'[k].identity = authLinks[k].identity
               /\ authLinks'[k].user = authLinks[k].user
    <2>1. authLinks[k] \in SocLink
      BY SocRow
    <2>2. G(k) \in SocLink /\ G(k).identity = authLinks[k].identity /\ G(k).user = authLinks[k].user
      BY <2>1 DEF SocLink
    <2> HIDE DEF mine, G
    <2>3. authLinks'[k] = IF k \in mine THEN G(k) ELSE authLinks[k]
      BY <1>1
    <2> QED BY <2>1, <2>2, <2>3
  <1>3. DOMAIN authLinks' = DOMAIN authLinks /\ authLinks' \in Seq(SocLink)
    <2> DEFINE S == SocLink
               n == Len(authLinks)
    <2>1. n \in Nat /\ DOMAIN authLinks = 1..n
      BY DEF SocInv
    <2>2. authLinks' \in [1..n -> S]
      <3> HIDE DEF mine, G, n, S
      <3>1. \A k \in 1..n : authLinks'[k] \in S
        BY <1>2, <2>1 DEF S
      <3> QED BY <1>1, <2>1, <3>1
    <2> HIDE DEF S, n
    <2>3. authLinks' \in Seq(S)
      BY <2>1, <2>2, SeqDef, Zenon
    <2>4. DOMAIN authLinks' = DOMAIN authLinks
      BY <2>1, <2>2
    <2> QED BY <2>3, <2>4 DEF S
  <1> HIDE DEF mine, G
  <1>4. /\ \A i, w : SocLinked(authLinks, i, w) => SocLinked(authLinks', i, w)
        /\ \A p : SocAsks(p, authLinks) => SocAsks(p, authLinks')
    <2>1. \A k \in DOMAIN authLinks : k \in DOMAIN authLinks' /\ authLinks'[k].identity = authLinks[k].identity
                                      /\ authLinks'[k].user = authLinks[k].user
      BY <1>2, <1>3
    <2> QED BY <2>1, SocMoreLinks
  <1>5. DOMAIN authSocialReq' = AuthSocialReqs
        /\ \A p \in AuthSocialReqs : authSocialReq'[p] = IF p = r THEN q ELSE authSocialReq[p]
    BY <1>1 DEF SocInv
  <1>6. \A p \in AuthSocialReqs : SocAsks(authSocialReq'[p], authLinks')
    <2>1. SocAsks(q, authLinks')
      BY DEF SocAsks
    <2> HIDE DEF q
    <2> QED BY <1>4, <1>5, <2>1 DEF SocInv
  <1>7. SocOwned(authUsers', authLinks', authSocialReq', authOrphans')
    <2> SUFFICES ASSUME NEW w \in DOMAIN authUsers \ authOrphans, authUsers[w].via # None,
                        ~SocLinked(authLinks', authUsers[w].via, w)
                 PROVE  \E p \in AuthSocialReqs : SocMaking(authSocialReq'[p], authUsers[w].via, w)
      BY <1>1 DEF SocOwned
    <2>1. ~SocLinked(authLinks, authUsers[w].via, w)
      BY <1>4
    <2>2. PICK p \in AuthSocialReqs : SocMaking(authSocialReq[p], authUsers[w].via, w)
      BY <2>1 DEF SocInv, SocOwned
    <2>3. p # r
      BY <1>1, <2>2 DEF SocMaking
    <2>4. authSocialReq'[p] = authSocialReq[p]
      BY <1>5, <2>3
    <2> QED BY <2>2, <2>4
  <1>8. \A j, k \in DOMAIN authLinks' : authLinks'[j].identity = authLinks'[k].identity => j = k
    BY <1>2, <1>3 DEF SocInv
  <1>9. \A s \in authSocialSessions' : SocLinked(authLinks', s.identity, s.user)
    BY <1>1, <1>4 DEF SocInv
  <1> QED BY <1>1, <1>3, <1>5, <1>6, <1>7, <1>8, <1>9 DEF SocInv

LEMMA SocCreateUserInv == ASSUME SocInv, NEW r \in AuthSocialReqs, Auth!CreateUser(r) PROVE SocInv'
  <1> DEFINE p == authSocialReq[r]
             n == Len(authUsers)
             q == [pc |-> "link", id |-> p.id, user |-> n + 1, created |-> TRUE]
             e == [email |-> AuthEmailOf[p.id], via |-> p.id]
  <1>1. p.pc = "create" /\ UNCHANGED <<authLinks, authOrphans>> /\ authSocialSessions' = authSocialSessions
    BY DEF Auth!CreateUser
  <1>2. p.id \in AuthIdentities
    BY <1>1 DEF SocInv, SocAsks
  <1>3. n \in Nat /\ DOMAIN authUsers = 1..n
    BY DEF SocInv
  <1>4. CASE authUsers' = authUsers /\ Auth!SocialGoto(r, Auth!Done)
    <2> DEFINE d == [pc |-> "done"]
    <2>1. authSocialReq' = [authSocialReq EXCEPT ![r] = d] /\ SocAsks(d, authLinks)
      BY <1>4 DEF Auth!SocialGoto, Auth!Done, SocAsks
    <2>2. \A s \in authSocialSessions' : SocLinked(authLinks, s.identity, s.user)
      BY <1>1 DEF SocInv
    <2>3. authSocialReq[r].pc # "link"
      BY <1>1
    <2> HIDE DEF d
    <2> QED BY <1>1, <1>4, <2>1, <2>2, <2>3, SocQuiet
  <1>5. CASE authUsers' = Append(authUsers, e) /\ Auth!SocialGoto(r, q)
    <2>1. e \in SocUser
      BY <1>2 DEF SocUser, SocEmails
    <2>2. /\ authUsers' \in Seq(SocUser) /\ DOMAIN authUsers' = 1..(n + 1) /\ authUsers'[n + 1] = e
          /\ \A u \in 1..n : authUsers'[u] = authUsers[u]
      <3> DEFINE S == SocUser
      <3>1. authUsers \in Seq(S) /\ e \in S
        BY <2>1 DEF SocInv
      <3> HIDE DEF S, e
      <3>2. /\ authUsers' \in Seq(S) /\ DOMAIN authUsers' = 1..(n + 1) /\ authUsers'[n + 1] = e
            /\ \A u \in 1..n : authUsers'[u] = authUsers[u]
        BY <1>3, <1>5, <3>1
      <3> QED BY <3>2 DEF S
    <2>3. DOMAIN authSocialReq' = AuthSocialReqs
          /\ \A x \in AuthSocialReqs : authSocialReq'[x] = IF x = r THEN q ELSE authSocialReq[x]
      BY <1>5 DEF SocInv, Auth!SocialGoto
    <2>4. SocAsks(q, authLinks) /\ SocMaking(q, e.via, n + 1)
      BY <1>2, <1>3 DEF SocAsks, SocMaking
    <2> HIDE DEF p, e, q
    <2>5. \A x \in AuthSocialReqs : SocAsks(authSocialReq'[x], authLinks')
      BY <1>1, <2>3, <2>4 DEF SocInv
    <2>6. SocOwned(authUsers', authLinks', authSocialReq', authOrphans')
      <3> SUFFICES ASSUME NEW u \in 1..(n + 1), u \notin authOrphans, authUsers'[u].via # None,
                          ~SocLinked(authLinks, authUsers'[u].via, u)
                   PROVE  \E x \in AuthSocialReqs : SocMaking(authSocialReq'[x], authUsers'[u].via, u)
        BY <1>1, <2>2 DEF SocOwned
      <3>1. CASE u = n + 1
        <4>1. SocMaking(authSocialReq'[r], authUsers'[u].via, u)
          BY <2>2, <2>3, <2>4, <3>1
        <4> QED BY <4>1
      <3>2. CASE u # n + 1
        <4>1. u \in 1..n
          BY <1>3, <3>2
        <4>2. authUsers'[u] = authUsers[u] /\ u \in DOMAIN authUsers
          BY <1>3, <2>2, <4>1
        <4>3. PICK x \in AuthSocialReqs : SocMaking(authSocialReq[x], authUsers[u].via, u)
          BY <4>2 DEF SocInv, SocOwned
        <4>4. x # r
          BY <1>1, <4>3 DEF SocMaking, p
        <4>5. authSocialReq'[x] = authSocialReq[x]
          BY <2>3, <4>4
        <4> QED BY <4>2, <4>3, <4>5
      <3> QED BY <3>1, <3>2
    <2>7. /\ authLinks' \in Seq(SocLink)
          /\ \A j, k \in DOMAIN authLinks' : authLinks'[j].identity = authLinks'[k].identity => j = k
          /\ \A s \in authSocialSessions' : SocLinked(authLinks', s.identity, s.user)
      BY <1>1 DEF SocInv
    <2> QED BY <2>2, <2>3, <2>5, <2>6, <2>7 DEF SocInv
  <1> QED BY <1>4, <1>5 DEF Auth!CreateUser

\* The link is made, or refused because the identity has a row, which may
\* leave the user that was made for it without one.
LEMMA SocCreateLinkInv == ASSUME SocInv, NEW r \in AuthSocialReqs, Auth!CreateLink(r) PROVE SocInv'
  <1> DEFINE p == authSocialReq[r]
             n == Len(authLinks)
             e == [identity |-> p.id, user |-> p.user, deleted |-> FALSE]
             q == IF p.pc = "link" THEN [pc |-> "session", id |-> p.id, user |-> p.user] ELSE Auth!Done
  <1>1. p.pc \in {"link", "manual"} /\ authUsers' = authUsers /\ authSocialSessions' = authSocialSessions
    BY DEF Auth!CreateLink
  <1>2. p.id \in AuthIdentities /\ p.user \in Nat
    BY <1>1 DEF SocInv, SocAsks
  <1>3. n \in Nat /\ DOMAIN authLinks = 1..n
    BY DEF SocInv
  <1>4. CASE ~Auth!Free(p.id)
    <2>1. authSocialReq' = [authSocialReq EXCEPT ![r] = Auth!Done] /\ authLinks' = authLinks
          /\ authOrphans' = IF p.pc = "link" /\ p.created THEN authOrphans \cup {p.user} ELSE authOrphans
      BY <1>4 DEF Auth!CreateLink, Auth!SocialGoto
    <2>2. DOMAIN authSocialReq' = AuthSocialReqs
          /\ \A x \in AuthSocialReqs : authSocialReq'[x] = IF x = r THEN Auth!Done ELSE authSocialReq[x]
      BY <2>1 DEF SocInv
    <2>3. SocAsks(Auth!Done, authLinks)
      BY DEF Auth!Done, SocAsks
    <2>4. \A x \in AuthSocialReqs : SocAsks(authSocialReq'[x], authLinks')
      BY <2>1, <2>2, <2>3 DEF SocInv
    <2>5. SocOwned(authUsers', authLinks', authSocialReq', authOrphans')
      <3> SUFFICES ASSUME NEW u \in DOMAIN authUsers, u \notin authOrphans', authUsers[u].via # None,
                          ~SocLinked(authLinks, authUsers[u].via, u)
                   PROVE  \E x \in AuthSocialReqs : SocMaking(authSocialReq'[x], authUsers[u].via, u)
        BY <1>1, <2>1 DEF SocOwned
      <3>1. u \notin authOrphans
        BY <2>1
      <3>2. PICK x \in AuthSocialReqs : SocMaking(authSocialReq[x], authUsers[u].via, u)
        BY <3>1 DEF SocInv, SocOwned
      <3>3. x # r
        BY <2>1, <3>2 DEF SocMaking
      <3>4. authSocialReq'[x] = authSocialReq[x]
        BY <2>2, <3>3
      <3> QED BY <3>2, <3>4
    <2>6. /\ authUsers' \in Seq(SocUser) /\ authLinks' \in Seq(SocLink)
          /\ \A j, k \in DOMAIN authLinks' : authLinks'[j].identity = authLinks'[k].identity => j = k
          /\ \A s \in authSocialSessions' : SocLinked(authLinks', s.identity, s.user)
      BY <1>1, <2>1 DEF SocInv
    <2> QED BY <2>2, <2>4, <2>5, <2>6 DEF SocInv
  <1>5. CASE Auth!Free(p.id)
    <2>1. authSocialReq' = [authSocialReq EXCEPT ![r] = q] /\ authLinks' = Append(authLinks, e)
          /\ authOrphans' = authOrphans
      BY <1>5 DEF Auth!CreateLink, Auth!SocialGoto
    <2>2. e \in SocLink
      BY <1>2 DEF SocLink
    <2>3. \A k \in 1..n : authLinks[k].identity # p.id
      BY <1>3, <1>5 DEF Auth!Free
    <2>4. /\ authLinks' \in Seq(SocLink) /\ DOMAIN authLinks' = 1..(n + 1) /\ authLinks'[n + 1] = e
          /\ \A k \in 1..n : authLinks'[k] = authLinks[k]
      <3> DEFINE S == SocLink
      <3>1. authLinks \in Seq(S) /\ e \in S
        BY <2>2 DEF SocInv
      <3> HIDE DEF S, e, q
      <3>2. /\ authLinks' \in Seq(S) /\ DOMAIN authLinks' = 1..(n + 1) /\ authLinks'[n + 1] = e
            /\ \A k \in 1..n : authLinks'[k] = authLinks[k]
        BY <1>3, <2>1, <3>1
      <3> QED BY <3>2 DEF S
    <2>5. DOMAIN authSocialReq' = AuthSocialReqs
          /\ \A x \in AuthSocialReqs : authSocialReq'[x] = IF x = r THEN q ELSE authSocialReq[x]
      BY <2>1 DEF SocInv
    <2>6. e.identity = p.id /\ e.user = p.user /\ n + 1 \in 1..(n + 1) /\ \A k \in 1..n : k \in 1..(n + 1)
      BY <1>3
    <2>7. SocLinked(authLinks', p.id, p.user)
      BY <2>4, <2>6 DEF SocLinked
    <2>8. SocAsks(q, authLinks')
      BY <1>2, <2>7 DEF SocAsks, Auth!Done
    <2> HIDE DEF e, q, p, n
    <2>9. /\ \A i, w : SocLinked(authLinks, i, w) => SocLinked(authLinks', i, w)
          /\ \A x : SocAsks(x, authLinks) => SocAsks(x, authLinks')
      <3>1. \A k \in DOMAIN authLinks : k \in DOMAIN authLinks' /\ authLinks'[k].identity = authLinks[k].identity
                                        /\ authLinks'[k].user = authLinks[k].user
        BY <1>3, <2>4, <2>6
      <3> QED BY <3>1, SocMoreLinks
    <2>10. \A x \in AuthSocialReqs : SocAsks(authSocialReq'[x], authLinks')
      BY <2>5, <2>8, <2>9 DEF SocInv
    <2>11. SocOwned(authUsers', authLinks', authSocialReq', authOrphans')
      <3> SUFFICES ASSUME NEW u \in DOMAIN authUsers, u \notin authOrphans, authUsers[u].via # None,
                          ~SocLinked(authLinks', authUsers[u].via, u)
                   PROVE  \E x \in AuthSocialReqs : SocMaking(authSocialReq'[x], authUsers[u].via, u)
        BY <1>1, <2>1 DEF SocOwned
      <3>1. ~SocLinked(authLinks, authUsers[u].via, u)
        BY <2>9
      <3>2. PICK x \in AuthSocialReqs : SocMaking(authSocialReq[x], authUsers[u].via, u)
        BY <3>1 DEF SocInv, SocOwned
      <3>3. x # r
        BY <2>7, <3>2 DEF SocMaking, p
      <3>4. authSocialReq'[x] = authSocialReq[x]
        BY <2>5, <3>3
      <3> QED BY <3>2, <3>4
    <2>12. \A j, k \in DOMAIN authLinks' : authLinks'[j].identity = authLinks'[k].identity => j = k
      <3> SUFFICES ASSUME NEW j \in 1..(n + 1), NEW k \in 1..(n + 1), authLinks'[j].identity = authLinks'[k].identity
                   PROVE  j = k
        BY <2>4
      <3>1. (j \in 1..n \/ j = n + 1) /\ (k \in 1..n \/ k = n + 1)
        BY <1>3
      <3>2. \A a, b \in 1..n : authLinks[a].identity = authLinks[b].identity => a = b
        BY <1>3 DEF SocInv
      <3> QED BY <2>3, <2>4, <2>6, <3>1, <3>2
    <2>13. \A s \in authSocialSessions' : SocLinked(authLinks', s.identity, s.user)
      BY <1>1, <2>9 DEF SocInv
    <2>14. authUsers' \in Seq(SocUser)
      BY <1>1 DEF SocInv
    <2> QED BY <2>4, <2>5, <2>10, <2>11, <2>12, <2>13, <2>14 DEF SocInv
  <1> QED BY <1>4, <1>5

LEMMA SocInvNext == SocInv /\ [Auth!SocialNext]_(Auth!socialVars) => SocInv'
  <1> SUFFICES ASSUME SocInv, [Auth!SocialNext]_(Auth!socialVars) PROVE SocInv'
    OBVIOUS
  <1>1. CASE UNCHANGED Auth!socialVars
    BY <1>1 DEF Auth!socialVars, SocInv, SocAsks, SocLinked, SocOwned, SocMaking
  <1>2. CASE Auth!SocialNext
    BY <1>2, SocCallbackInv, SocCreateUserInv, SocCreateLinkInv, SocSessionInv, SocManualInv, SocUnlinkInv
       DEF Auth!SocialNext
  <1> QED BY <1>1, <1>2

(***************************************************************************)
(* Sessions of devices.  A Redis key of a session that nobody's old answer *)
(* has extended lapses at the latest a lifetime after the revocation, and  *)
(* before a lifetime after the expiry, and while it lasts it is all that   *)
(* accepts the token.                                                      *)
(***************************************************************************)
DevSession == [created : BOOLEAN, revoked : BOOLEAN, revokedAt : Int, expires : Int]

DevBounded(s, c, a) ==
    /\ ~s.created => c = 0 /\ a = -1 /\ s.expires = 0 /\ ~s.revoked
    /\ s.created => c < s.expires + LimSessionCacheTTL /\ a < s.expires + LimSessionCacheTTL
    /\ s.revoked => c <= s.revokedAt + LimSessionCacheTTL /\ a < s.revokedAt + LimSessionCacheTTL

DevInv ==
    /\ limDeviceNow \in Nat /\ DOMAIN limDeviceReq = Addr
    /\ limDeviceSessions \in [LimDeviceTokens -> DevSession]
    /\ limCache \in [LimDeviceTokens -> Nat] /\ limLast \in [LimDeviceTokens -> Int]
    /\ \A t \in LimDeviceTokens :
        /\ limCache[t] <= limDeviceNow + LimSessionCacheTTL /\ limLast[t] <= limDeviceNow
        /\ limDeviceSessions[t].expires <= limDeviceNow + LimLifetime
    /\ \A r \in Addr :
        /\ limDeviceReq[r].pc \in {"valid", "revoke"} => limDeviceReq[r].token \in LimDeviceTokens
        /\ limDeviceReq[r].pc = "revoke" => limDeviceSessions[limDeviceReq[r].token].created
    /\ \A t \in LimDeviceTokens \ limRaced : DevBounded(limDeviceSessions[t], limCache[t], limLast[t])

LEMMA DevInvMeans == DevInv => Lim!RevocationIsBounded
  <1> SUFFICES ASSUME DevInv, NEW t \in LimDeviceTokens \ limRaced
               PROVE  /\ limDeviceSessions[t].revoked =>
                           limLast[t] < limDeviceSessions[t].revokedAt + LimSessionCacheTTL
                      /\ limLast[t] < limDeviceSessions[t].expires + LimSessionCacheTTL
    BY DEF Lim!RevocationIsBounded
  <1>1. DevBounded(limDeviceSessions[t], limCache[t], limLast[t])
    BY DEF DevInv
  <1>2. limDeviceSessions[t] \in DevSession
    BY DEF DevInv
  <1> QED BY <1>1, <1>2, CredentialAssumption DEF DevBounded, DevSession

LEMMA DevInvInit == Lim!DeviceInit => DevInv
  <1> SUFFICES ASSUME Lim!DeviceInit PROVE DevInv
    OBVIOUS
  <1>1. \A t \in LimDeviceTokens :
            /\ limDeviceSessions[t] = [created |-> FALSE, revoked |-> FALSE, revokedAt |-> 0, expires |-> 0]
            /\ limCache[t] = 0 /\ limLast[t] = -1
    BY DEF Lim!DeviceInit, Lim!NoSession
  <1>2. limDeviceSessions \in [LimDeviceTokens -> DevSession]
    BY DEF Lim!DeviceInit, Lim!NoSession, DevSession
  <1>3. limCache \in [LimDeviceTokens -> Nat] /\ limLast \in [LimDeviceTokens -> Int]
        /\ limDeviceNow = 0 /\ DOMAIN limDeviceReq = Addr
    BY DEF Lim!DeviceInit
  <1>4. \A r \in Addr : limDeviceReq[r].pc = "new"
    BY DEF Lim!DeviceInit, Lim!New
  <1>5. \A t \in LimDeviceTokens : DevBounded(limDeviceSessions[t], limCache[t], limLast[t])
    BY <1>1 DEF DevBounded
  <1> QED BY <1>1, <1>2, <1>3, <1>4, <1>5, CredentialAssumption DEF DevInv

\* A step of one request on one token.
DevChange(t, s, c, a) ==
    /\ limDeviceSessions' = [limDeviceSessions EXCEPT ![t] = s]
    /\ limCache' = [limCache EXCEPT ![t] = c] /\ limLast' = [limLast EXCEPT ![t] = a]
    /\ limDeviceNow' = limDeviceNow /\ limRaced \subseteq limRaced' /\ DOMAIN limDeviceReq' = Addr
    /\ c <= limDeviceNow + LimSessionCacheTTL /\ a <= limDeviceNow /\ s.expires <= limDeviceNow + LimLifetime
    /\ limDeviceSessions[t].created => s.created
    /\ t \notin limRaced' => DevBounded(s, c, a)
    /\ \A r \in Addr : limDeviceReq'[r] # limDeviceReq[r] => limDeviceReq'[r].pc \notin {"valid", "revoke"}

LEMMA DevStep ==
    ASSUME DevInv, NEW t \in LimDeviceTokens, NEW s \in DevSession, NEW c \in Nat, NEW a \in Int,
           DevChange(t, s, c, a)
    PROVE  DevInv'
  <1> USE DEF DevChange
  <1>1. \A u \in LimDeviceTokens :
            /\ limDeviceSessions'[u] = IF u = t THEN s ELSE limDeviceSessions[u]
            /\ limCache'[u] = IF u = t THEN c ELSE limCache[u]
            /\ limLast'[u] = IF u = t THEN a ELSE limLast[u]
    BY DEF DevInv
  <1>2. /\ limDeviceSessions' \in [LimDeviceTokens -> DevSession]
        /\ limCache' \in [LimDeviceTokens -> Nat] /\ limLast' \in [LimDeviceTokens -> Int]
    BY DEF DevInv
  <1>3. \A u \in LimDeviceTokens :
            /\ limCache'[u] <= limDeviceNow' + LimSessionCacheTTL /\ limLast'[u] <= limDeviceNow'
            /\ limDeviceSessions'[u].expires <= limDeviceNow' + LimLifetime
    BY <1>1 DEF DevInv
  <1>4. \A r \in Addr :
            /\ limDeviceReq'[r].pc \in {"valid", "revoke"} => limDeviceReq'[r].token \in LimDeviceTokens
            /\ limDeviceReq'[r].pc = "revoke" => limDeviceSessions'[limDeviceReq'[r].token].created
    <2> SUFFICES ASSUME NEW r \in Addr
                 PROVE  /\ limDeviceReq'[r].pc \in {"valid", "revoke"} => limDeviceReq'[r].token \in LimDeviceTokens
                        /\ limDeviceReq'[r].pc = "revoke" => limDeviceSessions'[limDeviceReq'[r].token].created
      OBVIOUS
    <2>1. CASE limDeviceReq'[r] # limDeviceReq[r]
      BY <1>1, <2>1
    <2>2. CASE limDeviceReq'[r] = limDeviceReq[r]
      BY <1>1, <2>2 DEF DevInv
    <2> QED BY <2>1, <2>2
  <1>5. \A u \in LimDeviceTokens \ limRaced' : DevBounded(limDeviceSessions'[u], limCache'[u], limLast'[u])
    BY <1>1 DEF DevInv
  <1>6. limDeviceNow' \in Nat
    BY DEF DevInv
  <1> QED BY <1>2, <1>3, <1>4, <1>5, <1>6 DEF DevInv

LEMMA DevCreateInv == ASSUME DevInv, NEW t \in LimDeviceTokens, Lim!CreateDeviceSession(t) PROVE DevInv'
  <1> DEFINE s == [Lim!NoSession EXCEPT !.created = TRUE, !.expires = limDeviceNow + LimLifetime]
             old == limDeviceSessions[t]
             c == limCache[t]
             a == limLast[t]
  <1>1. limDeviceSessions' = [limDeviceSessions EXCEPT ![t] = s] /\ ~old.created
    BY DEF Lim!CreateDeviceSession
  <1>2. UNCHANGED <<limDeviceNow, limCache, limDeviceReq, limLast, limRaced>>
    BY DEF Lim!CreateDeviceSession
  <1>3. limDeviceNow \in Nat /\ c \in Nat /\ a \in Int /\ c <= limDeviceNow + LimSessionCacheTTL /\ a <= limDeviceNow
    BY DEF DevInv
  <1>4. limCache' = [limCache EXCEPT ![t] = c] /\ limLast' = [limLast EXCEPT ![t] = a] /\ DOMAIN limDeviceReq' = Addr
    BY <1>2 DEF DevInv
  <1>5. s \in DevSession /\ s.created /\ s.expires = limDeviceNow + LimLifetime /\ ~s.revoked
    <2> DEFINE e == limDeviceNow + LimLifetime
    <2>1. Lim!NoSession \in DevSession /\ ~Lim!NoSession.revoked
      BY DEF Lim!NoSession, DevSession
    <2>4. s = [Lim!NoSession EXCEPT !.created = TRUE, !.expires = e]
      OBVIOUS
    <2>2. e \in Int
      BY <1>3, CredentialAssumption
    <2> HIDE DEF e, s
    <2>3. s \in DevSession /\ s.created /\ s.expires = e /\ ~s.revoked
      BY <2>1, <2>2, <2>4 DEF DevSession
    <2> QED BY <2>3 DEF e
  <1>6. t \notin limRaced => DevBounded(old, c, a)
    BY DEF DevInv
  <1> HIDE DEF s, old, c, a
  <1>7. t \notin limRaced' => DevBounded(s, c, a)
    BY <1>1, <1>2, <1>3, <1>5, <1>6, CredentialAssumption DEF DevBounded
  <1>8. s.expires <= limDeviceNow + LimLifetime /\ limRaced \subseteq limRaced' /\ limDeviceNow' = limDeviceNow
    BY <1>2, <1>3, <1>5, CredentialAssumption
  <1>9. \A r \in Addr : limDeviceReq'[r] = limDeviceReq[r]
    BY <1>2
  <1>10. limDeviceSessions[t].created => s.created
    BY <1>5
  <1>11. DevChange(t, s, c, a)
    BY <1>1, <1>3, <1>4, <1>5, <1>7, <1>8, <1>9, <1>10 DEF DevChange
  <1> QED BY <1>3, <1>5, <1>11, DevStep

LEMMA DevHitInv ==
    ASSUME DevInv, NEW r \in Addr, NEW t \in LimDeviceTokens, Lim!Hit(r, t)
    PROVE  DevInv'
  <1> DEFINE s == limDeviceSessions[t]
             c == limCache[t]
             a == limDeviceNow
  <1>1. UNCHANGED <<limDeviceNow, limDeviceSessions, limCache, limRaced>> /\ limLast' = [limLast EXCEPT ![t] = a]
        /\ limDeviceReq' = [limDeviceReq EXCEPT ![r] = Lim!Done] /\ c > a
    BY DEF Lim!Hit
  <1>2. s \in DevSession /\ a \in Nat /\ c \in Nat /\ c <= limDeviceNow + LimSessionCacheTTL
        /\ s.expires <= limDeviceNow + LimLifetime
    BY DEF DevInv
  <1>3. limDeviceSessions' = [limDeviceSessions EXCEPT ![t] = s] /\ limCache' = [limCache EXCEPT ![t] = c]
        /\ DOMAIN limDeviceReq' = Addr
    BY <1>1 DEF DevInv
  <1>4. t \notin limRaced => DevBounded(s, c, limLast[t])
    BY DEF DevInv
  <1>5. \A p \in Addr : limDeviceReq'[p] # limDeviceReq[p] => limDeviceReq'[p].pc \notin {"valid", "revoke"}
    BY <1>1 DEF DevInv, Lim!Done
  <1>10. limDeviceSessions[t].created => s.created
    OBVIOUS
  <1>11. a <= limDeviceNow
    BY <1>2
  <1> HIDE DEF s, c
  <1>6. t \notin limRaced => DevBounded(s, c, a)
    BY <1>1, <1>2, <1>4, CredentialAssumption DEF DevBounded, DevSession
  <1> HIDE DEF a
  <1>7. limDeviceNow' = limDeviceNow /\ limRaced' = limRaced /\ limRaced \subseteq limRaced'
    BY <1>1
  <1>8. a \in Int
    BY <1>2
  <1>9. t \notin limRaced' => DevBounded(s, c, a)
    BY <1>6, <1>7
  <1>12. DevChange(t, s, c, a)
    BY <1>1, <1>2, <1>3, <1>5, <1>7, <1>8, <1>9, <1>10, <1>11 DEF DevChange
  <1> QED BY <1>2, <1>8, <1>12, DevStep

\* The row is read: by a validation, or by a revocation.
LEMMA DevReadInv ==
    ASSUME DevInv, NEW r \in Addr, NEW t \in LimDeviceTokens, Lim!Lookup(r, t) \/ Lim!RevokeRead(r, t)
    PROVE  DevInv'
  <1>1. UNCHANGED <<limDeviceNow, limDeviceSessions, limCache, limLast, limRaced>>
    BY DEF Lim!Lookup, Lim!RevokeRead
  <1>2. PICK q : /\ limDeviceReq' = [limDeviceReq EXCEPT ![r] = q]
                 /\ q.pc \in {"valid", "revoke"} => q.token = t
                 /\ q.pc = "revoke" => limDeviceSessions[t].created
    <2>1. CASE Lim!Lookup(r, t)
      <3> DEFINE q == IF Lim!Live(t) THEN [pc |-> "valid", token |-> t] ELSE Lim!Done
      <3>1. limDeviceReq' = [limDeviceReq EXCEPT ![r] = q]
        BY <2>1 DEF Lim!Lookup
      <3>2. q.pc # "revoke" /\ (q.pc = "valid" => q.token = t)
        BY DEF Lim!Done
      <3> QED BY <3>1, <3>2
    <2>2. CASE Lim!RevokeRead(r, t)
      <3> DEFINE q == [pc |-> "revoke", token |-> t]
      <3>1. limDeviceReq' = [limDeviceReq EXCEPT ![r] = q] /\ limDeviceSessions[t].created
        BY <2>2 DEF Lim!RevokeRead
      <3> QED BY <3>1
    <2> QED BY <2>1, <2>2
  <1>3. DOMAIN limDeviceReq' = Addr /\ \A p \in Addr : limDeviceReq'[p] = IF p = r THEN q ELSE limDeviceReq[p]
    BY <1>2 DEF DevInv
  <1>4. \A p \in Addr :
            /\ limDeviceReq'[p].pc \in {"valid", "revoke"} => limDeviceReq'[p].token \in LimDeviceTokens
            /\ limDeviceReq'[p].pc = "revoke" => limDeviceSessions[limDeviceReq'[p].token].created
    BY <1>2, <1>3 DEF DevInv
  <1> QED BY <1>1, <1>3, <1>4 DEF DevInv

LEMMA DevAcceptInv ==
    ASSUME DevInv, NEW r \in Addr, NEW stored \in BOOLEAN, Lim!Accept(r, stored)
    PROVE  DevInv'
  <1> DEFINE t == limDeviceReq[r].token
             s == limDeviceSessions[t]
             c == IF stored THEN limDeviceNow + LimSessionCacheTTL ELSE limCache[t]
             a == limDeviceNow
  <1>1. limDeviceReq[r].pc = "valid" /\ t \in LimDeviceTokens
    BY DEF DevInv, Lim!Accept
  <1>2. /\ UNCHANGED <<limDeviceNow, limDeviceSessions>> /\ limLast' = [limLast EXCEPT ![t] = a]
        /\ limDeviceReq' = [limDeviceReq EXCEPT ![r] = Lim!Done]
        /\ limRaced' = IF Lim!Live(t) THEN limRaced ELSE limRaced \cup {t}
        /\ limCache' = IF stored THEN [limCache EXCEPT ![t] = limDeviceNow + LimSessionCacheTTL] ELSE limCache
    BY DEF Lim!Accept, Lim!Lapses
  <1>3. s \in DevSession /\ a \in Nat /\ limCache[t] \in Nat /\ limCache[t] <= limDeviceNow + LimSessionCacheTTL
        /\ s.expires <= limDeviceNow + LimLifetime
    BY <1>1 DEF DevInv
  <1>4. limDeviceSessions' = [limDeviceSessions EXCEPT ![t] = s] /\ limCache' = [limCache EXCEPT ![t] = c]
        /\ DOMAIN limDeviceReq' = Addr
    BY <1>1, <1>2 DEF DevInv
  <1>5. t \notin limRaced => DevBounded(s, limCache[t], limLast[t])
    BY <1>1 DEF DevInv
  <1>6. \A p \in Addr : limDeviceReq'[p] # limDeviceReq[p] => limDeviceReq'[p].pc \notin {"valid", "revoke"}
    BY <1>2 DEF DevInv, Lim!Done
  <1>7. t \notin limRaced' => t \notin limRaced /\ s.created /\ ~s.revoked /\ s.expires > a
    BY <1>2 DEF Lim!Live
  <1>8. limDeviceSessions[t].created => s.created
    OBVIOUS
  <1>9. a <= limDeviceNow /\ a \in Int /\ c \in Nat /\ c <= limDeviceNow + LimSessionCacheTTL
    BY <1>3, CredentialAssumption
  <1>10. t \notin limRaced' => DevBounded(s, c, a)
    <2> SUFFICES ASSUME t \notin limRaced' PROVE DevBounded(s, c, a)
      OBVIOUS
    <2>1. DevBounded(s, limCache[t], limLast[t]) /\ s.created /\ ~s.revoked /\ s.expires > a
      BY <1>5, <1>7
    <2>2. s.expires \in Int
      BY <1>3 DEF DevSession
    <2> HIDE DEF s, t
    <2> QED BY <1>3, <2>1, <2>2, CredentialAssumption DEF DevBounded
  <1>11. limRaced \subseteq limRaced' /\ limDeviceNow' = limDeviceNow
    BY <1>2
  <1> HIDE DEF s, t, c, a
  <1>12. DevChange(t, s, c, a)
    BY <1>1, <1>2, <1>3, <1>4, <1>6, <1>8, <1>9, <1>10, <1>11 DEF DevChange
  <1> QED BY <1>1, <1>3, <1>9, <1>12, DevStep

\* Now is not before anything that was accepted, and no key outlasts a lifetime.
LEMMA DevRevoked ==
    ASSUME DevInv, NEW t \in LimDeviceTokens, limDeviceSessions[t].created
    PROVE  /\ Lim!Revoked(limDeviceSessions[t]) \in DevSession /\ Lim!Revoked(limDeviceSessions[t]).created
           /\ Lim!Revoked(limDeviceSessions[t]).expires = limDeviceSessions[t].expires
           /\ t \notin limRaced => DevBounded(Lim!Revoked(limDeviceSessions[t]), limCache[t], limLast[t])
  <1> DEFINE old == limDeviceSessions[t]
             s == Lim!Revoked(old)
  <1>1. old \in DevSession /\ limDeviceNow \in Nat /\ limCache[t] \in Nat /\ limLast[t] \in Int
        /\ limCache[t] <= limDeviceNow + LimSessionCacheTTL /\ limLast[t] <= limDeviceNow /\ old.created
    BY DEF DevInv
  <1>2. t \notin limRaced => DevBounded(old, limCache[t], limLast[t])
    BY DEF DevInv
  <1> HIDE DEF old
  <1>3. s \in DevSession
    <2> DEFINE e == limDeviceNow
    <2>1. old \in DevSession /\ e \in Int
      BY <1>1
    <2>2. s = [old EXCEPT !.revoked = TRUE, !.revokedAt = e]
      BY DEF Lim!Revoked
    <2> HIDE DEF e, s
    <2> QED BY <2>1, <2>2 DEF DevSession
  <1>4. s.expires = old.expires /\ s.revokedAt = limDeviceNow
    BY <1>1 DEF DevSession, Lim!Revoked
  <1>5. s.created /\ s.revoked
    BY <1>1 DEF DevSession, Lim!Revoked
  <1> HIDE DEF s
  <1>6. t \notin limRaced => DevBounded(s, limCache[t], limLast[t])
    BY <1>1, <1>2, <1>3, <1>4, <1>5, CredentialAssumption DEF DevBounded, DevSession
  <1> QED BY <1>3, <1>4, <1>5, <1>6 DEF s, old

LEMMA DevRevokeInv == ASSUME DevInv, NEW r \in Addr, Lim!RevokeSession(r) PROVE DevInv'
  <1> DEFINE t == limDeviceReq[r].token
             s == Lim!Revoked(limDeviceSessions[t])
             c == limCache[t]
             a == limLast[t]
  <1>1. t \in LimDeviceTokens /\ limDeviceSessions[t].created
    BY DEF DevInv, Lim!RevokeSession
  <1>2. /\ limDeviceSessions' = [limDeviceSessions EXCEPT ![t] = s]
        /\ limDeviceReq' = [limDeviceReq EXCEPT ![r] = Lim!Done]
        /\ UNCHANGED <<limDeviceNow, limCache, limLast, limRaced>>
    BY <1>1 DEF DevInv, Lim!RevokeSession
  <1>3. /\ s \in DevSession /\ s.created /\ s.expires = limDeviceSessions[t].expires
        /\ t \notin limRaced => DevBounded(s, c, a)
    BY <1>1, DevRevoked
  <1>4. /\ c \in Nat /\ a \in Int /\ c <= limDeviceNow + LimSessionCacheTTL /\ a <= limDeviceNow
        /\ limDeviceSessions[t].expires <= limDeviceNow + LimLifetime
        /\ limCache' = [limCache EXCEPT ![t] = c] /\ limLast' = [limLast EXCEPT ![t] = a]
        /\ DOMAIN limDeviceReq' = Addr
    BY <1>1, <1>2 DEF DevInv
  <1>5. \A p \in Addr : limDeviceReq'[p] # limDeviceReq[p] => limDeviceReq'[p].pc \notin {"valid", "revoke"}
    BY <1>2 DEF DevInv, Lim!Done
  <1> HIDE DEF s, c, a, t
  <1>6. limRaced \subseteq limRaced' /\ limDeviceNow' = limDeviceNow /\ s.expires <= limDeviceNow + LimLifetime
        /\ (t \notin limRaced' => DevBounded(s, c, a)) /\ (limDeviceSessions[t].created => s.created)
    BY <1>2, <1>3, <1>4
  <1>7. DevChange(t, s, c, a)
    BY <1>1, <1>2, <1>3, <1>4, <1>5, <1>6 DEF DevChange
  <1> QED BY <1>1, <1>3, <1>4, <1>7, DevStep

LEMMA DevRevokeAllInv == ASSUME DevInv, NEW r \in Addr, Lim!RevokeAllSessions(r) PROVE DevInv'
  <1> DEFINE S(t) == Lim!Revoked(limDeviceSessions[t])
  <1>1. /\ limDeviceSessions' = [t \in LimDeviceTokens |->
              IF limDeviceSessions[t].created /\ ~limDeviceSessions[t].revoked THEN S(t) ELSE limDeviceSessions[t]]
        /\ limDeviceReq' = [limDeviceReq EXCEPT ![r] = Lim!Done]
        /\ UNCHANGED <<limDeviceNow, limCache, limLast, limRaced>>
    BY DEF Lim!RevokeAllSessions
  <1>2. \A t \in LimDeviceTokens : limDeviceSessions[t].created =>
            /\ S(t) \in DevSession /\ S(t).created /\ S(t).expires = limDeviceSessions[t].expires
            /\ t \notin limRaced => DevBounded(S(t), limCache[t], limLast[t])
    BY DevRevoked
  <1> HIDE DEF S
  <1>3. \A t \in LimDeviceTokens :
            /\ limDeviceSessions'[t] \in DevSession
            /\ limDeviceSessions[t].created => limDeviceSessions'[t].created
            /\ limDeviceSessions'[t].expires <= limDeviceNow + LimLifetime
            /\ t \notin limRaced => DevBounded(limDeviceSessions'[t], limCache[t], limLast[t])
    <2> SUFFICES ASSUME NEW t \in LimDeviceTokens
                 PROVE  /\ limDeviceSessions'[t] \in DevSession
                        /\ limDeviceSessions[t].created => limDeviceSessions'[t].created
                        /\ limDeviceSessions'[t].expires <= limDeviceNow + LimLifetime
                        /\ t \notin limRaced => DevBounded(limDeviceSessions'[t], limCache[t], limLast[t])
      OBVIOUS
    <2>1. /\ limDeviceSessions[t] \in DevSession /\ limDeviceSessions[t].expires <= limDeviceNow + LimLifetime
          /\ t \notin limRaced => DevBounded(limDeviceSessions[t], limCache[t], limLast[t])
      BY DEF DevInv
    <2>2. limDeviceSessions'[t] = limDeviceSessions[t]
          \/ (limDeviceSessions[t].created /\ limDeviceSessions'[t] = S(t))
      BY <1>1
    <2>3. CASE limDeviceSessions'[t] = limDeviceSessions[t]
      BY <2>1, <2>3
    <2>4. CASE limDeviceSessions[t].created /\ limDeviceSessions'[t] = S(t)
      BY <1>2, <2>1, <2>4
    <2> QED BY <2>2, <2>3, <2>4
  <1>4. limDeviceSessions' \in [LimDeviceTokens -> DevSession]
    BY <1>1, <1>3
  <1>5. DOMAIN limDeviceReq' = Addr /\ \A p \in Addr : limDeviceReq'[p] = IF p = r THEN Lim!Done ELSE limDeviceReq[p]
    BY <1>1 DEF DevInv
  <1>6. \A p \in Addr :
            /\ limDeviceReq'[p].pc \in {"valid", "revoke"} => limDeviceReq'[p].token \in LimDeviceTokens
            /\ limDeviceReq'[p].pc = "revoke" => limDeviceSessions'[limDeviceReq'[p].token].created
    BY <1>3, <1>5 DEF DevInv, Lim!Done
  <1> QED BY <1>1, <1>3, <1>4, <1>5, <1>6 DEF DevInv

LEMMA DevTickInv == ASSUME DevInv, Lim!DeviceTick PROVE DevInv'
  <1>1. limDeviceNow' = limDeviceNow + 1 /\ UNCHANGED <<limDeviceSessions, limCache, limDeviceReq, limLast, limRaced>>
    BY DEF Lim!DeviceTick
  <1>2. \A t \in LimDeviceTokens : limCache[t] \in Nat /\ limLast[t] \in Int /\ limDeviceSessions[t].expires \in Int
    BY DEF DevInv, DevSession
  <1> QED BY <1>1, <1>2, CredentialAssumption DEF DevInv

LEMMA DevInvNext == DevInv /\ [Lim!DeviceNext]_(Lim!deviceVars) => DevInv'
  <1> SUFFICES ASSUME DevInv, [Lim!DeviceNext]_(Lim!deviceVars) PROVE DevInv'
    OBVIOUS
  <1>1. CASE UNCHANGED Lim!deviceVars
    BY <1>1 DEF Lim!deviceVars, DevInv
  <1>2. CASE Lim!DeviceNext
    BY <1>2, DevCreateInv, DevHitInv, DevReadInv, DevAcceptInv, DevRevokeInv, DevRevokeAllInv, DevTickInv
       DEF Lim!DeviceNext
  <1> QED BY <1>1, <1>2

(***************************************************************************)
(* One account.  A request that saves a whole row has read one whose       *)
(* tokens have been handed out.  As long as no old row was put back, the   *)
(* row, and the copy of every request that nobody has overtaken, has the   *)
(* password set last and only tokens not spent yet, and the mail's token   *)
(* is not that of the reset; so what a save accepts was not accepted       *)
(* before.                                                                 *)
(***************************************************************************)
AuthRow == [pw : AuthPasswords, verified : BOOLEAN, emailToken : Nat, emailUntil : Int, resetToken : Nat,
            resetUntil : Int, totp : {"off", "setup", "on"}, backup : SUBSET {1}, failed : Nat, locked : Int]

AuthSaving == {"verify_email", "forgot", "reset", "setup", "enable", "disable", "backup", "login", "recovered"}
AuthHolding == AuthSaving \cup {"right", "match"}

AuthIssued(row, n) == row \in AuthRow /\ row.emailToken <= n /\ row.resetToken <= n

AuthAsks(q, n) ==
    /\ q.pc \in AuthHolding => AuthIssued(q.row, n)
    /\ q.pc = "reset" => q.pw \in AuthPasswords
    /\ q.pc = "count" => q.failed \in Nat
    /\ q.pc = "right" => q \in [pc : {"right"}, row : AuthRow]
    /\ q.pc = "match" => q \in [pc : {"match"}, row : AuthRow, code : AuthCodes]

AuthFine(row, pw, sp) ==
    /\ row.pw = pw
    /\ \A t \in {row.emailToken, row.resetToken} \ {0} : sp[t] = 0
    /\ row.emailToken # 0 => row.emailToken # row.resetToken

AuthIds == (1..AuthMaxTokens) \cup AuthCodes

AuthTyped ==
    /\ authNow \in Nat /\ authTokens \in 0..AuthMaxTokens
    /\ authSpent \in [AuthIds -> Nat] /\ authCodes \subseteq AuthCodes
    /\ authTouched \in [Addr -> BOOLEAN] /\ DOMAIN authReq = Addr
    /\ authUser # None => AuthIssued(authUser, authTokens)
    /\ \A r \in Addr : AuthAsks(authReq[r], authTokens)
    /\ \A t \in 1..AuthMaxTokens : t > authTokens => authSpent[t] = 0

\* What r holds is fine unless another request has written the row since.
AuthKeeps(q, touched, pw, sp) == q.pc \in AuthHolding /\ ~touched => AuthFine(q.row, pw, sp)

AuthKept ==
    /\ authUser # None => AuthFine(authUser, authPassword, authSpent)
    /\ \A r \in Addr : AuthKeeps(authReq[r], authTouched[r], authPassword, authSpent)
    /\ \A t \in AuthIds : authSpent[t] <= 1
    /\ \A c \in authCodes : authSpent[c] = 0

AuthInv == AuthTyped /\ (~authStale => AuthKept)

\* One column replaced: the others stay.
AuthSame(n, row) == n \in AuthRow /\ n.pw = row.pw /\ n.emailToken = row.emailToken /\ n.resetToken = row.resetToken

LEMMA AuthColumns ==
    ASSUME NEW row \in AuthRow
    PROVE  /\ \A x \in BOOLEAN : AuthSame([row EXCEPT !.verified = x], row)
           /\ \A x \in Int : AuthSame([row EXCEPT !.emailUntil = x], row)
           /\ \A x \in Int : AuthSame([row EXCEPT !.resetUntil = x], row)
           /\ \A x \in {"off", "setup", "on"} : AuthSame([row EXCEPT !.totp = x], row)
           /\ \A x \in SUBSET {1} : AuthSame([row EXCEPT !.backup = x], row)
           /\ \A x \in Nat : AuthSame([row EXCEPT !.failed = x], row)
           /\ \A x \in Int : AuthSame([row EXCEPT !.locked = x], row)
           /\ \A x \in AuthPasswords :
                LET n == [row EXCEPT !.pw = x]
                IN  n \in AuthRow /\ n.pw = x /\ n.emailToken = row.emailToken /\ n.resetToken = row.resetToken
           /\ \A x \in Nat :
                LET n == [row EXCEPT !.emailToken = x]
                IN  n \in AuthRow /\ n.pw = row.pw /\ n.emailToken = x /\ n.resetToken = row.resetToken
           /\ \A x \in Nat :
                LET n == [row EXCEPT !.resetToken = x]
                IN  n \in AuthRow /\ n.pw = row.pw /\ n.emailToken = row.emailToken /\ n.resetToken = x
  <1>1. \A x \in BOOLEAN : AuthSame([row EXCEPT !.verified = x], row)
    BY DEF AuthSame, AuthRow
  <1>2. \A x \in Int : AuthSame([row EXCEPT !.emailUntil = x], row)
    BY DEF AuthSame, AuthRow
  <1>3. \A x \in Int : AuthSame([row EXCEPT !.resetUntil = x], row)
    BY DEF AuthSame, AuthRow
  <1>4. \A x \in {"off", "setup", "on"} : AuthSame([row EXCEPT !.totp = x], row)
    BY DEF AuthSame, AuthRow
  <1>5. \A x \in SUBSET {1} : AuthSame([row EXCEPT !.backup = x], row)
    BY DEF AuthSame, AuthRow
  <1>6. \A x \in Nat : AuthSame([row EXCEPT !.failed = x], row)
    BY DEF AuthSame, AuthRow
  <1>7. \A x \in Int : AuthSame([row EXCEPT !.locked = x], row)
    BY DEF AuthSame, AuthRow
  <1>8. \A x \in AuthPasswords :
            LET n == [row EXCEPT !.pw = x]
            IN  n \in AuthRow /\ n.pw = x /\ n.emailToken = row.emailToken /\ n.resetToken = row.resetToken
    BY DEF AuthRow
  <1>9. \A x \in Nat :
            LET n == [row EXCEPT !.emailToken = x]
            IN  n \in AuthRow /\ n.pw = row.pw /\ n.emailToken = x /\ n.resetToken = row.resetToken
    BY DEF AuthRow
  <1>10. \A x \in Nat :
            LET n == [row EXCEPT !.resetToken = x]
            IN  n \in AuthRow /\ n.pw = row.pw /\ n.emailToken = row.emailToken /\ n.resetToken = x
    BY DEF AuthRow
  <1> QED BY <1>1, <1>2, <1>3, <1>4, <1>5, <1>6, <1>7, <1>8, <1>9, <1>10

LEMMA AuthInvInit == Auth!Init => AuthInv
  <1> SUFFICES ASSUME Auth!Init PROVE AuthInv
    OBVIOUS
  <1> USE CredentialAssumption
  <1>1. /\ authTokens = 0 /\ authNow = 0 /\ authCodes = {} /\ authStale = FALSE
        /\ authTouched = [r \in Addr |-> FALSE]
        /\ authSpent = [t \in AuthIds |-> 0] /\ authReq = [r \in Addr |-> Auth!New]
    BY DEF Auth!Init, AuthIds
  <1>2. authUser # None => AuthIssued(authUser, 0) /\ AuthFine(authUser, authPassword, authSpent)
    <2> SUFFICES ASSUME authUser # None PROVE AuthIssued(authUser, 0) /\ AuthFine(authUser, authPassword, authSpent)
      OBVIOUS
    <2>1. PICK pw \in AuthPasswords, totp \in {"off", "on"} : authUser = Auth!Account(pw, totp) /\ authPassword = pw
      BY DEF Auth!Init
    <2>2. Auth!NewUser(pw, 0) \in AuthRow
      BY <1>1 DEF Auth!NewUser, AuthRow
    <2>3. Auth!NewUser(pw, 0).pw = pw /\ Auth!NewUser(pw, 0).emailToken = 0 /\ Auth!NewUser(pw, 0).resetToken = 0
      BY DEF Auth!NewUser
    <2>4. authUser \in AuthRow /\ authUser.pw = pw /\ authUser.emailToken = 0 /\ authUser.resetToken = 0
      <3> DEFINE b == IF totp = "on" THEN {1} ELSE {}
      <3>1. b \in SUBSET {1}
        OBVIOUS
      <3>2. authUser = [Auth!NewUser(pw, 0) EXCEPT !.verified = TRUE, !.emailUntil = 0, !.totp = totp, !.backup = b]
        BY <2>1 DEF Auth!Account
      <3> DEFINE n == Auth!NewUser(pw, 0)
                 n1 == [n EXCEPT !.verified = TRUE]
                 n2 == [n1 EXCEPT !.emailUntil = 0]
                 n3 == [n2 EXCEPT !.totp = totp]
      <3>3. AuthSame(n1, n)
        BY <2>2, AuthColumns
      <3>4. AuthSame(n2, n1)
        <4>1. n1 \in AuthRow
          BY <3>3 DEF AuthSame
        <4> HIDE DEF n1
        <4>2. \A x \in Int : AuthSame([n1 EXCEPT !.emailUntil = x], n1)
          BY <4>1, AuthColumns
        <4> QED BY <4>2
      <3>5. AuthSame(n3, n2)
        <4>1. n2 \in AuthRow
          BY <3>4 DEF AuthSame
        <4> HIDE DEF n2
        <4> QED BY <4>1, AuthColumns
      <3>6. AuthSame(authUser, n3)
        <4>1. authUser = [n3 EXCEPT !.backup = b]
          BY <3>2
        <4>2. n3 \in AuthRow
          BY <3>5 DEF AuthSame
        <4> HIDE DEF n3, b
        <4> QED BY <3>1, <4>1, <4>2, AuthColumns
      <3> HIDE DEF n, n1, n2, n3
      <3> QED BY <2>3, <3>3, <3>4, <3>5, <3>6 DEF AuthSame, n
    <2> QED BY <2>1, <2>4 DEF AuthIssued, AuthFine
  <1>3. \A r \in Addr : authReq[r].pc \notin AuthHolding \cup {"count"}
    BY <1>1 DEF AuthHolding, AuthSaving, Auth!New
  <1>4. \A r \in Addr : AuthAsks(authReq[r], authTokens)
    BY <1>3 DEF AuthAsks, AuthHolding, AuthSaving
  <1>5. AuthTyped
    BY <1>1, <1>2, <1>4 DEF AuthTyped, AuthIds
  <1>6. AuthKept
    BY <1>1, <1>2, <1>3 DEF AuthKept, AuthKeeps
  <1> QED BY <1>5, <1>6 DEF AuthInv

\* A step that leaves the row alone: r's copy, if it takes one, is the row.
AuthReading(r, q) ==
    /\ authReq' = [authReq EXCEPT ![r] = q] /\ AuthAsks(q, authTokens)
    /\ q.pc \in AuthHolding => authUser # None /\ q.row = authUser
    /\ \A p \in Addr \ {r} : authTouched'[p] = authTouched[p]
    /\ authTouched' \in [Addr -> BOOLEAN]
    /\ authUser' = authUser /\ authTokens' = authTokens /\ authNow' = authNow /\ authStale' = authStale
    /\ authPassword' = authPassword /\ authSpent' = authSpent /\ authCodes' \subseteq AuthCodes
    /\ \A c \in authCodes' : c \in authCodes \/ authSpent[c] = 0

LEMMA AuthReads ==
    ASSUME AuthInv, NEW r \in Addr, NEW q, AuthReading(r, q)
    PROVE  AuthInv'
  <1> USE DEF AuthReading
  <1>1. AuthTyped
    BY DEF AuthInv
  <1>2. DOMAIN authReq' = Addr /\ \A p \in Addr : authReq'[p] = IF p = r THEN q ELSE authReq[p]
    BY <1>1 DEF AuthTyped
  <1>3. \A p \in Addr : AuthAsks(authReq'[p], authTokens')
    BY <1>1, <1>2 DEF AuthTyped
  <1>4. AuthTyped'
    BY <1>1, <1>2, <1>3 DEF AuthTyped
  <1>5. ~authStale' => AuthKept'
    <2> SUFFICES ASSUME ~authStale' PROVE AuthKept'
      OBVIOUS
    <2>1. AuthKept
      BY DEF AuthInv
    <2>2. \A p \in Addr : AuthKeeps(authReq'[p], authTouched'[p], authPassword, authSpent)
      <3> SUFFICES ASSUME NEW p \in Addr PROVE AuthKeeps(authReq'[p], authTouched'[p], authPassword, authSpent)
        OBVIOUS
      <3>1. CASE p = r
        BY <1>2, <2>1, <3>1 DEF AuthKept, AuthKeeps
      <3>2. CASE p # r
        BY <1>2, <2>1, <3>2 DEF AuthKept
      <3> QED BY <3>1, <3>2
    <2> QED BY <2>1, <2>2 DEF AuthKept
  <1> QED BY <1>4, <1>5 DEF AuthInv

\* A step that writes the row: the copies of all others are old from then on.
AuthWriting(r, q, row) ==
    /\ authReq' = [authReq EXCEPT ![r] = q] /\ AuthAsks(q, authTokens')
    /\ Auth!Write(r, row) /\ (row # None => AuthIssued(row, authTokens'))
    /\ authTokens' \in 0..AuthMaxTokens /\ authTokens <= authTokens' /\ authNow' = authNow
    /\ authSpent' \in [AuthIds -> Nat] /\ authCodes' \subseteq authCodes
    /\ \A t \in 1..AuthMaxTokens : t > authTokens' => authSpent'[t] = 0
    /\ AuthKept /\ ~authTouched[r] =>
        /\ row # None => AuthFine(row, authPassword', authSpent')
        /\ q.pc \in AuthHolding => AuthFine(q.row, authPassword', authSpent')
        /\ \A t \in AuthIds : authSpent'[t] <= 1
        /\ \A c \in authCodes : authSpent'[c] = 0

LEMMA AuthWrites ==
    ASSUME AuthInv, NEW r \in Addr, NEW q, NEW row, AuthWriting(r, q, row)
    PROVE  AuthInv'
  <1> USE DEF AuthWriting
  <1>1. AuthTyped /\ authTokens \in Nat /\ authTokens' \in Nat
    BY CredentialAssumption DEF AuthInv, AuthTyped
  <1>2. DOMAIN authReq' = Addr /\ \A p \in Addr : authReq'[p] = IF p = r THEN q ELSE authReq[p]
    BY <1>1 DEF AuthTyped
  <1>3. authUser' = row /\ authTouched' = [p \in Addr |-> p # r] /\ (authStale' <=> authStale \/ authTouched[r])
    BY DEF Auth!Write
  <1>4. \A p \in Addr : AuthAsks(authReq'[p], authTokens')
    <2> SUFFICES ASSUME NEW p \in Addr, p # r PROVE AuthAsks(authReq[p], authTokens')
      BY <1>2
    <2>1. AuthAsks(authReq[p], authTokens)
      BY <1>1 DEF AuthTyped
    <2>2. ASSUME NEW w, AuthIssued(w, authTokens) PROVE AuthIssued(w, authTokens')
      BY <1>1, <2>2 DEF AuthIssued, AuthRow
    <2> QED BY <2>1, <2>2 DEF AuthAsks
  <1>5. authTouched' \in [Addr -> BOOLEAN] /\ \A p \in Addr : authTouched'[p] <=> p # r
    BY <1>3
  <1>6. authCodes' \subseteq AuthCodes
    BY <1>1 DEF AuthTyped
  <1>7. AuthTyped'
    BY <1>1, <1>2, <1>3, <1>4, <1>5, <1>6 DEF AuthTyped
  <1>8. ~authStale' => AuthKept'
    <2> SUFFICES ASSUME ~authStale' PROVE AuthKept'
      OBVIOUS
    <2>1. AuthKept /\ ~authTouched[r]
      BY <1>3 DEF AuthInv
    <2>2. \A p \in Addr : AuthKeeps(authReq'[p], authTouched'[p], authPassword', authSpent')
      BY <1>2, <1>5, <2>1 DEF AuthKeeps
    <2> QED BY <1>3, <2>1, <2>2 DEF AuthKept
  <1> QED BY <1>7, <1>8 DEF AuthInv

\* The endpoints that take a copy of the row, or none.
LEMMA AuthPlainInv ==
    ASSUME AuthInv, NEW r \in Addr, NEW q, authReq' = [authReq EXCEPT ![r] = q],
           q.pc \notin AuthHolding, q.pc = "count" => q.failed \in Nat,
           authTouched' = authTouched \/ authTouched' = [authTouched EXCEPT ![r] = FALSE],
           UNCHANGED <<authUser, authTokens, authNow, authStale, authPassword, authSpent>>,
           authCodes' = authCodes \/ authCodes' = {}
           \/ (authCodes' = AuthCodes /\ \A c \in AuthCodes : authSpent[c] = 0)
    PROVE  AuthInv'
  <1>1. AuthTyped
    BY DEF AuthInv
  <1>2. AuthAsks(q, authTokens)
    BY DEF AuthAsks, AuthHolding, AuthSaving
  <1>3. authTouched' \in [Addr -> BOOLEAN] /\ \A p \in Addr \ {r} : authTouched'[p] = authTouched[p]
    BY <1>1 DEF AuthTyped
  <1>4. authCodes' \subseteq AuthCodes /\ \A c \in authCodes' : c \in authCodes \/ authSpent[c] = 0
    BY <1>1 DEF AuthTyped
  <1>5. AuthReading(r, q)
    BY <1>2, <1>3, <1>4 DEF AuthReading
  <1> QED BY <1>5, AuthReads

LEMMA AuthCopyInv ==
    ASSUME AuthInv, NEW r \in Addr, NEW q, authReq' = [authReq EXCEPT ![r] = q],
           authUser # None, q.row = authUser, AuthAsks(q, authTokens),
           authTouched' = [authTouched EXCEPT ![r] = FALSE],
           UNCHANGED <<authUser, authTokens, authNow, authStale, authPassword, authSpent, authCodes>>
    PROVE  AuthInv'
  <1>1. AuthTyped
    BY DEF AuthInv
  <1>3. authTouched' \in [Addr -> BOOLEAN] /\ \A p \in Addr \ {r} : authTouched'[p] = authTouched[p]
    BY <1>1 DEF AuthTyped
  <1>4. authCodes' \subseteq AuthCodes /\ \A c \in authCodes' : c \in authCodes \/ authSpent[c] = 0
    BY <1>1 DEF AuthTyped
  <1>5. AuthReading(r, q)
    BY <1>3, <1>4 DEF AuthReading
  <1> QED BY <1>5, AuthReads

\* Read, of the endpoints that save the row later.
LEMMA AuthReadInv ==
    ASSUME AuthInv, NEW r \in Addr, NEW op \in (AuthSaving \ {"reset"}) \cup {"right"}, Auth!Read(r, op),
           UNCHANGED <<authUser, authTokens, authNow, authStale, authPassword, authSpent, authCodes>>
    PROVE  AuthInv'
  <1> DEFINE q == [pc |-> op, row |-> authUser]
  <1>1. authUser # None /\ authReq' = [authReq EXCEPT ![r] = q] /\ authTouched' = [authTouched EXCEPT ![r] = FALSE]
    BY DEF Auth!Read, Auth!Goto
  <1>2. AuthIssued(authUser, authTokens)
    BY <1>1 DEF AuthInv, AuthTyped
  <1>3. q.row = authUser /\ q.pc = op
    OBVIOUS
  <1>4. AuthAsks(q, authTokens)
    BY <1>2 DEF AuthAsks, AuthIssued, AuthSaving
  <1> HIDE DEF q
  <1> QED BY <1>1, <1>3, <1>4, AuthCopyInv

LEMMA AuthReadersInv ==
    ASSUME AuthInv, NEW r \in Addr,
           \/ Auth!VerifyEmail(r) \/ Auth!ForgotPassword(r) \/ Auth!Setup2FA(r) \/ Auth!Verify2FA(r)
           \/ \E pw \in AuthPasswords : Auth!Disable2FA(r, pw)
    PROVE  AuthInv'
  <1>1. UNCHANGED <<authUser, authTokens, authNow, authStale, authPassword, authSpent, authCodes>>
    BY DEF Auth!VerifyEmail, Auth!ForgotPassword, Auth!Setup2FA, Auth!Verify2FA, Auth!Disable2FA
  <1>2. \E op \in {"verify_email", "forgot", "setup", "enable", "disable"} : Auth!Read(r, op)
    BY DEF Auth!VerifyEmail, Auth!ForgotPassword, Auth!Setup2FA, Auth!Verify2FA, Auth!Disable2FA
  <1>3. {"verify_email", "forgot", "setup", "enable", "disable"} \subseteq (AuthSaving \ {"reset"}) \cup {"right"}
    BY DEF AuthSaving
  <1> QED BY <1>1, <1>2, <1>3, AuthReadInv

\* A wrong password only counts; the right one goes on with the row.
LEMMA AuthLoginInv ==
    ASSUME AuthInv, NEW r \in Addr, NEW pw \in AuthPasswords, Auth!Login(r, pw)
    PROVE  AuthInv'
  <1>1. UNCHANGED <<authUser, authTokens, authNow, authStale, authPassword, authSpent, authCodes>>
    BY DEF Auth!Login
  <1>2. CASE pw = authUser.pw
    <2>1. Auth!Read(r, "right")
      BY <1>2 DEF Auth!Login
    <2> QED BY <1>1, <2>1, AuthReadInv
  <1>3. CASE pw # authUser.pw
    <2> DEFINE q == [pc |-> "wrong", row |-> authUser]
    <2>1. authReq' = [authReq EXCEPT ![r] = q] /\ authTouched' = [authTouched EXCEPT ![r] = FALSE]
      BY <1>3 DEF Auth!Login, Auth!Read, Auth!Goto
    <2>2. q.pc \notin AuthHolding /\ q.pc # "count"
      BY DEF AuthHolding, AuthSaving
    <2> HIDE DEF q
    <2> QED BY <1>1, <2>1, <2>2, AuthPlainInv
  <1> QED BY <1>2, <1>3

LEMMA AuthResetInv ==
    ASSUME AuthInv, NEW r \in Addr, NEW pw \in AuthPasswords, Auth!ResetPassword(r, pw)
    PROVE  AuthInv'
  <1> DEFINE q == [pc |-> "reset", row |-> authUser, pw |-> pw]
  <1>1. authUser # None /\ authReq' = [authReq EXCEPT ![r] = q] /\ authTouched' = [authTouched EXCEPT ![r] = FALSE]
        /\ UNCHANGED <<authUser, authTokens, authNow, authStale, authPassword, authSpent, authCodes>>
    BY DEF Auth!ResetPassword, Auth!Goto
  <1>2. AuthIssued(authUser, authTokens)
    BY <1>1 DEF AuthInv, AuthTyped
  <1>4. q.row = authUser /\ AuthAsks(q, authTokens)
    BY <1>2 DEF AuthAsks
  <1> HIDE DEF q
  <1> QED BY <1>1, <1>4, AuthCopyInv

LEMMA AuthBackupInv ==
    ASSUME AuthInv, NEW r \in Addr, NEW used \in {{}, {1}}, Auth!LoginWith2FA(r, used)
    PROVE  AuthInv'
  <1> DEFINE q == [pc |-> "backup", row |-> authUser, used |-> used]
  <1>1. authUser # None /\ authReq' = [authReq EXCEPT ![r] = q] /\ authTouched' = [authTouched EXCEPT ![r] = FALSE]
        /\ UNCHANGED <<authUser, authTokens, authNow, authStale, authPassword, authSpent, authCodes>>
    BY DEF Auth!LoginWith2FA, Auth!Goto
  <1>2. AuthIssued(authUser, authTokens)
    BY <1>1 DEF AuthInv, AuthTyped
  <1>4. q.row = authUser /\ AuthAsks(q, authTokens)
    BY <1>2 DEF AuthAsks
  <1> HIDE DEF q
  <1> QED BY <1>1, <1>4, AuthCopyInv

LEMMA AuthMatchInv ==
    ASSUME AuthInv, NEW r \in Addr, NEW c \in AuthCodes, Auth!LoginWithRecoveryCode(r, c)
    PROVE  AuthInv'
  <1> DEFINE q == [pc |-> "match", row |-> authUser, code |-> c]
  <1>1. authUser # None /\ authReq' = [authReq EXCEPT ![r] = q] /\ authTouched' = [authTouched EXCEPT ![r] = FALSE]
        /\ UNCHANGED <<authUser, authTokens, authNow, authStale, authPassword, authSpent, authCodes>>
    BY DEF Auth!LoginWithRecoveryCode, Auth!Goto
  <1>2. AuthIssued(authUser, authTokens)
    BY <1>1 DEF AuthInv, AuthTyped
  <1>4. q.row = authUser /\ AuthAsks(q, authTokens)
    BY <1>2 DEF AuthAsks, AuthIssued
  <1> HIDE DEF q
  <1> QED BY <1>1, <1>4, AuthCopyInv

\* The steps that touch neither the row nor a copy of it.
LEMMA AuthOthersInv ==
    ASSUME AuthInv, NEW r \in Addr,
           \/ Auth!CountRead(r) \/ Auth!CreateSession(r) \/ Auth!PurgeSessions(r) \/ Auth!Logout(r)
           \/ \E pw \in AuthPasswords : Auth!GenerateRecoveryCodes(r, pw)
    PROVE  AuthInv'
  <1>1. CASE Auth!CountRead(r)
    <2> DEFINE q == [pc |-> "count", failed |-> authUser.failed]
    <2>1. /\ authReq' = [authReq EXCEPT ![r] = q] /\ authTouched' = [authTouched EXCEPT ![r] = FALSE]
          /\ UNCHANGED <<authUser, authTokens, authNow, authStale, authPassword, authSpent, authCodes>>
          /\ authUser # None
      BY <1>1 DEF Auth!CountRead, Auth!Goto
    <2>2. authUser.failed \in Nat
      BY <2>1 DEF AuthInv, AuthTyped, AuthIssued, AuthRow
    <2>3. q.pc \notin AuthHolding /\ q.failed \in Nat
      BY <2>2 DEF AuthHolding, AuthSaving
    <2> HIDE DEF q
    <2> QED BY <2>1, <2>3, AuthPlainInv
  <1>2. CASE ~Auth!CountRead(r)
    <2> DEFINE q == Auth!Done
    <2>1. /\ authReq' = [authReq EXCEPT ![r] = q] /\ authTouched' = authTouched
          /\ UNCHANGED <<authUser, authTokens, authNow, authStale, authPassword, authSpent>>
      BY <1>2 DEF Auth!CreateSession, Auth!PurgeSessions, Auth!Logout, Auth!GenerateRecoveryCodes, Auth!Goto, Auth!aux
    <2>2. authCodes' = authCodes \/ (authCodes' = AuthCodes /\ \A c \in AuthCodes : authSpent[c] = 0)
      BY <1>2 DEF Auth!CreateSession, Auth!PurgeSessions, Auth!Logout, Auth!GenerateRecoveryCodes
    <2>3. q.pc \notin AuthHolding /\ q.pc # "count"
      BY DEF AuthHolding, AuthSaving, Auth!Done
    <2> HIDE DEF q
    <2> QED BY <2>1, <2>2, <2>3, AuthPlainInv
  <1> QED BY <1>1, <1>2

LEMMA AuthRegisterInv ==
    ASSUME AuthInv, NEW r \in Addr, NEW pw \in AuthPasswords, Auth!Register(r, pw)
    PROVE  AuthInv'
  <1> DEFINE q == Auth!Done
             row == Auth!NewUser(pw, authTokens + 1)
  <1>1. authReq' = [authReq EXCEPT ![r] = q] /\ authCodes' = authCodes /\ authNow' = authNow /\ authSpent' = authSpent
    BY DEF Auth!Register, Auth!Goto
  <1>2. q.pc \notin AuthHolding /\ q.pc # "count"
    BY DEF AuthHolding, AuthSaving, Auth!Done
  <1>3. CASE authUser = None
    <2>1. /\ authTokens < AuthMaxTokens /\ authTokens' = authTokens + 1
          /\ Auth!Write(r, row) /\ authPassword' = pw
      BY <1>3 DEF Auth!Register
    <2>2. AuthTyped
      BY DEF AuthInv
    <2>3. authTokens \in Nat /\ authTokens' \in 0..AuthMaxTokens /\ authTokens <= authTokens' /\ authNow \in Nat
      BY <2>1, <2>2, CredentialAssumption DEF AuthTyped
    <2>4. row \in AuthRow
      BY <2>3, CredentialAssumption DEF AuthRow, Auth!NewUser
    <2>5. row.pw = pw /\ row.emailToken = authTokens' /\ row.resetToken = 0
      BY <2>1 DEF Auth!NewUser
    <2>6. AuthIssued(row, authTokens')
      BY <2>3, <2>4, <2>5 DEF AuthIssued
    <2>7. authSpent'[authTokens'] = 0
      BY <1>1, <2>1, <2>2, <2>3 DEF AuthTyped
    <2>8. AuthFine(row, authPassword', authSpent')
      BY <2>1, <2>5, <2>7 DEF AuthFine
    <2>9. AuthAsks(q, authTokens')
      BY <1>2 DEF AuthAsks, AuthHolding, AuthSaving
    <2>10. AuthKept => (\A t \in AuthIds : authSpent'[t] <= 1) /\ \A c \in authCodes : authSpent'[c] = 0
      BY <1>1 DEF AuthKept
    <2>11. authSpent' \in [AuthIds -> Nat] /\ \A t \in 1..AuthMaxTokens : t > authTokens' => authSpent'[t] = 0
      BY <1>1, <2>1, <2>2, <2>3 DEF AuthTyped
    <2> HIDE DEF q, row
    <2>12. AuthWriting(r, q, row)
      BY <1>1, <1>2, <2>1, <2>3, <2>6, <2>8, <2>9, <2>10, <2>11 DEF AuthWriting
    <2> QED BY <2>12, AuthWrites
  <1>4. CASE authUser # None
    <2>1. UNCHANGED <<authUser, authTokens, authTouched, authStale, authPassword>>
      BY <1>4 DEF Auth!Register
    <2> HIDE DEF q
    <2> QED BY <1>1, <1>2, <2>1, AuthPlainInv
  <1> QED BY <1>3, <1>4

\* A write that only changes other columns than the password and the tokens.
LEMMA AuthTouchUpInv ==
    ASSUME AuthInv, NEW r \in Addr, NEW q, NEW row, authUser # None, AuthSame(row, authUser), Auth!Write(r, row),
           authReq' = [authReq EXCEPT ![r] = q], AuthAsks(q, authTokens),
           AuthKept /\ ~authTouched[r] => (q.pc \in AuthHolding => AuthFine(q.row, authPassword, authSpent)),
           UNCHANGED <<authTokens, authNow, authPassword, authSpent, authCodes>>
    PROVE  AuthInv'
  <1>1. AuthTyped
    BY DEF AuthInv
  <1>2. AuthIssued(authUser, authTokens) /\ authTokens \in 0..AuthMaxTokens /\ authTokens <= authTokens'
    BY <1>1, CredentialAssumption DEF AuthTyped
  <1>3. row # None => AuthIssued(row, authTokens')
    BY <1>2 DEF AuthIssued, AuthSame
  <1>4. AuthKept => AuthFine(row, authPassword', authSpent')
    BY DEF AuthKept, AuthFine, AuthSame
  <1>5. AuthKept => (\A t \in AuthIds : authSpent'[t] <= 1) /\ \A c \in authCodes : authSpent'[c] = 0
    BY DEF AuthKept
  <1>6. authSpent' \in [AuthIds -> Nat] /\ \A t \in 1..AuthMaxTokens : t > authTokens' => authSpent'[t] = 0
    BY <1>1 DEF AuthTyped
  <1>7. AuthWriting(r, q, row)
    BY <1>2, <1>3, <1>4, <1>5, <1>6 DEF AuthWriting
  <1> QED BY <1>7, AuthWrites

LEMMA AuthCountWriteInv ==
    ASSUME AuthInv, NEW r \in Addr, Auth!CountWrite(r)
    PROVE  AuthInv'
  <1> DEFINE k == authReq[r].failed + 1
             n1 == [authUser EXCEPT !.failed = k]
             l == IF k >= AuthMaxFailedAttempts THEN authNow + AuthLockoutDuration ELSE authUser.locked
             row == [n1 EXCEPT !.locked = l]
             q == Auth!Done
  <1>1. AuthTyped
    BY DEF AuthInv
  <1>2. authUser # None /\ authReq[r].pc = "count" /\ authReq' = [authReq EXCEPT ![r] = q]
        /\ UNCHANGED <<authTokens, authNow, authPassword, authSpent, authCodes>>
    BY DEF Auth!CountWrite, Auth!Goto
  <1>3. Auth!Write(r, row)
    BY DEF Auth!CountWrite, Auth!recordAttempt
  <1>4. authUser \in AuthRow /\ k \in Nat
    BY <1>1, <1>2 DEF AuthTyped, AuthIssued, AuthAsks
  <1>5. l \in Int
    BY <1>1, <1>4, CredentialAssumption DEF AuthTyped, AuthRow
  <1>6. AuthSame(n1, authUser)
    <2> HIDE DEF k
    <2> QED BY <1>4, AuthColumns
  <1>7. n1 \in AuthRow
    BY <1>6 DEF AuthSame
  <1>8. AuthSame(row, n1)
    <2> HIDE DEF n1, l
    <2> QED BY <1>5, <1>7, AuthColumns
  <1> HIDE DEF n1, row
  <1>9. AuthSame(row, authUser)
    BY <1>6, <1>8 DEF AuthSame
  <1>10. q.pc \notin AuthHolding /\ AuthAsks(q, authTokens)
    BY DEF AuthAsks, AuthHolding, AuthSaving, Auth!Done
  <1> HIDE DEF q
  <1> QED BY <1>2, <1>3, <1>9, <1>10, AuthTouchUpInv

LEMMA AuthSuccessInv ==
    ASSUME AuthInv, NEW r \in Addr, Auth!RecordSuccessfulAttempt(r)
    PROVE  AuthInv'
  <1> DEFINE n1 == [authUser EXCEPT !.failed = 0]
             row == [n1 EXCEPT !.locked = 0]
             q == [authReq[r] EXCEPT !.pc = "login"]
             d == Auth!Done
  <1>1. AuthTyped
    BY DEF AuthInv
  <1>2. authUser # None /\ authReq[r].pc = "right"
        /\ (authReq' = [authReq EXCEPT ![r] = q] \/ authReq' = [authReq EXCEPT ![r] = d])
        /\ UNCHANGED <<authTokens, authNow, authPassword, authSpent, authCodes>>
    BY DEF Auth!RecordSuccessfulAttempt, Auth!Goto
  <1>3. Auth!Write(r, row)
    BY DEF Auth!RecordSuccessfulAttempt
  <1>4. authUser \in AuthRow
    BY <1>1, <1>2 DEF AuthTyped, AuthIssued
  <1>6. AuthSame(n1, authUser)
    BY <1>4, AuthColumns
  <1>7. n1 \in AuthRow
    BY <1>6 DEF AuthSame
  <1>8. AuthSame(row, n1)
    <2> HIDE DEF n1
    <2>1. \A x \in Int : AuthSame([n1 EXCEPT !.locked = x], n1)
      BY <1>7, AuthColumns
    <2> QED BY <2>1
  <1> HIDE DEF n1, row
  <1>9. AuthSame(row, authUser)
    BY <1>6, <1>8 DEF AuthSame
  <1>10. d.pc \notin AuthHolding /\ AuthAsks(d, authTokens)
    BY DEF AuthAsks, AuthHolding, AuthSaving, Auth!Done
  <1>11. q.pc = "login" /\ q.row = authReq[r].row /\ AuthIssued(q.row, authTokens)
    BY <1>1, <1>2 DEF AuthTyped, AuthAsks, AuthHolding
  <1>12. AuthAsks(q, authTokens)
    BY <1>11 DEF AuthAsks
  <1>13. AuthKept /\ ~authTouched[r] => AuthFine(q.row, authPassword, authSpent)
    BY <1>2, <1>11 DEF AuthKept, AuthKeeps, AuthHolding
  <1> HIDE DEF q, d
  <1>14. CASE authReq' = [authReq EXCEPT ![r] = q]
    BY <1>2, <1>3, <1>9, <1>12, <1>13, <1>14, AuthTouchUpInv
  <1>15. CASE authReq' = [authReq EXCEPT ![r] = d]
    BY <1>2, <1>3, <1>9, <1>10, <1>15, AuthTouchUpInv
  <1> QED BY <1>2, <1>14, <1>15

LEMMA AuthDeleteInv ==
    ASSUME AuthInv, NEW r \in Addr, Auth!DeleteAccount(r)
    PROVE  AuthInv'
  <1> DEFINE q == Auth!Done
  <1>1. AuthTyped
    BY DEF AuthInv
  <1>2. /\ authReq' = [authReq EXCEPT ![r] = q] /\ authCodes' = {} /\ Auth!Write(r, None)
        /\ UNCHANGED <<authTokens, authNow, authPassword, authSpent>>
    BY DEF Auth!DeleteAccount, Auth!Goto
  <1>3. q.pc \notin AuthHolding /\ AuthAsks(q, authTokens')
    BY DEF AuthAsks, AuthHolding, AuthSaving, Auth!Done
  <1>4. authTokens \in 0..AuthMaxTokens /\ authTokens <= authTokens'
    BY <1>1, <1>2, CredentialAssumption DEF AuthTyped
  <1>5. AuthKept => (\A t \in AuthIds : authSpent'[t] <= 1) /\ \A c \in authCodes : authSpent'[c] = 0
    BY <1>2 DEF AuthKept
  <1>6. authSpent' \in [AuthIds -> Nat] /\ \A t \in 1..AuthMaxTokens : t > authTokens' => authSpent'[t] = 0
    BY <1>1, <1>2 DEF AuthTyped
  <1> HIDE DEF q
  <1>7. AuthWriting(r, q, None)
    BY <1>2, <1>3, <1>4, <1>5, <1>6 DEF AuthWriting
  <1> QED BY <1>7, AuthWrites

\* What an endpoint saves: its copy, with its own columns replaced.
AuthBecomes(row, q) ==
    /\ row \in AuthRow
    /\ row.pw = IF q.pc = "reset" THEN q.pw ELSE q.row.pw
    /\ row.emailToken = IF q.pc = "verify_email" THEN 0 ELSE q.row.emailToken
    /\ row.resetToken = IF q.pc = "forgot" THEN authTokens + 1 ELSE IF q.pc = "reset" THEN 0 ELSE q.row.resetToken

LEMMA AuthChanges ==
    ASSUME AuthInv, NEW q, q.pc \in AuthSaving, AuthAsks(q, authTokens)
    PROVE  AuthBecomes(Auth!Changed(q), q)
  <1> DEFINE row == Auth!Changed(q)
  <1>1. q.row \in AuthRow /\ authTokens \in Nat /\ authNow \in Nat
    BY CredentialAssumption DEF AuthInv, AuthTyped, AuthAsks, AuthHolding, AuthIssued
  <1>2. CASE q.pc = "verify_email"
    <2> DEFINE n1 == [q.row EXCEPT !.verified = TRUE]
               n2 == [n1 EXCEPT !.emailToken = 0]
    <2>1. row = [n2 EXCEPT !.emailUntil = 0]
      BY <1>2 DEF Auth!Changed
    <2>2. AuthSame(n1, q.row)
      BY <1>1, AuthColumns
    <2>3. n1 \in AuthRow
      BY <2>2 DEF AuthSame
    <2>4. n2 \in AuthRow /\ n2.pw = n1.pw /\ n2.emailToken = 0 /\ n2.resetToken = n1.resetToken
      <3> HIDE DEF n1
      <3> QED BY <2>3 DEF AuthRow
    <2>5. AuthSame(row, n2)
      <3> HIDE DEF n2
      <3>1. \A x \in Int : AuthSame([n2 EXCEPT !.emailUntil = x], n2)
        BY <2>4, AuthColumns
      <3> QED BY <2>1, <3>1
    <2> HIDE DEF n1, n2, row
    <2> QED BY <1>2, <2>2, <2>4, <2>5 DEF AuthBecomes, AuthSame, row
  <1>3. CASE q.pc = "forgot"
    <2> DEFINE k == authTokens + 1
               u == authNow + AuthResetTTL
               n1 == [q.row EXCEPT !.resetToken = k]
    <2>1. row = [n1 EXCEPT !.resetUntil = u]
      BY <1>3 DEF Auth!Changed
    <2>2. k \in Nat /\ u \in Int
      BY <1>1, CredentialAssumption
    <2>4. n1 \in AuthRow /\ n1.pw = q.row.pw /\ n1.emailToken = q.row.emailToken /\ n1.resetToken = k
      <3> HIDE DEF k
      <3> QED BY <1>1, <2>2 DEF AuthRow
    <2>5. AuthSame(row, n1)
      <3> HIDE DEF n1, u
      <3>1. \A x \in Int : AuthSame([n1 EXCEPT !.resetUntil = x], n1)
        BY <2>4, AuthColumns
      <3> QED BY <2>1, <2>2, <3>1
    <2> HIDE DEF n1, u, row
    <2> QED BY <1>3, <2>4, <2>5 DEF AuthBecomes, AuthSame, row
  <1>4. CASE q.pc = "reset"
    <2> DEFINE n1 == [q.row EXCEPT !.pw = q.pw]
               n2 == [n1 EXCEPT !.resetToken = 0]
    <2>1. row = [n2 EXCEPT !.resetUntil = 0]
      BY <1>4 DEF Auth!Changed, Auth!Reset
    <2>2. q.pw \in AuthPasswords
      BY <1>4 DEF AuthAsks
    <2>3. n1 \in AuthRow /\ n1.pw = q.pw /\ n1.emailToken = q.row.emailToken /\ n1.resetToken = q.row.resetToken
      BY <1>1, <2>2 DEF AuthRow
    <2>4. n2 \in AuthRow /\ n2.pw = n1.pw /\ n2.emailToken = n1.emailToken /\ n2.resetToken = 0
      <3> HIDE DEF n1
      <3> QED BY <2>3 DEF AuthRow
    <2>5. AuthSame(row, n2)
      <3> HIDE DEF n2
      <3>1. \A x \in Int : AuthSame([n2 EXCEPT !.resetUntil = x], n2)
        BY <2>4, AuthColumns
      <3> QED BY <2>1, <3>1
    <2> HIDE DEF n1, n2, row
    <2> QED BY <1>4, <2>3, <2>4, <2>5 DEF AuthBecomes, AuthSame, row
  <1>5. CASE q.pc \in {"setup", "enable", "disable", "backup", "login", "recovered"}
    <2>1. AuthSame(row, q.row)
      <3>1. CASE q.pc = "setup"
        <4> DEFINE n1 == [q.row EXCEPT !.totp = "setup"]
        <4>1. row = [n1 EXCEPT !.backup = {1}]
          BY <3>1 DEF Auth!Changed
        <4>2. AuthSame(n1, q.row)
          BY <1>1, AuthColumns
        <4>3. n1 \in AuthRow
          BY <4>2 DEF AuthSame
        <4> HIDE DEF n1, row
        <4>4. AuthSame(row, n1)
          BY <4>1, <4>3, AuthColumns
        <4> QED BY <4>2, <4>4 DEF AuthSame
      <3>2. CASE q.pc = "enable"
        BY <1>1, <3>2, AuthColumns DEF Auth!Changed
      <3>3. CASE q.pc = "disable"
        <4> DEFINE n1 == [q.row EXCEPT !.totp = "off"]
        <4>1. row = [n1 EXCEPT !.backup = {}]
          BY <3>3 DEF Auth!Changed
        <4>2. AuthSame(n1, q.row)
          BY <1>1, AuthColumns
        <4>3. n1 \in AuthRow
          BY <4>2 DEF AuthSame
        <4> HIDE DEF n1, row
        <4>4. AuthSame(row, n1)
          BY <4>1, <4>3, AuthColumns
        <4> QED BY <4>2, <4>4 DEF AuthSame
      <3>4. CASE q.pc = "backup"
        <4> DEFINE b == q.row.backup \ q.used
        <4>1. row = [q.row EXCEPT !.backup = b]
          BY <3>4 DEF Auth!Changed
        <4>2. b \in SUBSET {1}
          BY <1>1 DEF AuthRow
        <4> HIDE DEF b, row
        <4> QED BY <1>1, <4>1, <4>2, AuthColumns
      <3>5. CASE q.pc \in {"login", "recovered"}
        <4>1. row = q.row
          BY <3>5 DEF Auth!Changed
        <4> QED BY <1>1, <4>1 DEF AuthSame
      <3> QED BY <1>5, <3>1, <3>2, <3>3, <3>4, <3>5
    <2> HIDE DEF row
    <2> QED BY <1>5, <2>1 DEF AuthBecomes, AuthSame, row
  <1> QED BY <1>2, <1>3, <1>4, <1>5 DEF AuthSaving

LEMMA AuthSaveInv ==
    ASSUME AuthInv, NEW r \in Addr, Auth!Save(r)
    PROVE  AuthInv'
  <1> DEFINE q == authReq[r]
             row == Auth!Changed(q)
             d == IF q.pc \in {"login", "backup", "recovered"} THEN [pc |-> "session"]
                  ELSE IF q.pc = "reset" THEN [pc |-> "purge"] ELSE Auth!Done
  <1>1. AuthTyped
    BY DEF AuthInv
  <1>2. /\ q.pc \in AuthSaving /\ authReq' = [authReq EXCEPT ![r] = d] /\ Auth!Write(r, row)
        /\ q.pc = "forgot" => authTokens < AuthMaxTokens
        /\ authTokens' = IF q.pc = "forgot" THEN authTokens + 1 ELSE authTokens
        /\ authPassword' = IF q.pc = "reset" THEN q.pw ELSE authPassword
        /\ authCodes' = authCodes /\ authNow' = authNow
    BY DEF Auth!Save, Auth!Goto, AuthSaving
  <1>3. AuthAsks(q, authTokens)
    BY <1>1 DEF AuthTyped
  <1>4. AuthIssued(q.row, authTokens) /\ authTokens \in Nat
    BY <1>1, <1>2, <1>3, CredentialAssumption DEF AuthAsks, AuthHolding, AuthTyped
  <1>5. AuthBecomes(row, q)
    BY <1>2, <1>3, AuthChanges
  <1>6. authTokens' \in 0..AuthMaxTokens /\ authTokens <= authTokens'
    BY <1>1, <1>2, <1>4, CredentialAssumption DEF AuthTyped
  <1>7. d.pc \notin AuthHolding /\ AuthAsks(d, authTokens')
    BY DEF AuthAsks, AuthHolding, AuthSaving, Auth!Done
  <1>8. /\ authSpent \in [AuthIds -> Nat] /\ authSpent' \in [AuthIds -> Nat]
        /\ \A t \in AuthIds : authSpent'[t] = IF t \in Auth!Token(q) THEN authSpent[t] + 1 ELSE authSpent[t]
    <2>1. authSpent \in [AuthIds -> Nat]
      BY <1>1 DEF AuthTyped
    <2>2. authSpent' = [t \in AuthIds |-> IF t \in Auth!Token(q) THEN authSpent[t] + 1 ELSE authSpent[t]]
      BY <2>1 DEF Auth!Save
    <2> HIDE DEF q
    <2> QED BY <2>1, <2>2
  <1>9. /\ q.pc = "verify_email" => Auth!Token(q) = {q.row.emailToken}
        /\ q.pc = "reset" => Auth!Token(q) = {q.row.resetToken}
        /\ q.pc \notin {"verify_email", "reset"} => Auth!Token(q) = {}
    BY DEF Auth!Token
  <1>10. AuthKept /\ ~authTouched[r] => AuthFine(q.row, authPassword, authSpent)
    BY <1>2 DEF AuthKept, AuthKeeps, AuthHolding
  <1>11. q.row.emailToken \in 0..authTokens /\ q.row.resetToken \in 0..authTokens
    BY <1>4 DEF AuthIssued, AuthRow
  <1>12. authTokens \in 0..AuthMaxTokens /\ AuthMaxTokens \in Nat
    BY <1>1, CredentialAssumption DEF AuthTyped
  <1> HIDE DEF q, row, d
  <1>13. AuthIssued(row, authTokens')
    BY <1>2, <1>4, <1>5, <1>11 DEF AuthIssued, AuthBecomes
  <1>14. \A t \in 1..AuthMaxTokens : t > authTokens' => authSpent'[t] = 0
    <2> SUFFICES ASSUME NEW t \in 1..AuthMaxTokens, t > authTokens' PROVE authSpent'[t] = 0
      OBVIOUS
    <2>1. t > authTokens /\ t \in AuthIds
      BY <1>4, <1>6 DEF AuthIds
    <2>2. t \notin Auth!Token(q)
      BY <1>9, <1>11, <2>1, <1>4
    <2> QED BY <1>1, <1>8, <2>1, <2>2 DEF AuthTyped
  <1>15. ASSUME AuthKept, ~authTouched[r] PROVE AuthFine(row, authPassword', authSpent')
    <2>1. AuthFine(q.row, authPassword, authSpent)
      BY <1>10, <1>15
    <2>2. row.pw = authPassword'
      BY <1>2, <1>5, <2>1 DEF AuthBecomes, AuthFine
    <2>3. row.emailToken # 0 => row.emailToken # row.resetToken
      BY <1>5, <1>11, <1>4, <2>1 DEF AuthBecomes, AuthFine
    <2>4. ASSUME NEW t \in {row.emailToken, row.resetToken} \ {0} PROVE authSpent'[t] = 0
      <3>1. CASE t = authTokens + 1
        <4>1. q.pc = "forgot" /\ t \in 1..AuthMaxTokens /\ t > authTokens
          BY <1>2, <1>4, <1>5, <1>11, <1>12, <3>1, <2>4 DEF AuthBecomes
        <4>2. authSpent[t] = 0 /\ t \in AuthIds
          BY <1>1, <4>1 DEF AuthTyped, AuthIds
        <4> QED BY <1>8, <1>9, <4>1, <4>2
      <3>2. CASE t # authTokens + 1
        <4>1. t \in {q.row.emailToken, q.row.resetToken} \ {0}
          BY <1>5, <2>4, <3>2 DEF AuthBecomes
        <4>2. t \notin Auth!Token(q)
          BY <1>5, <1>9, <2>1, <2>4, <3>2, <4>1 DEF AuthBecomes, AuthFine
        <4>3. t \in AuthIds
          BY <1>11, <1>12, <4>1 DEF AuthIds
        <4> QED BY <1>8, <2>1, <4>1, <4>2, <4>3 DEF AuthFine
      <3> QED BY <3>1, <3>2
    <2> QED BY <2>2, <2>3, <2>4 DEF AuthFine
  <1>16. ASSUME AuthKept, ~authTouched[r]
         PROVE  (\A t \in AuthIds : authSpent'[t] <= 1) /\ \A c \in authCodes : authSpent'[c] = 0
    <2>1. AuthFine(q.row, authPassword, authSpent)
      BY <1>10, <1>16
    <2>2. ASSUME NEW t \in AuthIds PROVE authSpent'[t] <= 1
      <3>1. authSpent[t] <= 1 /\ authSpent[t] \in Nat
        BY <1>8, <1>16 DEF AuthKept
      <3>2. t \in Auth!Token(q) => authSpent[t] = 0
        <4>1. 0 \notin AuthIds
          BY CredentialAssumption DEF AuthIds
        <4> QED BY <1>9, <2>1, <4>1 DEF AuthFine
      <3> QED BY <1>8, <3>1, <3>2
    <2>3. ASSUME NEW c \in authCodes PROVE authSpent'[c] = 0
      <3>1. c \in AuthCodes /\ c \notin Nat /\ c \in AuthIds
        BY <1>1, CredentialAssumption DEF AuthTyped, AuthIds
      <3>2. c \notin Auth!Token(q)
        BY <1>9, <1>11, <3>1
      <3> QED BY <1>8, <1>16, <3>1, <3>2 DEF AuthKept
    <2> QED BY <2>2, <2>3
  <1>17. AuthWriting(r, d, row)
    BY <1>2, <1>6, <1>7, <1>8, <1>13, <1>14, <1>15, <1>16 DEF AuthWriting
  <1> QED BY <1>17, AuthWrites

LEMMA AuthConsumeInv ==
    ASSUME AuthInv, NEW r \in Addr, Auth!ConsumeCode(r)
    PROVE  AuthInv'
  <1> DEFINE q == authReq[r]
             n == [q EXCEPT !.pc = "recovered"]
             c == q.code
  <1>1. AuthTyped
    BY DEF AuthInv
  <1>2. /\ q.pc = "match" /\ authReq' = [authReq EXCEPT ![r] = n] /\ authCodes' = authCodes \ {c}
        /\ authSpent' = [authSpent EXCEPT ![c] = authSpent[c] + 1] /\ (authStale' <=> authStale \/ c \notin authCodes)
        /\ UNCHANGED <<authUser, authTokens, authNow, authTouched, authPassword>>
    BY DEF Auth!ConsumeCode, Auth!Goto, Auth!Consumed
  <1>3. c \in AuthCodes /\ AuthIssued(q.row, authTokens) /\ q \in [pc : {"match"}, row : AuthRow, code : AuthCodes]
    BY <1>1, <1>2 DEF AuthTyped, AuthAsks, AuthHolding
  <1>4. c \notin Nat /\ c \in AuthIds
    BY <1>3, CredentialAssumption DEF AuthIds
  <1>5. n.pc = "recovered" /\ n.row = q.row
    BY <1>3
  <1>6. AuthAsks(n, authTokens)
    BY <1>3, <1>5 DEF AuthAsks
  <1> HIDE DEF n, c
  <1>7. /\ authSpent \in [AuthIds -> Nat] /\ authSpent' \in [AuthIds -> Nat]
        /\ \A t \in AuthIds : authSpent'[t] = IF t = c THEN authSpent[t] + 1 ELSE authSpent[t]
    <2>1. authSpent \in [AuthIds -> Nat]
      BY <1>1 DEF AuthTyped
    <2> QED BY <1>2, <1>4, <2>1
  <1>8. DOMAIN authReq' = Addr /\ \A p \in Addr : authReq'[p] = IF p = r THEN n ELSE authReq[p]
    BY <1>1, <1>2 DEF AuthTyped
  <1>9. \A p \in Addr : AuthAsks(authReq'[p], authTokens')
    BY <1>1, <1>2, <1>6, <1>8 DEF AuthTyped
  <1>10. \A t \in 1..AuthMaxTokens : t > authTokens => authSpent'[t] = 0
    <2> SUFFICES ASSUME NEW t \in 1..AuthMaxTokens, t > authTokens PROVE authSpent'[t] = 0
      OBVIOUS
    <2>1. t # c /\ t \in AuthIds
      BY <1>4 DEF AuthIds
    <2> QED BY <1>1, <1>7, <2>1 DEF AuthTyped
  <1>11. AuthTyped'
    BY <1>1, <1>2, <1>7, <1>8, <1>9, <1>10 DEF AuthTyped
  <1>12. ASSUME ~authStale' PROVE AuthKept'
    <2>1. AuthKept /\ c \in authCodes
      BY <1>2, <1>12 DEF AuthInv
    <2>2. ASSUME NEW row, AuthIssued(row, authTokens), AuthFine(row, authPassword, authSpent)
          PROVE  AuthFine(row, authPassword, authSpent')
      <3>1. row.emailToken \in 0..authTokens /\ row.resetToken \in 0..authTokens
        BY <2>2, <1>1, CredentialAssumption DEF AuthIssued, AuthRow, AuthTyped
      <3>2. ASSUME NEW t \in {row.emailToken, row.resetToken} \ {0} PROVE authSpent'[t] = 0
        <4>1. t \in AuthIds /\ t # c
          BY <1>1, <1>4, <3>1, CredentialAssumption DEF AuthIds, AuthTyped
        <4> QED BY <1>7, <2>2, <4>1 DEF AuthFine
      <3> QED BY <2>2, <3>2 DEF AuthFine
    <2>3. authUser # None => AuthFine(authUser, authPassword, authSpent')
      BY <1>1, <2>1, <2>2 DEF AuthTyped, AuthKept
    <2>4. \A p \in Addr : AuthKeeps(authReq'[p], authTouched[p], authPassword, authSpent')
      <3> SUFFICES ASSUME NEW p \in Addr PROVE AuthKeeps(authReq'[p], authTouched[p], authPassword, authSpent')
        OBVIOUS
      <3>1. AuthKeeps(authReq[p], authTouched[p], authPassword, authSpent')
        BY <1>1, <2>1, <2>2 DEF AuthTyped, AuthKept, AuthKeeps, AuthAsks
      <3>2. authReq[r].pc \in AuthHolding
        BY <1>2 DEF AuthHolding
      <3> QED BY <1>5, <1>8, <3>1, <3>2 DEF AuthKeeps
    <2>5. \A t \in AuthIds : authSpent'[t] <= 1
      <3>1. authSpent[c] = 0
        BY <2>1 DEF AuthKept
      <3> QED BY <1>7, <2>1, <3>1 DEF AuthKept
    <2>6. \A x \in authCodes' : authSpent'[x] = 0
      <3>1. authCodes \subseteq AuthIds
        BY <1>1 DEF AuthTyped, AuthIds
      <3> QED BY <1>2, <1>7, <2>1, <3>1 DEF AuthKept
    <2> QED BY <1>2, <2>3, <2>4, <2>5, <2>6 DEF AuthKept
  <1> QED BY <1>11, <1>12 DEF AuthInv

LEMMA AuthInvNext == AuthInv /\ [Auth!Next]_(Auth!vars) => AuthInv'
  <1> SUFFICES ASSUME AuthInv, [Auth!Next]_(Auth!vars) PROVE AuthInv'
    OBVIOUS
  <1>1. ASSUME NEW r \in Addr, NEW pw \in AuthPasswords,
               Auth!Register(r, pw) \/ Auth!Login(r, pw) \/ Auth!ResetPassword(r, pw) \/ Auth!Disable2FA(r, pw)
               \/ Auth!GenerateRecoveryCodes(r, pw)
        PROVE  AuthInv'
    BY <1>1, AuthRegisterInv, AuthLoginInv, AuthResetInv, AuthReadersInv, AuthOthersInv
  <1>2. ASSUME NEW r \in Addr,
               \/ Auth!CountRead(r) \/ Auth!CountWrite(r) \/ Auth!RecordSuccessfulAttempt(r)
               \/ Auth!VerifyEmail(r) \/ Auth!ForgotPassword(r) \/ Auth!Setup2FA(r) \/ Auth!Verify2FA(r)
               \/ Auth!Save(r) \/ Auth!CreateSession(r) \/ Auth!PurgeSessions(r) \/ Auth!Logout(r)
               \/ Auth!ConsumeCode(r) \/ Auth!DeleteAccount(r)
        PROVE  AuthInv'
    BY <1>2, AuthOthersInv, AuthCountWriteInv, AuthSuccessInv, AuthReadersInv, AuthSaveInv, AuthConsumeInv, AuthDeleteInv
  <1>3. ASSUME NEW r \in Addr, NEW used \in {{}, {1}}, Auth!LoginWith2FA(r, used) PROVE AuthInv'
    BY <1>3, AuthBackupInv
  <1>4. ASSUME NEW r \in Addr, NEW c \in AuthCodes, Auth!LoginWithRecoveryCode(r, c) PROVE AuthInv'
    BY <1>4, AuthMatchInv
  <1>5. CASE Auth!Tick
    <2>1. UNCHANGED <<authUser, authCodes, authReq, authTokens, authStale, authPassword, authSpent, authTouched>>
          /\ authNow' = authNow + 1
      BY <1>5 DEF Auth!Tick
    <2>2. AuthTyped /\ AuthTyped'
      BY <2>1 DEF AuthInv, AuthTyped
    <2>3. AuthKept => AuthKept'
      BY <2>1 DEF AuthKept
    <2> QED BY <2>1, <2>2, <2>3 DEF AuthInv
  <1>6. CASE UNCHANGED Auth!vars
    <2>1. UNCHANGED <<authUser, authCodes, authReq, authTokens, authStale, authPassword, authSpent, authTouched, authNow>>
      BY <1>6 DEF Auth!vars
    <2>2. AuthTyped /\ AuthTyped'
      BY <2>1 DEF AuthInv, AuthTyped
    <2>3. AuthKept => AuthKept'
      BY <2>1 DEF AuthKept
    <2> QED BY <2>1, <2>2, <2>3 DEF AuthInv
  <1> QED BY <1>1, <1>2, <1>3, <1>4, <1>5, <1>6 DEF Auth!Next

LEMMA AuthInvMeans == AuthInv => Auth!CredentialsAreKept
  <1> SUFFICES ASSUME AuthInv, ~authStale PROVE
        /\ authUser # None => authUser.pw = authPassword
        /\ \A t \in DOMAIN authSpent : authSpent[t] <= 1
        /\ authUser # None => \A t \in {authUser.emailToken, authUser.resetToken} \ {0} : authSpent[t] = 0
    BY DEF Auth!CredentialsAreKept
  <1> QED BY DEF AuthInv, AuthTyped, AuthKept, AuthFine

(***************************************************************************)
(* handlers/auth/auth.go, services/auth_service.go and oauth.go: unless a  *)
(* save puts back an older row, the account has the password set last, a   *)
(* mailed token and a recovery code are accepted once, an identity of a    *)
(* provider signs in one user for ever, and a session key that was revoked *)
(* lapses.                                                                 *)
(***************************************************************************)
THEOREM CredentialsKept == Auth!Spec /\ Auth!SocialSpec /\ Lim!DeviceSpec => []CredentialsAreKept
  <1>1. Auth!Spec => []AuthInv
    BY AuthInvInit, AuthInvNext, PTL DEF Auth!Spec
  <1>2. Auth!SocialSpec => []SocInv
    BY SocInvInit, SocInvNext, PTL DEF Auth!SocialSpec
  <1>3. Lim!DeviceSpec => []DevInv
    BY DevInvInit, DevInvNext, PTL DEF Lim!DeviceSpec
  <1>4. AuthInv /\ SocInv /\ DevInv => CredentialsAreKept
    BY AuthInvMeans, SocInvMeans, DevInvMeans DEF CredentialsAreKept
  <1> QED BY <1>1, <1>2, <1>3, <1>4, PTL

(***************************************************************************)
(* Identity verification.  Unless two requests worked on a user at once,   *)
(* one request at most is at work on the user, and either the last entry   *)
(* of the log that sets a status is that of the record, or the entry this  *)
(* request is about to write is; a verified user has an approval in the    *)
(* log or about to be written.                                             *)
(***************************************************************************)
KycActions == {"kyc_submitted", "aml_screening_error", "aml_screened", "status_changed", "webhook_status_update",
               "aml_review_resolved", "document_uploaded", "accredited_investor_verified"}
KycWords == {"pending", "review", "approved", "rejected", "clear", "flagged", "user"}
KycEntry == [user : KycUsers, action : KycActions, status : KycWords]
KycScreening == [user : KycUsers, status : {"clear", "flagged"}]
KycTake == [pc : {"take"}, user : KycUsers, action : {"status_changed", "webhook_status_update"}, result : Kyc!KYCRecord]

KycAt(q, u) == q \notin {Kyc!New, Kyc!Done} /\ q.user = u

KycAsks(q, rec) ==
    /\ q \in {Kyc!New, Kyc!Done} \/ q.user \in KycUsers
    /\ q.pc \in {"screen", "screened", "take", "verify", "resolve"} => rec[q.user] \in Kyc!KYCRecord
    /\ q.pc = "screened" => q.status \in {"clear", "flagged"}
    /\ q.pc = "take" => q \in KycTake
    /\ q.pc = "verify" => q.action \in {"status_changed", "webhook_status_update"}
    /\ q.pc = "resolve" => q.cleared \in BOOLEAN
    /\ q.pc = "log" => q.action \in KycActions /\ q.status \in KycWords /\ (q.action = "kyc_submitted" => rec[q.user] \in Kyc!KYCRecord)

KycTells(lg, u, st) ==
    \E k \in DOMAIN lg :
        /\ Kyc!SetsStatus(lg[k], u)
        /\ \A j \in DOMAIN lg : j > k => ~Kyc!SetsStatus(lg[j], u)
        /\ st = Kyc!LoggedStatus(lg[k])

\* What the log says, or will with the entry of q, the request at work on u.
KycOwes(q, u, row, lg) ==
    /\ q.pc = "verify" => row.status = "approved"
    /\ q.pc = "log" /\ Kyc!SetsStatus(q, u) => row.status = Kyc!LoggedStatus(q)
    /\ q.pc # "verify" /\ ~(q.pc = "log" /\ Kyc!SetsStatus(q, u)) => KycTells(lg, u, row.status)

KycTold(u, row, lg, rs) ==
    row # None =>
        /\ (\A r \in Addr : ~KycAt(rs[r], u)) => KycTells(lg, u, row.status)
        /\ \A r \in Addr : KycAt(rs[r], u) => KycOwes(rs[r], u, row, lg)

KycAlone(u, rs) == \A r, p \in Addr : KycAt(rs[r], u) /\ KycAt(rs[p], u) => r = p

KycLogging(q, u) == q.pc = "log" /\ q.user = u /\ q.status = "approved"

KycApproved(lg, rs, u) ==
    \/ \E k \in DOMAIN lg : lg[k].user = u /\ lg[k].status = "approved"
    \/ \E r \in Addr : KycLogging(rs[r], u)

KycTyped ==
    /\ kycLog \in Seq(KycEntry) /\ kycScreenings \in Seq(KycScreening)
    /\ DOMAIN kycReq = Addr /\ DOMAIN kycRecord = KycUsers /\ kycVerified \in [KycUsers -> BOOLEAN]
    /\ \A u \in KycUsers : kycRecord[u] = None \/ kycRecord[u] \in Kyc!KYCRecord
    /\ \A r \in Addr : KycAsks(kycReq[r], kycRecord)
    /\ \A s \in DOMAIN kycScreenings : kycRecord[kycScreenings[s].user] \in Kyc!KYCRecord

KycInv ==
    /\ KycTyped
    /\ \A u \in KycUsers \ kycRaced : KycTold(u, kycRecord[u], kycLog, kycReq) /\ KycAlone(u, kycReq)
    /\ \A u \in KycUsers : kycVerified[u] => KycApproved(kycLog, kycReq, u)

LEMMA KycInvMeans == KycInv => Kyc!LogTellsStatus
  <1> SUFFICES ASSUME KycInv, NEW u \in KycUsers \ kycRaced, Kyc!Working(u) = {}
               PROVE  /\ kycRecord[u] # None => KycTells(kycLog, u, kycRecord[u].status)
                      /\ kycVerified[u] => \E k \in DOMAIN kycLog : kycLog[k].user = u /\ kycLog[k].status = "approved"
    BY DEF Kyc!LogTellsStatus, Kyc!requireGoodStanding, KycTells
  <1>1. \A r \in Addr : ~KycAt(kycReq[r], u)
    BY DEF Kyc!Working, KycAt
  <1>2. \A r \in Addr : ~KycLogging(kycReq[r], u)
    BY <1>1 DEF KycAt, KycLogging, Kyc!New, Kyc!Done
  <1> QED BY <1>1, <1>2 DEF KycInv, KycTold, KycApproved

LEMMA KycInvInit == Kyc!Init => KycInv
  <1> SUFFICES ASSUME Kyc!Init PROVE KycInv
    OBVIOUS
  <1>1. /\ kycRecord = [u \in KycUsers |-> None] /\ kycVerified = [u \in KycUsers |-> FALSE]
        /\ kycScreenings = <<>> /\ kycLog = <<>> /\ kycReq = [r \in Addr |-> Kyc!New]
    BY DEF Kyc!Init
  <1>2. \A r \in Addr : kycReq[r] = Kyc!New /\ kycReq[r].pc = "new"
    BY <1>1 DEF Kyc!New
  <1>3. \A r \in Addr : KycAsks(kycReq[r], kycRecord)
    BY <1>2 DEF KycAsks
  <1>4. kycLog \in Seq(KycEntry) /\ kycScreenings \in Seq(KycScreening) /\ DOMAIN kycScreenings = {}
    BY <1>1
  <1>5. KycTyped
    BY <1>1, <1>3, <1>4 DEF KycTyped
  <1>6. \A u \in KycUsers : kycRecord[u] = None /\ ~kycVerified[u]
    BY <1>1
  <1>7. \A u \in KycUsers : KycAlone(u, kycReq) /\ KycTold(u, kycRecord[u], kycLog, kycReq)
    BY <1>2, <1>6 DEF KycAlone, KycAt, KycTold
  <1> QED BY <1>5, <1>6, <1>7 DEF KycInv

\* One more entry in the log.
LEMMA KycAppended ==
    ASSUME NEW lg \in Seq(KycEntry), NEW e \in KycEntry, NEW u
    PROVE  /\ Append(lg, e) \in Seq(KycEntry)
           /\ Kyc!SetsStatus(e, u) => KycTells(Append(lg, e), u, Kyc!LoggedStatus(e))
           /\ ~Kyc!SetsStatus(e, u) => \A st : KycTells(lg, u, st) => KycTells(Append(lg, e), u, st)
           /\ \A k \in DOMAIN lg : k \in DOMAIN Append(lg, e) /\ Append(lg, e)[k] = lg[k]
           /\ \E k \in DOMAIN Append(lg, e) : Append(lg, e)[k] = e
  <1> DEFINE S == KycEntry
             n == Len(lg)
             m == Append(lg, e)
  <1>1. /\ n \in Nat /\ DOMAIN lg = 1..n /\ m \in Seq(S) /\ DOMAIN m = 1..(n + 1)
        /\ m[n + 1] = e /\ \A k \in 1..n : m[k] = lg[k]
    <2>1. lg \in Seq(S) /\ e \in S
      OBVIOUS
    <2> HIDE DEF S
    <2> QED BY <2>1
  <1> HIDE DEF n, m
  <1>2. ASSUME Kyc!SetsStatus(e, u) PROVE KycTells(m, u, Kyc!LoggedStatus(e))
    <2>1. n + 1 \in DOMAIN m /\ \A j \in DOMAIN m : ~(j > n + 1)
      BY <1>1
    <2> QED BY <1>1, <1>2, <2>1 DEF KycTells
  <1>3. ASSUME ~Kyc!SetsStatus(e, u), NEW st, KycTells(lg, u, st) PROVE KycTells(m, u, st)
    <2>1. PICK k \in DOMAIN lg :
            /\ Kyc!SetsStatus(lg[k], u) /\ st = Kyc!LoggedStatus(lg[k])
            /\ \A j \in DOMAIN lg : j > k => ~Kyc!SetsStatus(lg[j], u)
      BY <1>3 DEF KycTells
    <2>2. k \in DOMAIN m /\ m[k] = lg[k]
      BY <1>1
    <2>3. ASSUME NEW j \in DOMAIN m, j > k PROVE ~Kyc!SetsStatus(m[j], u)
      <3>1. CASE j = n + 1
        BY <1>1, <1>3, <3>1
      <3>2. CASE j # n + 1
        <4>1. j \in DOMAIN lg /\ m[j] = lg[j]
          BY <1>1, <3>2
        <4> QED BY <2>1, <2>3, <4>1
      <3> QED BY <3>1, <3>2
    <2> QED BY <2>1, <2>2, <2>3 DEF KycTells
  <1>4. (\A k \in DOMAIN lg : k \in DOMAIN m /\ m[k] = lg[k]) /\ \E k \in DOMAIN m : m[k] = e
    BY <1>1
  <1> QED BY <1>1, <1>2, <1>3, <1>4 DEF m

\* A request about to write its entry asks for no more than the entry's user.
LEMMA KycLogAsks ==
    ASSUME NEW q, q.pc = "log", q.user \in KycUsers, q.action \in KycActions, q.status \in KycWords,
           NEW rec, q.action = "kyc_submitted" => rec[q.user] \in Kyc!KYCRecord
    PROVE  KycAsks(q, rec)
  BY DEF KycAsks

\* A request takes up u, or goes on with it.
KycMoves(r, u) ==
    \/ KycAt(kycReq[r], u) /\ kycRaced' = kycRaced
    \/ kycReq[r] = Kyc!New /\ kycRaced' = IF Kyc!Working(u) # {} THEN kycRaced \cup {u} ELSE kycRaced

LEMMA KycHad ==
    ASSUME KycInv, NEW r \in Addr, NEW u \in KycUsers, KycMoves(r, u)
    PROVE  /\ kycRaced \subseteq kycRaced' /\ \A w \in KycUsers \ {u} : w \in kycRaced' <=> w \in kycRaced
           /\ u \notin kycRaced' => \A p \in Addr \ {r} : ~KycAt(kycReq[p], u)
           /\ u \notin kycRaced' /\ kycRecord[u] # None =>
                IF kycReq[r] = Kyc!New THEN KycTells(kycLog, u, kycRecord[u].status)
                ELSE KycOwes(kycReq[r], u, kycRecord[u], kycLog)
  <1>1. kycRaced \subseteq kycRaced' /\ \A w \in KycUsers \ {u} : w \in kycRaced' <=> w \in kycRaced
    BY DEF KycMoves
  <1>2. ASSUME u \notin kycRaced' PROVE KycTold(u, kycRecord[u], kycLog, kycReq) /\ KycAlone(u, kycReq)
    BY <1>1, <1>2 DEF KycInv
  <1>3. CASE KycAt(kycReq[r], u)
    <2>1. kycReq[r] # Kyc!New
      BY <1>3 DEF KycAt
    <2> QED BY <1>1, <1>2, <1>3, <2>1 DEF KycTold, KycAlone
  <1>4. CASE ~KycAt(kycReq[r], u)
    <2>1. kycReq[r] = Kyc!New /\ kycRaced' = IF Kyc!Working(u) # {} THEN kycRaced \cup {u} ELSE kycRaced
      BY <1>4 DEF KycMoves
    <2>2. u \notin kycRaced' => \A p \in Addr : ~KycAt(kycReq[p], u)
      BY <2>1 DEF KycAt, Kyc!Working
    <2> QED BY <1>1, <1>2, <2>1, <2>2 DEF KycTold
  <1> QED BY <1>3, <1>4

\* What a step of r on u does: the others' records and entries stay.
KycStep(r, q, u) ==
    /\ KycMoves(r, u)
    /\ kycReq' = [kycReq EXCEPT ![r] = q] /\ (q \in {Kyc!New, Kyc!Done} \/ q.user = u) /\ KycAsks(q, kycRecord')
    /\ DOMAIN kycRecord' = KycUsers /\ \A w \in KycUsers \ {u} : kycRecord'[w] = kycRecord[w]
    /\ kycRecord'[u] = None \/ kycRecord'[u] \in Kyc!KYCRecord
    /\ kycRecord[u] \in Kyc!KYCRecord => kycRecord'[u] \in Kyc!KYCRecord
    /\ kycVerified' \in [KycUsers -> BOOLEAN] /\ \A w \in KycUsers \ {u} : kycVerified'[w] = kycVerified[w]
    /\ kycLog' = kycLog \/ \E e \in KycEntry : e.user = u /\ kycLog' = Append(kycLog, e)
    /\ kycScreenings' \in Seq(KycScreening)
    /\ \A s \in DOMAIN kycScreenings' : kycRecord'[kycScreenings'[s].user] \in Kyc!KYCRecord
    /\ u \notin kycRaced' /\ kycRecord'[u] # None =>
            IF KycAt(q, u) THEN KycOwes(q, u, kycRecord'[u], kycLog') ELSE KycTells(kycLog', u, kycRecord'[u].status)
    /\ kycVerified'[u] => KycApproved(kycLog', kycReq', u)

LEMMA KycSteps ==
    ASSUME KycInv, NEW r \in Addr, NEW q, NEW u \in KycUsers, KycStep(r, q, u)
    PROVE  KycInv'
  <1> USE DEF KycStep
  <1>1. KycTyped
    BY DEF KycInv
  <1>2. DOMAIN kycReq' = Addr /\ \A p \in Addr : kycReq'[p] = IF p = r THEN q ELSE kycReq[p]
    BY <1>1 DEF KycTyped
  <1>3. \A p \in Addr : KycAsks(kycReq'[p], kycRecord')
    <2> SUFFICES ASSUME NEW p \in Addr, p # r PROVE KycAsks(kycReq[p], kycRecord')
      BY <1>2
    <2>1. KycAsks(kycReq[p], kycRecord)
      BY <1>1 DEF KycTyped
    <2>2. ASSUME NEW w \in KycUsers, kycRecord[w] \in Kyc!KYCRecord PROVE kycRecord'[w] \in Kyc!KYCRecord
      BY <2>2
    <2>3. kycReq[p] \in {Kyc!New, Kyc!Done} => kycReq[p].pc \in {"new", "done"}
      BY DEF Kyc!New, Kyc!Done
    <2> QED BY <2>1, <2>2, <2>3 DEF KycAsks
  <1>4. kycLog \in Seq(KycEntry)
    BY <1>1 DEF KycTyped
  <1>5. /\ kycLog' \in Seq(KycEntry)
        /\ \A k \in DOMAIN kycLog : k \in DOMAIN kycLog' /\ kycLog'[k] = kycLog[k]
        /\ \A w, st : w # u /\ KycTells(kycLog, w, st) => KycTells(kycLog', w, st)
    <2>1. CASE kycLog' = kycLog
      BY <1>4, <2>1
    <2>2. ASSUME NEW e \in KycEntry, e.user = u, kycLog' = Append(kycLog, e)
          PROVE  <1>5
      <3>1. \A w : w # u => ~Kyc!SetsStatus(e, w)
        BY <2>2 DEF Kyc!SetsStatus
      <3> QED BY <1>4, <2>2, <3>1, KycAppended
    <2> QED BY <2>1, <2>2
  <1>6. KycTyped'
    <2>1. \A w \in KycUsers : kycRecord'[w] = None \/ kycRecord'[w] \in Kyc!KYCRecord
      BY <1>1 DEF KycTyped
    <2> QED BY <1>2, <1>3, <1>5, <2>1 DEF KycTyped
  <1>7. \A p \in Addr, w \in KycUsers \ {u} : KycAt(kycReq'[p], w) <=> KycAt(kycReq[p], w) /\ p # r
    BY <1>2 DEF KycAt, KycMoves
  <1>8. \A w \in KycUsers \ {u} : w \in kycRaced' <=> w \in kycRaced
    BY KycHad
  <1>9. ASSUME NEW w \in (KycUsers \ kycRaced') \ {u}
        PROVE  KycTold(w, kycRecord'[w], kycLog', kycReq') /\ KycAlone(w, kycReq')
    <2>1. KycTold(w, kycRecord[w], kycLog, kycReq) /\ KycAlone(w, kycReq)
      BY <1>8 DEF KycInv
    <2>2. ~KycAt(kycReq[r], w)
      BY DEF KycAt, KycMoves
    <2>3. kycRecord'[w] = kycRecord[w]
      OBVIOUS
    <2>4. KycAlone(w, kycReq')
      BY <1>7, <2>1 DEF KycAlone
    <2>5. ASSUME kycRecord[w] # None, KycTells(kycLog, w, kycRecord[w].status)
          PROVE  KycTells(kycLog', w, kycRecord[w].status)
      BY <1>5, <2>3, <2>5
    <2>6. ASSUME kycRecord[w] # None, NEW p \in Addr, KycAt(kycReq'[p], w)
          PROVE  KycOwes(kycReq'[p], w, kycRecord[w], kycLog')
      <3>1. KycAt(kycReq[p], w) /\ kycReq'[p] = kycReq[p]
        BY <1>2, <1>7, <2>6
      <3>2. KycOwes(kycReq[p], w, kycRecord[w], kycLog)
        BY <2>1, <2>6, <3>1 DEF KycTold
      <3> QED BY <2>5, <2>6, <3>1, <3>2 DEF KycOwes
    <2>7. ASSUME kycRecord[w] # None, \A p \in Addr : ~KycAt(kycReq'[p], w)
          PROVE  KycTells(kycLog', w, kycRecord[w].status)
      <3>1. \A p \in Addr : ~KycAt(kycReq[p], w)
        BY <1>7, <2>2, <2>7
      <3> QED BY <2>1, <2>5, <2>7, <3>1 DEF KycTold
    <2> QED BY <2>3, <2>4, <2>6, <2>7 DEF KycTold
  <1>10. ASSUME u \notin kycRaced'
         PROVE  KycTold(u, kycRecord'[u], kycLog', kycReq') /\ KycAlone(u, kycReq')
    <2>1. \A p \in Addr \ {r} : ~KycAt(kycReq'[p], u)
      BY <1>2, <1>10, KycHad
    <2>2. kycReq'[r] = q
      BY <1>2
    <2> QED BY <1>10, <2>1, <2>2 DEF KycTold, KycAlone
  <1>11. ASSUME NEW w \in KycUsers \ {u}, kycVerified'[w] PROVE KycApproved(kycLog', kycReq', w)
    <2>1. KycApproved(kycLog, kycReq, w)
      BY <1>11 DEF KycInv
    <2>2. \A p \in Addr : KycLogging(kycReq[p], w) => kycReq'[p] = kycReq[p]
      <3>1. ~KycLogging(kycReq[r], w)
        BY DEF KycMoves, KycAt, KycLogging, Kyc!New
      <3> QED BY <1>2, <3>1
    <2> QED BY <1>5, <2>1, <2>2 DEF KycApproved
  <1> QED BY <1>6, <1>9, <1>10, <1>11 DEF KycInv

LEMMA KycScreened ==
    ASSUME KycTyped, NEW s \in DOMAIN kycScreenings
    PROVE  kycScreenings[s] \in KycScreening /\ kycScreenings[s].user \in KycUsers
  <1> DEFINE S == KycScreening
  <1>1. kycScreenings \in Seq(S)
    BY DEF KycTyped
  <1> HIDE DEF S
  <1>2. kycScreenings[s] \in S
    BY <1>1
  <1> QED BY <1>2 DEF S, KycScreening

\* Steps that change neither record, log nor mark, and owe the log nothing.
KycQuiet(r, q, u) ==
    /\ KycMoves(r, u) /\ kycReq[r].pc \notin {"verify", "log"}
    /\ kycReq' = [kycReq EXCEPT ![r] = q] /\ (q = Kyc!Done \/ q.user = u) /\ KycAsks(q, kycRecord)
    /\ q.pc # "verify" /\ ~(q.pc = "log" /\ Kyc!SetsStatus(q, u))
    /\ kycRecord' = kycRecord /\ kycVerified' = kycVerified /\ kycLog' = kycLog
    /\ kycScreenings' \in Seq(KycScreening)
    /\ \A s \in DOMAIN kycScreenings' : kycRecord[kycScreenings'[s].user] \in Kyc!KYCRecord

\* The mark of u goes with an approval that is in the log or on its way.
LEMMA KycStillApproved ==
    ASSUME KycInv, NEW r \in Addr, NEW q, kycReq' = [kycReq EXCEPT ![r] = q], kycReq[r].pc # "log",
           NEW u \in KycUsers, kycVerified[u]
    PROVE  KycApproved(kycLog, kycReq', u)
  <1>1. DOMAIN kycReq = Addr /\ KycApproved(kycLog, kycReq, u)
    BY DEF KycInv, KycTyped
  <1>2. \A p \in Addr : KycLogging(kycReq[p], u) => kycReq'[p] = kycReq[p]
    BY <1>1 DEF KycLogging
  <1> QED BY <1>1, <1>2 DEF KycApproved

LEMMA KycQuietInv ==
    ASSUME KycInv, NEW r \in Addr, NEW q, NEW u \in KycUsers, KycQuiet(r, q, u)
    PROVE  KycInv'
  <1> USE DEF KycQuiet
  <1>1. KycTyped
    BY DEF KycInv
  <1>2. ASSUME u \notin kycRaced', kycRecord[u] # None PROVE KycTells(kycLog, u, kycRecord[u].status)
    BY <1>2, KycHad DEF KycOwes
  <1>3. u \notin kycRaced' /\ kycRecord[u] # None =>
            IF KycAt(q, u) THEN KycOwes(q, u, kycRecord[u], kycLog) ELSE KycTells(kycLog, u, kycRecord[u].status)
    BY <1>2 DEF KycOwes
  <1>4. kycVerified[u] => KycApproved(kycLog, kycReq', u)
    BY KycStillApproved
  <1>5. KycStep(r, q, u)
    BY <1>1, <1>3, <1>4 DEF KycStep, KycTyped
  <1> QED BY <1>5, KycSteps

\* Steps that write the record of u, and go on to mark the user or to log it.
KycWrites(r, q, u, row) ==
    /\ KycAt(kycReq[r], u) /\ kycReq[r].pc \notin {"verify", "log"} /\ kycRaced' = kycRaced
    /\ kycReq' = [kycReq EXCEPT ![r] = q] /\ q.user = u /\ q.pc \in {"verify", "log"} /\ KycAsks(q, kycRecord')
    /\ kycRecord' = [kycRecord EXCEPT ![u] = row] /\ row \in Kyc!KYCRecord
    /\ kycVerified' = kycVerified /\ kycLog' = kycLog /\ kycScreenings' = kycScreenings
    /\ q.pc = "verify" => row.status = "approved"
    /\ q.pc = "log" => IF Kyc!SetsStatus(q, u) THEN row.status = Kyc!LoggedStatus(q)
                       ELSE kycRecord[u] # None /\ row.status = kycRecord[u].status

LEMMA KycWritesInv ==
    ASSUME KycInv, NEW r \in Addr, NEW q, NEW u \in KycUsers, NEW row, KycWrites(r, q, u, row)
    PROVE  KycInv'
  <1> USE DEF KycWrites
  <1>1. KycTyped
    BY DEF KycInv
  <1>2. KycMoves(r, u)
    BY DEF KycMoves
  <1>3. DOMAIN kycRecord' = KycUsers /\ \A w \in KycUsers : kycRecord'[w] = IF w = u THEN row ELSE kycRecord[w]
    BY <1>1 DEF KycTyped
  <1>4. ASSUME u \notin kycRaced', kycRecord[u] # None PROVE KycTells(kycLog, u, kycRecord[u].status)
    BY <1>2, <1>4, KycHad DEF KycOwes, KycAt
  <1>5. q.pc # "new" /\ q.pc # "done"
    OBVIOUS
  <1>6. KycAt(q, u)
    BY <1>5 DEF KycAt, Kyc!New, Kyc!Done
  <1>7. u \notin kycRaced' => KycOwes(q, u, row, kycLog)
    BY <1>4 DEF KycOwes
  <1>8. kycVerified[u] => KycApproved(kycLog, kycReq', u)
    BY KycStillApproved
  <1>9. \A s \in DOMAIN kycScreenings : kycRecord'[kycScreenings[s].user] \in Kyc!KYCRecord
    <2> SUFFICES ASSUME NEW s \in DOMAIN kycScreenings PROVE kycRecord'[kycScreenings[s].user] \in Kyc!KYCRecord
      OBVIOUS
    <2>1. kycScreenings[s].user \in KycUsers
      BY <1>1, KycScreened
    <2> QED BY <1>1, <1>3, <2>1 DEF KycTyped
  <1>10. KycStep(r, q, u)
    BY <1>1, <1>2, <1>3, <1>6, <1>7, <1>8, <1>9 DEF KycStep, KycTyped
  <1> QED BY <1>10, KycSteps

LEMMA KycLogInv ==
    ASSUME KycInv, NEW r \in Addr, Kyc!writeAuditLog(r)
    PROVE  KycInv'
  <1> DEFINE o == kycReq[r]
             u == o.user
             e == [user |-> u, action |-> o.action, status |-> o.status]
             d == Kyc!Done
             s == [pc |-> "screen", user |-> u]
             q == IF o.action = "kyc_submitted" THEN s ELSE d
  <1>1. KycTyped
    BY DEF KycInv
  <1>2. /\ o.pc = "log" /\ kycLog' = Append(kycLog, e) /\ kycReq' = [kycReq EXCEPT ![r] = q]
        /\ UNCHANGED <<kycRecord, kycVerified, kycScreenings, kycRaced>>
    BY DEF Kyc!writeAuditLog, Kyc!Goto
  <1>3. KycAsks(o, kycRecord)
    BY <1>1 DEF KycTyped
  <1>4. o # Kyc!New /\ o # Kyc!Done /\ u \in KycUsers
    BY <1>2, <1>3 DEF KycAsks, Kyc!New, Kyc!Done
  <1>5. e \in KycEntry /\ e.user = u
    BY <1>2, <1>3, <1>4 DEF KycAsks, KycEntry
  <1>6. KycMoves(r, u)
    BY <1>2, <1>4 DEF KycMoves, KycAt
  <1>7. (q = d \/ q.user = u) /\ q.pc \in {"done", "screen"} /\ KycAsks(q, kycRecord)
    BY <1>2, <1>3, <1>4 DEF KycAsks, Kyc!Done
  <1>8. (Kyc!SetsStatus(e, u) <=> Kyc!SetsStatus(o, u)) /\ Kyc!LoggedStatus(e) = Kyc!LoggedStatus(o)
    BY DEF Kyc!SetsStatus, Kyc!LoggedStatus
  <1>9. kycLog \in Seq(KycEntry)
    BY <1>1 DEF KycTyped
  <1> HIDE DEF e, q
  <1>10. ASSUME u \notin kycRaced', kycRecord[u] # None PROVE KycTells(kycLog', u, kycRecord[u].status)
    <2>1. KycOwes(o, u, kycRecord[u], kycLog)
      BY <1>4, <1>6, <1>10, KycHad
    <2>2. CASE Kyc!SetsStatus(e, u)
      BY <1>2, <1>5, <1>8, <1>9, <2>1, <2>2, KycAppended DEF KycOwes
    <2>3. CASE ~Kyc!SetsStatus(e, u)
      BY <1>2, <1>5, <1>8, <1>9, <2>1, <2>3, KycAppended DEF KycOwes
    <2> QED BY <2>2, <2>3
  <1>11. u \notin kycRaced' /\ kycRecord[u] # None =>
            IF KycAt(q, u) THEN KycOwes(q, u, kycRecord[u], kycLog') ELSE KycTells(kycLog', u, kycRecord[u].status)
    BY <1>7, <1>10 DEF KycOwes
  <1>12. ASSUME kycVerified[u] PROVE KycApproved(kycLog', kycReq', u)
    <2>1. DOMAIN kycReq = Addr /\ KycApproved(kycLog, kycReq, u)
      BY <1>1, <1>4, <1>12 DEF KycInv, KycTyped
    <2>2. /\ \A k \in DOMAIN kycLog : k \in DOMAIN kycLog' /\ kycLog'[k] = kycLog[k]
          /\ \E k \in DOMAIN kycLog' : kycLog'[k] = e
      BY <1>2, <1>5, <1>9, KycAppended
    <2>3. KycLogging(o, u) => e.status = "approved"
      BY DEF KycLogging, e
    <2>4. \A p \in Addr : p # r => kycReq'[p] = kycReq[p]
      BY <1>2, <2>1
    <2>5. CASE \E k \in DOMAIN kycLog : kycLog[k].user = u /\ kycLog[k].status = "approved"
      BY <2>2, <2>5 DEF KycApproved
    <2>6. ASSUME NEW p \in Addr, KycLogging(kycReq[p], u) PROVE KycApproved(kycLog', kycReq', u)
      <3>1. CASE p = r
        BY <1>5, <2>2, <2>3, <2>6, <3>1 DEF KycApproved
      <3>2. CASE p # r
        BY <2>4, <2>6, <3>2 DEF KycApproved
      <3> QED BY <3>1, <3>2
    <2> QED BY <2>1, <2>5, <2>6 DEF KycApproved
  <1>13. KycStep(r, q, u)
    BY <1>1, <1>2, <1>4, <1>5, <1>6, <1>7, <1>11, <1>12 DEF KycStep, KycTyped
  <1> QED BY <1>4, <1>13, KycSteps

LEMMA KycCreateInv ==
    ASSUME KycInv, NEW r \in Addr, Kyc!CreateRecord(r)
    PROVE  KycInv'
  <1> DEFINE o == kycReq[r]
             u == o.user
             d == Kyc!Done
             row == [status |-> "pending", aml |-> FALSE]
             q == Kyc!ToLog(u, "kyc_submitted", "pending")
  <1>1. KycTyped
    BY DEF KycInv
  <1>2. o.pc = "create" /\ UNCHANGED <<kycVerified, kycScreenings, kycLog, kycRaced>>
    BY DEF Kyc!CreateRecord
  <1>3. o # Kyc!New /\ o # Kyc!Done /\ u \in KycUsers
    BY <1>1, <1>2 DEF KycTyped, KycAsks, Kyc!New, Kyc!Done
  <1>4. KycAt(o, u) /\ KycMoves(r, u)
    BY <1>2, <1>3 DEF KycMoves, KycAt
  <1>5. CASE kycRecord' = [kycRecord EXCEPT ![u] = row] /\ kycReq' = [kycReq EXCEPT ![r] = q]
    <2>1. row \in Kyc!KYCRecord /\ row.status = "pending"
      BY DEF Kyc!KYCRecord, Kyc!Statuses
    <2>2. q.pc = "log" /\ q.user = u /\ q.action = "kyc_submitted" /\ q.status = "pending"
      BY DEF Kyc!ToLog
    <2>3. Kyc!SetsStatus(q, u) /\ Kyc!LoggedStatus(q) = "pending"
      BY <2>2 DEF Kyc!SetsStatus, Kyc!LoggedStatus, Kyc!Statuses
    <2> HIDE DEF q, row
    <2>4. kycRecord'[u] = row
      BY <1>1, <1>3, <1>5 DEF KycTyped
    <2>5. KycAsks(q, kycRecord')
      <3>1. q.action \in KycActions /\ q.status \in KycWords
        BY <2>2 DEF KycActions, KycWords
      <3> QED BY <1>3, <2>1, <2>2, <2>4, <3>1, KycLogAsks
    <2>6. KycWrites(r, q, u, row)
      BY <1>2, <1>4, <1>5, <2>1, <2>2, <2>3, <2>5 DEF KycWrites
    <2> QED BY <1>3, <2>6, KycWritesInv
  <1>6. CASE kycRecord' = kycRecord /\ kycReq' = [kycReq EXCEPT ![r] = d]
    <2>1. KycAsks(d, kycRecord) /\ d.pc = "done"
      BY DEF KycAsks, Kyc!Done
    <2>2. KycQuiet(r, d, u)
      BY <1>1, <1>2, <1>4, <1>6, <2>1 DEF KycQuiet, KycTyped
    <2> QED BY <1>3, <2>2, KycQuietInv
  <1> QED BY <1>5, <1>6 DEF Kyc!CreateRecord, Kyc!Goto

\* The steps that write the record and then log what they wrote.
LEMMA KycScreeningErrorInv ==
    ASSUME KycInv, NEW r \in Addr, Kyc!ScreeningError(r)
    PROVE  KycInv'
  <1> DEFINE o == kycReq[r]
             u == o.user
             row == [kycRecord[u] EXCEPT !.status = "review"]
             q == Kyc!ToLog(u, "aml_screening_error", "review")
  <1>1. KycTyped
    BY DEF KycInv
  <1>2. /\ o.pc = "screen" /\ UNCHANGED <<kycVerified, kycScreenings, kycLog, kycRaced>>
        /\ kycRecord' = [kycRecord EXCEPT ![u] = row] /\ kycReq' = [kycReq EXCEPT ![r] = q]
    BY DEF Kyc!ScreeningError, Kyc!Goto
  <1>3. o # Kyc!New /\ o # Kyc!Done /\ u \in KycUsers /\ kycRecord[u] \in Kyc!KYCRecord
    BY <1>1, <1>2 DEF KycTyped, KycAsks, Kyc!New, Kyc!Done
  <1>4. KycAt(o, u)
    BY <1>3 DEF KycAt
  <1>5. row \in Kyc!KYCRecord /\ row.status = "review"
    BY <1>3 DEF Kyc!KYCRecord, Kyc!Statuses
  <1>6. q.pc = "log" /\ q.user = u /\ q.action = "aml_screening_error" /\ q.status = "review"
    BY DEF Kyc!ToLog
  <1>7. Kyc!SetsStatus(q, u) /\ Kyc!LoggedStatus(q) = "review" /\ KycAsks(q, kycRecord')
    <2>1. q.action \in KycActions /\ q.status \in KycWords /\ q.action # "kyc_submitted"
      BY <1>6 DEF KycActions, KycWords
    <2> HIDE DEF q
    <2> QED BY <1>3, <1>6, <2>1, KycLogAsks DEF Kyc!SetsStatus, Kyc!LoggedStatus, Kyc!Statuses
  <1> HIDE DEF q, row
  <1>8. KycWrites(r, q, u, row)
    BY <1>2, <1>4, <1>5, <1>6, <1>7 DEF KycWrites
  <1> QED BY <1>3, <1>8, KycWritesInv

LEMMA KycApplyScreeningInv ==
    ASSUME KycInv, NEW r \in Addr, Kyc!ApplyScreening(r)
    PROVE  KycInv'
  <1> DEFINE o == kycReq[r]
             u == o.user
             row == Kyc!AfterScreening(kycRecord[u], o.status)
             q == Kyc!ToLog(u, "aml_screened", o.status)
  <1>1. KycTyped
    BY DEF KycInv
  <1>2. /\ o.pc = "screened" /\ UNCHANGED <<kycVerified, kycScreenings, kycLog, kycRaced>>
        /\ kycRecord' = [kycRecord EXCEPT ![u] = row] /\ kycReq' = [kycReq EXCEPT ![r] = q]
    BY DEF Kyc!ApplyScreening, Kyc!Goto
  <1>3. /\ o # Kyc!New /\ o # Kyc!Done /\ u \in KycUsers /\ kycRecord[u] \in Kyc!KYCRecord
        /\ o.status \in {"clear", "flagged"}
    BY <1>1, <1>2 DEF KycTyped, KycAsks, Kyc!New, Kyc!Done
  <1>4. KycAt(o, u)
    BY <1>3 DEF KycAt
  <1>5. row \in Kyc!KYCRecord /\ row.status = IF o.status = "clear" THEN kycRecord[u].status ELSE "review"
    <2>1. CASE o.status = "clear"
      BY <1>3, <2>1 DEF Kyc!KYCRecord, Kyc!Statuses, Kyc!AfterScreening
    <2>2. CASE o.status = "flagged"
      <3> DEFINE n == [kycRecord[u] EXCEPT !.aml = FALSE]
      <3>1. n \in Kyc!KYCRecord
        BY <1>3 DEF Kyc!KYCRecord, Kyc!Statuses
      <3>2. row = [n EXCEPT !.status = "review"]
        BY <2>2 DEF Kyc!AfterScreening
      <3> HIDE DEF n, row
      <3> QED BY <2>2, <3>1, <3>2 DEF Kyc!KYCRecord, Kyc!Statuses
    <2> QED BY <1>3, <2>1, <2>2
  <1>6. q.pc = "log" /\ q.user = u /\ q.action = "aml_screened" /\ q.status = o.status
    BY DEF Kyc!ToLog
  <1>7. Kyc!SetsStatus(q, u) <=> o.status = "flagged"
    BY <1>3, <1>6 DEF Kyc!SetsStatus, Kyc!Statuses
  <1>8. KycAsks(q, kycRecord') /\ (o.status = "flagged" => Kyc!LoggedStatus(q) = "review")
    <2>1. q.action \in KycActions /\ q.status \in KycWords /\ q.action # "kyc_submitted"
      BY <1>3, <1>6 DEF KycActions, KycWords
    <2> HIDE DEF q
    <2> QED BY <1>3, <1>6, <2>1, KycLogAsks DEF Kyc!LoggedStatus
  <1>9. kycRecord[u] # None
    BY <1>3, ComplianceAssumption
  <1> HIDE DEF q, row
  <1>10. KycWrites(r, q, u, row)
    BY <1>2, <1>3, <1>4, <1>5, <1>6, <1>7, <1>8, <1>9 DEF KycWrites
  <1> QED BY <1>3, <1>10, KycWritesInv

LEMMA KycTakeInv ==
    ASSUME KycInv, NEW r \in Addr, Kyc!TakeResult(r)
    PROVE  KycInv'
  <1> DEFINE o == kycReq[r]
             u == o.user
             row == o.result
             v == [o EXCEPT !.pc = "verify"]
             l == Kyc!ToLog(u, o.action, o.result.status)
             q == IF row.status = "approved" THEN v ELSE l
  <1>1. KycTyped
    BY DEF KycInv
  <1>2. /\ o.pc = "take" /\ UNCHANGED <<kycVerified, kycScreenings, kycLog, kycRaced>>
        /\ kycRecord' = [kycRecord EXCEPT ![u] = row] /\ kycReq' = [kycReq EXCEPT ![r] = q]
    BY DEF Kyc!TakeResult, Kyc!Goto
  <1>3. o # Kyc!New /\ o # Kyc!Done /\ o \in KycTake
    BY <1>1, <1>2 DEF KycTyped, KycAsks, Kyc!New, Kyc!Done
  <1>4. u \in KycUsers /\ row \in Kyc!KYCRecord /\ o.action \in {"status_changed", "webhook_status_update"} /\ KycAt(o, u)
    BY <1>3 DEF KycAt, KycTake
  <1>5. v.pc = "verify" /\ v.user = u /\ v.action = o.action
    BY <1>3 DEF KycTake
  <1>6. l.pc = "log" /\ l.user = u /\ l.action = o.action /\ l.status = row.status
    BY DEF Kyc!ToLog
  <1>7. row.status \in Kyc!Statuses
    BY <1>4 DEF Kyc!KYCRecord
  <1>8. Kyc!SetsStatus(l, u) /\ Kyc!LoggedStatus(l) = row.status
    BY <1>4, <1>6, <1>7 DEF Kyc!SetsStatus, Kyc!LoggedStatus, Kyc!Statuses
  <1>9. kycRecord'[u] = row
    BY <1>1, <1>2, <1>4 DEF KycTyped
  <1> HIDE DEF v, l, row
  <1>10. KycAsks(v, kycRecord') /\ KycAsks(l, kycRecord')
    <2>1. KycAsks(v, kycRecord')
      BY <1>4, <1>5, <1>9 DEF KycAsks
    <2>2. l.action \in KycActions /\ l.status \in KycWords /\ l.action # "kyc_submitted"
      BY <1>4, <1>6, <1>7 DEF KycActions, KycWords, Kyc!Statuses
    <2>3. KycAsks(l, kycRecord')
      BY <1>4, <1>6, <2>2, KycLogAsks
    <2> QED BY <2>1, <2>3
  <1>11. KycWrites(r, q, u, row)
    BY <1>2, <1>4, <1>5, <1>6, <1>8, <1>10 DEF KycWrites
  <1> HIDE DEF q
  <1> QED BY <1>4, <1>11, KycWritesInv

LEMMA KycReviewInv ==
    ASSUME KycInv, NEW r \in Addr, Kyc!ApplyReview(r)
    PROVE  KycInv'
  <1> DEFINE o == kycReq[r]
             u == o.user
             row == IF o.cleared THEN [kycRecord[u] EXCEPT !.aml = TRUE] ELSE [status |-> "rejected", aml |-> FALSE]
             q == Kyc!ToLog(u, "aml_review_resolved", IF o.cleared THEN "clear" ELSE "rejected")
  <1>1. KycTyped
    BY DEF KycInv
  <1>2. /\ o.pc = "resolve" /\ UNCHANGED <<kycVerified, kycScreenings, kycLog, kycRaced>>
        /\ kycRecord' = [kycRecord EXCEPT ![u] = row] /\ kycReq' = [kycReq EXCEPT ![r] = q]
    BY DEF Kyc!ApplyReview, Kyc!Goto
  <1>3. /\ o # Kyc!New /\ o # Kyc!Done /\ u \in KycUsers /\ kycRecord[u] \in Kyc!KYCRecord
        /\ o.cleared \in BOOLEAN
    BY <1>1, <1>2 DEF KycTyped, KycAsks, Kyc!New, Kyc!Done
  <1>4. KycAt(o, u)
    BY <1>3 DEF KycAt
  <1>5. row \in Kyc!KYCRecord /\ row.status = IF o.cleared THEN kycRecord[u].status ELSE "rejected"
    <2>1. CASE o.cleared
      BY <1>3, <2>1 DEF Kyc!KYCRecord, Kyc!Statuses
    <2>2. CASE ~o.cleared
      BY <2>2 DEF Kyc!KYCRecord, Kyc!Statuses
    <2> QED BY <2>1, <2>2
  <1>6. q.pc = "log" /\ q.user = u /\ q.action = "aml_review_resolved" /\ q.status = IF o.cleared THEN "clear" ELSE "rejected"
    BY DEF Kyc!ToLog
  <1>7. Kyc!SetsStatus(q, u) <=> ~o.cleared
    BY <1>6 DEF Kyc!SetsStatus, Kyc!Statuses
  <1>8. KycAsks(q, kycRecord') /\ (~o.cleared => Kyc!LoggedStatus(q) = "rejected")
    <2>1. q.action \in KycActions /\ q.status \in KycWords /\ q.action # "kyc_submitted"
      BY <1>6 DEF KycActions, KycWords
    <2> HIDE DEF q
    <2> QED BY <1>3, <1>6, <2>1, KycLogAsks DEF Kyc!LoggedStatus
  <1>9. kycRecord[u] # None
    BY <1>3, ComplianceAssumption
  <1> HIDE DEF q, row
  <1>10. KycWrites(r, q, u, row)
    BY <1>2, <1>3, <1>4, <1>5, <1>6, <1>7, <1>8, <1>9 DEF KycWrites
  <1> QED BY <1>3, <1>10, KycWritesInv

LEMMA KycVerifyInv ==
    ASSUME KycInv, NEW r \in Addr, Kyc!MarkVerified(r)
    PROVE  KycInv'
  <1> DEFINE o == kycReq[r]
             u == o.user
             q == Kyc!ToLog(u, o.action, "approved")
  <1>1. KycTyped
    BY DEF KycInv
  <1>2. /\ o.pc = "verify" /\ UNCHANGED <<kycRecord, kycScreenings, kycLog, kycRaced>>
        /\ kycVerified' = [kycVerified EXCEPT ![u] = TRUE] /\ kycReq' = [kycReq EXCEPT ![r] = q]
    BY DEF Kyc!MarkVerified, Kyc!Goto
  <1>3. /\ o # Kyc!New /\ o # Kyc!Done /\ u \in KycUsers
        /\ o.action \in {"status_changed", "webhook_status_update"}
    BY <1>1, <1>2 DEF KycTyped, KycAsks, Kyc!New, Kyc!Done
  <1>4. KycAt(o, u) /\ KycMoves(r, u)
    BY <1>2, <1>3 DEF KycAt, KycMoves
  <1>5. q.pc = "log" /\ q.user = u /\ q.action = o.action /\ q.status = "approved"
    BY DEF Kyc!ToLog
  <1>6. Kyc!SetsStatus(q, u) /\ Kyc!LoggedStatus(q) = "approved" /\ KycAsks(q, kycRecord)
    <2>1. q.action \in KycActions /\ q.status \in KycWords /\ q.action # "kyc_submitted"
      BY <1>3, <1>5 DEF KycActions, KycWords
    <2>2. q.action # "document_uploaded"
      BY <1>3, <1>5
    <2> HIDE DEF q
    <2> QED BY <1>3, <1>5, <2>1, <2>2, KycLogAsks DEF Kyc!SetsStatus, Kyc!LoggedStatus, Kyc!Statuses
  <1>7. u \notin kycRaced' /\ kycRecord[u] # None => kycRecord[u].status = "approved"
    BY <1>2, <1>3, <1>4, KycHad DEF KycOwes
  <1> HIDE DEF q
  <1>8. KycAt(q, u)
    BY <1>5 DEF KycAt, Kyc!New, Kyc!Done
  <1>9. u \notin kycRaced' /\ kycRecord[u] # None => KycOwes(q, u, kycRecord[u], kycLog)
    BY <1>5, <1>6, <1>7 DEF KycOwes
  <1>10. KycApproved(kycLog, kycReq', u)
    <2>1. kycReq'[r] = q
      BY <1>1, <1>2 DEF KycTyped
    <2> QED BY <1>5, <2>1 DEF KycApproved, KycLogging
  <1>11. kycVerified' \in [KycUsers -> BOOLEAN] /\ \A w \in KycUsers \ {u} : kycVerified'[w] = kycVerified[w]
    BY <1>1, <1>2 DEF KycTyped
  <1>12. KycStep(r, q, u)
    <2>1. /\ DOMAIN kycRecord' = KycUsers /\ \A w \in KycUsers \ {u} : kycRecord'[w] = kycRecord[w]
          /\ kycRecord'[u] = None \/ kycRecord'[u] \in Kyc!KYCRecord
          /\ kycRecord[u] \in Kyc!KYCRecord => kycRecord'[u] \in Kyc!KYCRecord
          /\ kycScreenings' \in Seq(KycScreening)
          /\ \A s \in DOMAIN kycScreenings' : kycRecord'[kycScreenings'[s].user] \in Kyc!KYCRecord
      BY <1>1, <1>2, <1>3 DEF KycTyped
    <2>2. u \notin kycRaced' /\ kycRecord'[u] # None =>
            IF KycAt(q, u) THEN KycOwes(q, u, kycRecord'[u], kycLog') ELSE KycTells(kycLog', u, kycRecord'[u].status)
      BY <1>2, <1>8, <1>9
    <2>3. KycAsks(q, kycRecord') /\ kycLog' = kycLog
      BY <1>2, <1>6
    <2> QED BY <1>2, <1>4, <1>5, <1>10, <1>11, <2>1, <2>2, <2>3 DEF KycStep
  <1> QED BY <1>3, <1>12, KycSteps

LEMMA KycStoreInv ==
    ASSUME KycInv, NEW r \in Addr, NEW hits, Kyc!StoreScreening(r, hits)
    PROVE  KycInv'
  <1> DEFINE o == kycReq[r]
             u == o.user
             n == [user |-> u, status |-> Kyc!Screen(hits)]
             q == [pc |-> "screened", user |-> u, status |-> Kyc!Screen(hits)]
  <1>1. KycTyped
    BY DEF KycInv
  <1>2. /\ o.pc = "screen" /\ UNCHANGED <<kycRecord, kycVerified, kycLog, kycRaced>>
        /\ kycScreenings' = Append(kycScreenings, n) /\ kycReq' = [kycReq EXCEPT ![r] = q]
    BY DEF Kyc!StoreScreening, Kyc!Goto
  <1>3. o # Kyc!New /\ o # Kyc!Done /\ u \in KycUsers /\ kycRecord[u] \in Kyc!KYCRecord
    BY <1>1, <1>2 DEF KycTyped, KycAsks, Kyc!New, Kyc!Done
  <1>4. KycMoves(r, u)
    BY <1>2, <1>3 DEF KycAt, KycMoves
  <1>5. n \in KycScreening /\ n.user = u /\ q.pc = "screened" /\ q.user = u /\ q.status \in {"clear", "flagged"}
    BY <1>3 DEF KycScreening, Kyc!Screen
  <1> HIDE DEF n, q
  <1>6. /\ kycScreenings' \in Seq(KycScreening)
        /\ \A s \in DOMAIN kycScreenings' : kycScreenings'[s] = n \/ (s \in DOMAIN kycScreenings /\ kycScreenings'[s] = kycScreenings[s])
    <2> DEFINE S == KycScreening
    <2>1. kycScreenings \in Seq(S) /\ n \in S
      BY <1>1, <1>5 DEF KycTyped
    <2> HIDE DEF S
    <2>2. kycScreenings' \in Seq(S)
      BY <1>2, <2>1
    <2>3. \A s \in DOMAIN kycScreenings' : kycScreenings'[s] = n \/ (s \in DOMAIN kycScreenings /\ kycScreenings'[s] = kycScreenings[s])
      BY <1>2, <2>1
    <2> QED BY <2>2, <2>3 DEF S
  <1>7. \A s \in DOMAIN kycScreenings' : kycRecord[kycScreenings'[s].user] \in Kyc!KYCRecord
    BY <1>1, <1>3, <1>5, <1>6 DEF KycTyped
  <1>8. KycAsks(q, kycRecord)
    BY <1>3, <1>5 DEF KycAsks
  <1>9. KycQuiet(r, q, u)
    BY <1>2, <1>4, <1>5, <1>6, <1>7, <1>8 DEF KycQuiet
  <1> QED BY <1>3, <1>9, KycQuietInv

\* A request that takes up a user, and writes neither record nor log.
LEMMA KycBeginInv ==
    ASSUME KycInv, NEW r \in Addr, NEW u \in KycUsers, NEW q, Kyc!Begin(r, u, q),
           q.user = u, KycAsks(q, kycRecord), q.pc # "verify", ~(q.pc = "log" /\ Kyc!SetsStatus(q, u)),
           UNCHANGED <<kycRecord, kycVerified, kycLog>>,
           kycScreenings' \in Seq(KycScreening),
           \A s \in DOMAIN kycScreenings' : kycRecord[kycScreenings'[s].user] \in Kyc!KYCRecord
    PROVE  KycInv'
  <1>1. kycReq[r] = Kyc!New /\ KycMoves(r, u) /\ kycReq' = [kycReq EXCEPT ![r] = q]
    BY DEF Kyc!Begin, KycMoves
  <1>2. kycReq[r].pc \notin {"verify", "log"}
    BY <1>1 DEF Kyc!New
  <1>3. KycQuiet(r, q, u)
    BY <1>1, <1>2 DEF KycQuiet
  <1> QED BY <1>3, KycQuietInv

LEMMA KycRequestsInv ==
    ASSUME KycInv, NEW r \in Addr, NEW u \in KycUsers,
           \/ Kyc!SubmitKYC(r, u) \/ Kyc!ScreenAML(r, u) \/ Kyc!UploadDocument(r, u)
           \/ \E w \in KycWorths : Kyc!VerifyAccreditedInvestor(r, u, w)
    PROVE  KycInv'
  <1> DEFINE c == [pc |-> "create", user |-> u]
             s == [pc |-> "screen", user |-> u]
             d == Kyc!ToLog(u, "document_uploaded", "pending")
             a == Kyc!ToLog(u, "accredited_investor_verified", "user")
  <1>1. KycTyped
    BY DEF KycInv
  <1>2. UNCHANGED <<kycRecord, kycVerified, kycLog, kycScreenings>>
    BY DEF Kyc!SubmitKYC, Kyc!ScreenAML, Kyc!UploadDocument, Kyc!VerifyAccreditedInvestor
  <1>3. kycScreenings' \in Seq(KycScreening) /\ \A k \in DOMAIN kycScreenings' : kycRecord[kycScreenings'[k].user] \in Kyc!KYCRecord
    BY <1>1, <1>2 DEF KycTyped
  <1>4. kycRecord[u] # None => kycRecord[u] \in Kyc!KYCRecord
    BY <1>1 DEF KycTyped
  <1>5. CASE Kyc!SubmitKYC(r, u)
    <2>1. Kyc!Begin(r, u, c) /\ c.pc = "create" /\ c.user = u
      BY <1>5 DEF Kyc!SubmitKYC
    <2>2. KycAsks(c, kycRecord)
      BY DEF KycAsks
    <2> HIDE DEF c
    <2> QED BY <1>2, <1>3, <2>1, <2>2, KycBeginInv
  <1>6. CASE Kyc!ScreenAML(r, u)
    <2>1. Kyc!Begin(r, u, s) /\ s.pc = "screen" /\ s.user = u /\ kycRecord[u] # None
      BY <1>6 DEF Kyc!ScreenAML
    <2>2. KycAsks(s, kycRecord)
      BY <1>4, <2>1 DEF KycAsks
    <2> HIDE DEF s
    <2> QED BY <1>2, <1>3, <2>1, <2>2, KycBeginInv
  <1>7. CASE Kyc!UploadDocument(r, u)
    <2>1. Kyc!Begin(r, u, d) /\ d.pc = "log" /\ d.user = u /\ d.action = "document_uploaded" /\ d.status = "pending"
      BY <1>7 DEF Kyc!UploadDocument, Kyc!ToLog
    <2> HIDE DEF d
    <2>2. KycAsks(d, kycRecord) /\ ~Kyc!SetsStatus(d, u)
      <3>1. d.action \in KycActions /\ d.status \in KycWords /\ d.action # "kyc_submitted"
        BY <2>1 DEF KycActions, KycWords
      <3> QED BY <2>1, <3>1, KycLogAsks DEF Kyc!SetsStatus
    <2> QED BY <1>2, <1>3, <2>1, <2>2, KycBeginInv
  <1>8. CASE \E w \in KycWorths : Kyc!VerifyAccreditedInvestor(r, u, w)
    <2>1. Kyc!Begin(r, u, a) /\ a.pc = "log" /\ a.user = u /\ a.action = "accredited_investor_verified" /\ a.status = "user"
      BY <1>8 DEF Kyc!VerifyAccreditedInvestor, Kyc!ToLog
    <2> HIDE DEF a
    <2>2. KycAsks(a, kycRecord) /\ ~Kyc!SetsStatus(a, u)
      <3>1. a.action \in KycActions /\ a.status \in KycWords /\ a.action # "kyc_submitted"
        BY <2>1 DEF KycActions, KycWords
      <3> QED BY <2>1, <3>1, KycLogAsks DEF Kyc!SetsStatus, Kyc!Statuses
    <2> QED BY <1>2, <1>3, <2>1, <2>2, KycBeginInv
  <1> QED BY <1>5, <1>6, <1>7, <1>8

\* The answer of the provider, asked for or sent.
LEMMA KycAnswerInv ==
    ASSUME KycInv, NEW r \in Addr, NEW u \in KycUsers,
           \/ Kyc!GetKYCStatus(r, u)
           \/ \E result \in [status : {"pending", "approved", "rejected"}, aml : BOOLEAN] : Kyc!HandleKYCWebhook(r, u, result)
    PROVE  KycInv'
  <1>1. KycTyped
    BY DEF KycInv
  <1>2. UNCHANGED <<kycRecord, kycVerified, kycLog, kycScreenings>> /\ kycRecord[u] # None
    BY DEF Kyc!GetKYCStatus, Kyc!HandleKYCWebhook
  <1>3. kycScreenings' \in Seq(KycScreening) /\ \A k \in DOMAIN kycScreenings' : kycRecord[kycScreenings'[k].user] \in Kyc!KYCRecord
    BY <1>1, <1>2 DEF KycTyped
  <1>4. kycRecord[u] \in Kyc!KYCRecord
    BY <1>1, <1>2 DEF KycTyped
  <1>5. Kyc!GetVerificationStatus \subseteq Kyc!KYCRecord
        /\ [status : {"pending", "approved", "rejected"}, aml : BOOLEAN] \subseteq Kyc!KYCRecord
    BY DEF Kyc!GetVerificationStatus, Kyc!KYCRecord, Kyc!Statuses
  <1>6. PICK result \in Kyc!KYCRecord, action \in {"status_changed", "webhook_status_update"} :
            Kyc!Begin(r, u, [pc |-> "take", user |-> u, action |-> action, result |-> result])
    BY <1>5 DEF Kyc!GetKYCStatus, Kyc!HandleKYCWebhook
  <1> DEFINE q == [pc |-> "take", user |-> u, action |-> action, result |-> result]
  <1>7. q \in KycTake /\ q.pc = "take" /\ q.user = u
    BY DEF KycTake
  <1>8. Kyc!Begin(r, u, q)
    BY <1>6
  <1> HIDE DEF q
  <1>9. KycAsks(q, kycRecord)
    BY <1>4, <1>7 DEF KycAsks
  <1> QED BY <1>2, <1>3, <1>7, <1>8, <1>9, KycBeginInv

LEMMA KycResolveInv ==
    ASSUME KycInv, NEW r \in Addr, NEW s \in DOMAIN kycScreenings, NEW cleared \in BOOLEAN,
           Kyc!ResolveAMLReview(r, s, cleared)
    PROVE  KycInv'
  <1> DEFINE u == kycScreenings[s].user
             t == IF cleared THEN "clear" ELSE "flagged"
             n == [kycScreenings[s] EXCEPT !.status = t]
             q == [pc |-> "resolve", user |-> u, cleared |-> cleared]
  <1>1. KycTyped
    BY DEF KycInv
  <1>2. /\ Kyc!Begin(r, u, q) /\ UNCHANGED <<kycRecord, kycVerified, kycLog>>
        /\ kycScreenings' = [kycScreenings EXCEPT ![s] = n]
    BY DEF Kyc!ResolveAMLReview
  <1>3. kycScreenings[s] \in KycScreening /\ u \in KycUsers /\ kycRecord[u] \in Kyc!KYCRecord
    BY <1>1, KycScreened DEF KycTyped
  <1>4. n \in KycScreening /\ n.user = u
    <2>1. t \in {"clear", "flagged"}
      OBVIOUS
    <2> HIDE DEF t
    <2> QED BY <1>3, <2>1 DEF KycScreening
  <1>5. q.pc = "resolve" /\ q.user = u /\ q.cleared \in BOOLEAN
    OBVIOUS
  <1> HIDE DEF n, q
  <1>6. /\ kycScreenings' \in Seq(KycScreening)
        /\ \A k \in DOMAIN kycScreenings' : k \in DOMAIN kycScreenings /\ kycScreenings'[k] = IF k = s THEN n ELSE kycScreenings[k]
    <2> DEFINE S == KycScreening
    <2>1. kycScreenings \in Seq(S) /\ n \in S
      BY <1>1, <1>4 DEF KycTyped
    <2> HIDE DEF S
    <2>2. kycScreenings' \in Seq(S)
      BY <1>2, <2>1
    <2>3. \A k \in DOMAIN kycScreenings' : k \in DOMAIN kycScreenings /\ kycScreenings'[k] = IF k = s THEN n ELSE kycScreenings[k]
      BY <1>2, <2>1
    <2> QED BY <2>2, <2>3 DEF S
  <1>7. \A k \in DOMAIN kycScreenings' : kycRecord[kycScreenings'[k].user] \in Kyc!KYCRecord
    BY <1>1, <1>3, <1>4, <1>6 DEF KycTyped
  <1>8. KycAsks(q, kycRecord)
    BY <1>3, <1>5 DEF KycAsks
  <1> QED BY <1>2, <1>3, <1>5, <1>6, <1>7, <1>8, KycBeginInv

LEMMA KycInvNext == KycInv /\ [Kyc!Next]_(Kyc!vars) => KycInv'
  <1> SUFFICES ASSUME KycInv, [Kyc!Next]_(Kyc!vars) PROVE KycInv'
    OBVIOUS
  <1>1. ASSUME NEW r \in Addr,
               \/ Kyc!CreateRecord(r) \/ Kyc!writeAuditLog(r) \/ Kyc!ScreeningError(r) \/ Kyc!ApplyScreening(r)
               \/ Kyc!TakeResult(r) \/ Kyc!MarkVerified(r) \/ Kyc!ApplyReview(r)
        PROVE  KycInv'
    BY <1>1, KycCreateInv, KycLogInv, KycScreeningErrorInv, KycApplyScreeningInv, KycTakeInv, KycVerifyInv, KycReviewInv
  <1>2. ASSUME NEW r \in Addr, NEW u \in KycUsers,
               Kyc!SubmitKYC(r, u) \/ Kyc!ScreenAML(r, u) \/ Kyc!GetKYCStatus(r, u) \/ Kyc!UploadDocument(r, u)
        PROVE  KycInv'
    BY <1>2, KycRequestsInv, KycAnswerInv
  <1>3. ASSUME NEW r \in Addr, NEW hits \in KycMatchLists, Kyc!StoreScreening(r, hits) PROVE KycInv'
    BY <1>3, KycStoreInv
  <1>4. ASSUME NEW r \in Addr, NEW u \in KycUsers, NEW w \in KycWorths, Kyc!VerifyAccreditedInvestor(r, u, w) PROVE KycInv'
    BY <1>4, KycRequestsInv
  <1>5. ASSUME NEW r \in Addr, NEW u \in KycUsers,
               NEW result \in [status : {"pending", "approved", "rejected"}, aml : BOOLEAN], Kyc!HandleKYCWebhook(r, u, result)
        PROVE  KycInv'
    BY <1>5, KycAnswerInv
  <1>6. ASSUME NEW r \in Addr, NEW s \in DOMAIN kycScreenings, NEW cleared \in BOOLEAN, Kyc!ResolveAMLReview(r, s, cleared)
        PROVE  KycInv'
    BY <1>6, KycResolveInv
  <1>7. CASE UNCHANGED Kyc!vars
    <2>1. UNCHANGED <<kycRecord, kycVerified, kycScreenings, kycLog, kycReq, kycRaced>>
      BY <1>7 DEF Kyc!vars
    <2>2. KycTyped' <=> KycTyped
      BY <2>1 DEF KycTyped
    <2> QED BY <2>1, <2>2 DEF KycInv
  <1> QED BY <1>1, <1>2, <1>3, <1>4, <1>5, <1>6, <1>7 DEF Kyc!Next

(***************************************************************************)
(* Beneficial owners.  A request that has read the list it is about to     *)
(* extend, and read all of it, knows that its share fits; a declaration    *)
(* that is decided has an entry that says so, or one on its way.           *)
(***************************************************************************)
OwnRow == [percent : Int, status : {"declared", "verified", "rejected"}, verified : BOOLEAN]
OwnEntry == [action : {"ubo_declared", "ubo_review_resolved", "ubo_document_uploaded"}, owner : Nat,
             status : {"declared", "verified", "rejected", "uploaded"}]

OwnAsks(q, rows) ==
    /\ q.pc = "create" =>
        /\ q.percent \in Int /\ q.seen \in Nat /\ q.seen <= Len(rows)
        /\ q.seen = Len(rows) => Kyc!Total(rows) + q.percent <= KycWhole
    /\ q.pc = "log" => [action |-> q.action, owner |-> q.owner, status |-> q.status] \in OwnEntry

OwnDeciding(q, i) == q.pc = "log" /\ q.owner = i /\ q.action = "ubo_review_resolved"

OwnNamed(lg, rs, i) ==
    \/ \E k \in DOMAIN lg : lg[k].owner = i /\ lg[k].action = "ubo_review_resolved"
    \/ \E r \in Addr : OwnDeciding(rs[r], i)

OwnTyped ==
    /\ kycOwners \in Seq(OwnRow) /\ kycOwnerLog \in Seq(OwnEntry)
    /\ DOMAIN kycOwnerReq = Addr
    /\ \A r \in Addr : OwnAsks(kycOwnerReq[r], kycOwners)

OwnInv ==
    /\ OwnTyped
    /\ kycOwnerRaced = {} => Kyc!Total(kycOwners) <= KycWhole
    /\ \A i \in DOMAIN kycOwners : kycOwners[i].status # "declared" => OwnNamed(kycOwnerLog, kycOwnerReq, i)

LEMMA OwnInvMeans == OwnInv => Kyc!OwnershipIsBounded
  <1> SUFFICES ASSUME OwnInv PROVE Kyc!OwnershipIsBounded
    OBVIOUS
  <1>1. \A i \in DOMAIN kycOwners \ Kyc!PendingReview(kycOwners) : kycOwners[i].status # "declared"
    BY DEF Kyc!PendingReview
  <1>2. \A i \in DOMAIN kycOwners \ Kyc!PendingReview(kycOwners) : OwnNamed(kycOwnerLog, kycOwnerReq, i)
    BY <1>1 DEF OwnInv
  <1> QED BY <1>2 DEF OwnInv, OwnNamed, OwnDeciding, Kyc!OwnershipIsBounded

LEMMA OwnSum == ASSUME NEW f, NEW S PROVE Kyc!SumFunctionOnSet(f, S) = SumFunctionOnSet(f, S)
  BY DEF Kyc!SumFunctionOnSet, Kyc!FoldFunctionOnSet, Kyc!MapThenFoldSet,
         SumFunctionOnSet, FoldFunctionOnSet, MapThenFoldSet

LEMMA OwnRows ==
    ASSUME NEW rows \in Seq(OwnRow)
    PROVE  /\ Len(rows) \in Nat /\ DOMAIN rows = 1..Len(rows) /\ IsFiniteSet(DOMAIN rows)
           /\ \A i \in DOMAIN rows : rows[i] \in OwnRow /\ rows[i].percent \in Int
           /\ Kyc!Total(rows) \in Int
  <1> DEFINE S == OwnRow
             f == [i \in DOMAIN rows |-> rows[i].percent]
  <1>1. Len(rows) \in Nat /\ DOMAIN rows = 1..Len(rows) /\ \A i \in DOMAIN rows : rows[i] \in S
    <2>1. rows \in Seq(S)
      OBVIOUS
    <2> HIDE DEF S
    <2> QED BY <2>1
  <1>2. \A i \in DOMAIN rows : rows[i].percent \in Int
    BY <1>1 DEF OwnRow
  <1>3. IsFiniteSet(DOMAIN rows)
    BY <1>1, FS_Interval
  <1>4. DOMAIN f = DOMAIN rows /\ \A i \in DOMAIN rows : f[i] \in Int
    BY <1>2
  <1> HIDE DEF f
  <1>5. SumFunctionOnSet(f, DOMAIN rows) \in Int
    BY <1>3, <1>4, SumInt
  <1>6. Kyc!Total(rows) = SumFunctionOnSet(f, DOMAIN rows)
    BY OwnSum DEF Kyc!Total, f
  <1> QED BY <1>1, <1>2, <1>3, <1>5, <1>6

\* One more share.
LEMMA OwnAdded ==
    ASSUME NEW rows \in Seq(OwnRow), NEW row \in OwnRow
    PROVE  /\ Append(rows, row) \in Seq(OwnRow) /\ Len(Append(rows, row)) = Len(rows) + 1
           /\ \A i \in DOMAIN rows : Append(rows, row)[i] = rows[i]
           /\ \A i \in DOMAIN Append(rows, row) : i \in DOMAIN rows \/ Append(rows, row)[i] = row
           /\ Kyc!Total(Append(rows, row)) = Kyc!Total(rows) + row.percent
  <1> DEFINE S == OwnRow
             n == Len(rows)
             m == Append(rows, row)
             f == [i \in DOMAIN rows |-> rows[i].percent]
             g == [i \in DOMAIN m |-> m[i].percent]
  <1>1. n \in Nat /\ DOMAIN rows = 1..n /\ IsFiniteSet(DOMAIN rows) /\ \A i \in DOMAIN rows : rows[i].percent \in Int
    BY OwnRows
  <1>2. /\ m \in Seq(S) /\ DOMAIN m = 1..(n + 1) /\ Len(m) = n + 1
        /\ m[n + 1] = row /\ \A i \in 1..n : m[i] = rows[i]
    <2>1. rows \in Seq(S) /\ row \in S
      OBVIOUS
    <2> HIDE DEF S
    <2> QED BY <2>1
  <1>3. row.percent \in Int
    BY DEF OwnRow
  <1> HIDE DEF n, m
  <1>4. 1..(n + 1) = 1..n \cup {n + 1} /\ n + 1 \notin 1..n
    BY <1>1
  <1>5. /\ \A i \in 1..n : f[i] = g[i] /\ f[i] \in Int /\ g[i] \in Int
        /\ g[n + 1] = row.percent
    BY <1>1, <1>2, <1>4
  <1>6. Kyc!Total(rows) = SumFunctionOnSet(f, 1..n) /\ Kyc!Total(m) = SumFunctionOnSet(g, 1..(n + 1))
    BY <1>1, <1>2, OwnSum DEF Kyc!Total
  <1> HIDE DEF f, g
  <1>7. SumFunctionOnSet(g, 1..n) = SumFunctionOnSet(f, 1..n)
    BY <1>1, <1>5, SumSame
  <1>8. SumFunctionOnSet(g, 1..n \cup {n + 1}) = SumFunctionOnSet(g, 1..n) + g[n + 1]
    <2> DEFINE D == 1..n
    <2>1. IsFiniteSet(D) /\ n + 1 \notin D
      BY <1>1, <1>4
    <2>2. \A s \in D \cup {n + 1} : g[s] \in Int
      BY <1>3, <1>5
    <2> HIDE DEF D
    <2>3. SumFunctionOnSet(g, D \cup {n + 1}) = SumFunctionOnSet(g, D) + g[n + 1]
      BY <2>1, <2>2, SumAdd
    <2> QED BY <2>3 DEF D
  <1>9. Kyc!Total(m) = Kyc!Total(rows) + row.percent
    BY <1>4, <1>5, <1>6, <1>7, <1>8
  <1>10. \A i \in DOMAIN m : i \in DOMAIN rows \/ m[i] = row
    BY <1>1, <1>2, <1>4
  <1> QED BY <1>1, <1>2, <1>9, <1>10 DEF m, n

\* A list with the same shares.
OwnKeeps(rows, old) ==
    /\ rows \in Seq(OwnRow) /\ Len(rows) = Len(old)
    /\ \A i \in DOMAIN old : rows[i].percent = old[i].percent

LEMMA OwnKept ==
    ASSUME NEW old \in Seq(OwnRow), NEW rows, OwnKeeps(rows, old)
    PROVE  /\ DOMAIN rows = DOMAIN old /\ Kyc!Total(rows) = Kyc!Total(old)
           /\ \A q : OwnAsks(q, old) => OwnAsks(q, rows)
  <1> DEFINE f == [i \in DOMAIN old |-> old[i].percent]
             g == [i \in DOMAIN rows |-> rows[i].percent]
  <1>1. DOMAIN rows = DOMAIN old
    BY OwnRows DEF OwnKeeps
  <1>2. f = g
    BY <1>1 DEF OwnKeeps
  <1>3. Kyc!Total(rows) = Kyc!Total(old)
    BY <1>1, <1>2 DEF Kyc!Total
  <1> QED BY <1>1, <1>3 DEF OwnAsks, OwnKeeps

\* A step that shares out no more, and drops no entry.
LEMMA OwnSteps ==
    ASSUME OwnInv, NEW r \in Addr, NEW q, kycOwnerReq' = [kycOwnerReq EXCEPT ![r] = q],
           OwnKeeps(kycOwners', kycOwners), OwnAsks(q, kycOwners), UNCHANGED kycOwnerRaced,
           kycOwnerLog' \in Seq(OwnEntry),
           \A k \in DOMAIN kycOwnerLog : k \in DOMAIN kycOwnerLog' /\ kycOwnerLog'[k] = kycOwnerLog[k],
           \A i \in DOMAIN kycOwners : OwnDeciding(kycOwnerReq[r], i) => OwnNamed(kycOwnerLog', kycOwnerReq', i),
           \A i \in DOMAIN kycOwners : kycOwners'[i] = kycOwners[i] \/ OwnDeciding(q, i)
    PROVE  OwnInv'
  <1>1. OwnTyped
    BY DEF OwnInv
  <1>2. DOMAIN kycOwnerReq' = Addr /\ \A p \in Addr : kycOwnerReq'[p] = IF p = r THEN q ELSE kycOwnerReq[p]
    BY <1>1 DEF OwnTyped
  <1>3. /\ DOMAIN kycOwners' = DOMAIN kycOwners /\ Kyc!Total(kycOwners') = Kyc!Total(kycOwners)
        /\ \A p : OwnAsks(p, kycOwners) => OwnAsks(p, kycOwners')
    BY <1>1, OwnKept DEF OwnTyped
  <1>4. \A p \in Addr : OwnAsks(kycOwnerReq'[p], kycOwners')
    BY <1>1, <1>2, <1>3 DEF OwnTyped
  <1>5. OwnTyped'
    BY <1>2, <1>4 DEF OwnTyped, OwnKeeps
  <1>6. ASSUME NEW i \in DOMAIN kycOwners, kycOwners'[i].status # "declared"
        PROVE  OwnNamed(kycOwnerLog', kycOwnerReq', i)
    <2>1. CASE OwnDeciding(q, i)
      BY <1>2, <2>1 DEF OwnNamed
    <2>2. CASE ~OwnDeciding(q, i)
      <3>1. OwnNamed(kycOwnerLog, kycOwnerReq, i)
        BY <1>6, <2>2 DEF OwnInv
      <3> QED BY <1>2, <3>1 DEF OwnNamed
    <2> QED BY <2>1, <2>2
  <1>7. kycOwnerRaced' = {} => Kyc!Total(kycOwners') <= KycWhole
    BY <1>3 DEF OwnInv
  <1> QED BY <1>3, <1>5, <1>6, <1>7 DEF OwnInv

LEMMA OwnInvInit == Kyc!OwnerInit => OwnInv
  <1> SUFFICES ASSUME Kyc!OwnerInit PROVE OwnInv
    OBVIOUS
  <1>1. /\ kycOwners = <<>> /\ kycOwnerLog = <<>> /\ kycOwnerReq = [r \in Addr |-> Kyc!New]
        /\ kycOwnerRaced = {}
    BY DEF Kyc!OwnerInit
  <1>2. \A r \in Addr : OwnAsks(kycOwnerReq[r], kycOwners)
    BY <1>1 DEF OwnAsks, Kyc!New
  <1>3. OwnTyped /\ DOMAIN kycOwners = {}
    BY <1>1, <1>2 DEF OwnTyped
  <1>4. Kyc!Total(kycOwners) = 0
    BY <1>3, OwnSum, SumEmpty DEF Kyc!Total
  <1> QED BY <1>3, <1>4, ComplianceAssumption DEF OwnInv

LEMMA OwnDeclareReadInv ==
    ASSUME OwnInv, NEW r \in Addr, NEW p \in KycPercents, Kyc!DeclareRead(r, p)
    PROVE  OwnInv'
  <1> DEFINE q == [pc |-> "create", seen |-> Len(kycOwners), percent |-> p]
  <1>1. kycOwners \in Seq(OwnRow) /\ kycOwnerLog \in Seq(OwnEntry)
    BY DEF OwnInv, OwnTyped
  <1>2. /\ kycOwnerReq[r] = Kyc!New /\ kycOwnerReq' = [kycOwnerReq EXCEPT ![r] = q]
        /\ Kyc!Total(kycOwners) + p <= KycWhole /\ UNCHANGED <<kycOwners, kycOwnerLog, kycOwnerRaced>>
    BY DEF Kyc!DeclareRead, Kyc!ValidateTotalOwnership
  <1>3. q.pc = "create" /\ q.seen = Len(kycOwners) /\ q.percent = p /\ p \in Int /\ Len(kycOwners) \in Nat
    BY <1>1, OwnRows, ComplianceAssumption
  <1>4. OwnKeeps(kycOwners', kycOwners)
    BY <1>1, <1>2 DEF OwnKeeps
  <1> HIDE DEF q
  <1>5. OwnAsks(q, kycOwners)
    BY <1>2, <1>3 DEF OwnAsks
  <1>6. \A i : ~OwnDeciding(kycOwnerReq[r], i)
    BY <1>2 DEF OwnDeciding, Kyc!New
  <1> QED BY <1>1, <1>2, <1>4, <1>5, <1>6, OwnSteps

LEMMA OwnDeclareInv ==
    ASSUME OwnInv, NEW r \in Addr, Kyc!DeclareBeneficialOwner(r)
    PROVE  OwnInv'
  <1> DEFINE o == kycOwnerReq[r]
             n == Len(kycOwners)
             row == [percent |-> o.percent, status |-> "declared", verified |-> FALSE]
             e == [action |-> "ubo_declared", owner |-> n + 1, status |-> "declared"]
             q == [pc |-> "log", action |-> "ubo_declared", owner |-> n + 1, status |-> "declared"]
  <1>1. OwnTyped /\ kycOwners \in Seq(OwnRow) /\ kycOwnerLog \in Seq(OwnEntry)
    BY DEF OwnInv, OwnTyped
  <1>2. /\ o.pc = "create" /\ kycOwners' = Append(kycOwners, row) /\ kycOwnerReq' = [kycOwnerReq EXCEPT ![r] = q]
        /\ kycOwnerRaced' = IF n # o.seen THEN kycOwnerRaced \cup {n + 1} ELSE kycOwnerRaced
        /\ kycOwnerLog' = kycOwnerLog
    BY DEF Kyc!DeclareBeneficialOwner
  <1>3. /\ o.percent \in Int /\ o.seen \in Nat /\ o.seen <= n
        /\ o.seen = n => Kyc!Total(kycOwners) + o.percent <= KycWhole
    BY <1>1, <1>2 DEF OwnTyped, OwnAsks
  <1>4. row \in OwnRow /\ row.percent = o.percent /\ row.status = "declared"
    BY <1>3 DEF OwnRow
  <1>5. n \in Nat /\ DOMAIN kycOwners = 1..n
    BY <1>1, OwnRows
  <1>6. q.pc = "log" /\ [action |-> q.action, owner |-> q.owner, status |-> q.status] \in OwnEntry
    BY <1>5 DEF OwnEntry
  <1> HIDE DEF row, q, n
  <1>7. /\ kycOwners' \in Seq(OwnRow) /\ Len(kycOwners') = n + 1
        /\ \A i \in DOMAIN kycOwners : kycOwners'[i] = kycOwners[i]
        /\ \A i \in DOMAIN kycOwners' : i \in DOMAIN kycOwners \/ kycOwners'[i] = row
        /\ Kyc!Total(kycOwners') = Kyc!Total(kycOwners) + row.percent
    BY <1>1, <1>2, <1>4, OwnAdded DEF n
  <1>8. DOMAIN kycOwnerReq' = Addr /\ \A p \in Addr : kycOwnerReq'[p] = IF p = r THEN q ELSE kycOwnerReq[p]
    BY <1>1, <1>2 DEF OwnTyped
  <1>9. ASSUME NEW p \in Addr PROVE OwnAsks(kycOwnerReq'[p], kycOwners')
    <2>1. CASE p = r
      BY <1>6, <1>8, <2>1 DEF OwnAsks
    <2>2. CASE p # r
      <3>1. OwnAsks(kycOwnerReq[p], kycOwners) /\ kycOwnerReq'[p] = kycOwnerReq[p]
        BY <1>1, <1>8, <2>2 DEF OwnTyped
      <3> QED BY <1>5, <1>7, <3>1 DEF OwnAsks, n
    <2> QED BY <2>1, <2>2
  <1>10. OwnTyped'
    BY <1>1, <1>2, <1>7, <1>8, <1>9 DEF OwnTyped
  <1>11. kycOwnerRaced' = {} => Kyc!Total(kycOwners') <= KycWhole
    BY <1>2, <1>3, <1>4, <1>7
  <1>12. ASSUME NEW i \in DOMAIN kycOwners', kycOwners'[i].status # "declared"
         PROVE  OwnNamed(kycOwnerLog', kycOwnerReq', i)
    <2>1. i \in DOMAIN kycOwners /\ kycOwners[i].status # "declared"
      BY <1>4, <1>7, <1>12
    <2>2. OwnNamed(kycOwnerLog, kycOwnerReq, i)
      BY <2>1 DEF OwnInv
    <2>3. \A p \in Addr : OwnDeciding(kycOwnerReq[p], i) => kycOwnerReq'[p] = kycOwnerReq[p]
      BY <1>2, <1>8 DEF OwnDeciding
    <2> QED BY <1>2, <2>2, <2>3 DEF OwnNamed
  <1> QED BY <1>10, <1>11, <1>12 DEF OwnInv

LEMMA OwnResolveInv ==
    ASSUME OwnInv, NEW r \in Addr, NEW i \in DOMAIN kycOwners, NEW s \in {"verified", "rejected"},
           Kyc!ResolveUBOReview(r, i, s)
    PROVE  OwnInv'
  <1> DEFINE v == kycOwners[i].verified \/ s = "verified"
             row == [percent |-> kycOwners[i].percent, status |-> s, verified |-> v]
             q == [pc |-> "log", action |-> "ubo_review_resolved", owner |-> i, status |-> s]
             S == OwnRow
  <1>1. /\ kycOwners \in Seq(OwnRow) /\ kycOwners[i] \in OwnRow /\ i \in Nat /\ kycOwnerLog \in Seq(OwnEntry)
        /\ DOMAIN kycOwners = 1..Len(kycOwners)
    BY OwnRows DEF OwnInv, OwnTyped
  <1>2. /\ kycOwnerReq[r] = Kyc!New /\ kycOwnerReq' = [kycOwnerReq EXCEPT ![r] = q]
        /\ UNCHANGED <<kycOwnerLog, kycOwnerRaced>>
    BY DEF Kyc!ResolveUBOReview
  <1>3. kycOwners' = [kycOwners EXCEPT ![i] = row]
    <2>1. kycOwners' = [kycOwners EXCEPT ![i].status = s, ![i].verified = @ \/ s = "verified"]
      BY DEF Kyc!ResolveUBOReview
    <2> DEFINE k == [kycOwners[i] EXCEPT !.status = s]
               m == [k EXCEPT !.verified = v]
    <2>2. k \in OwnRow /\ k.percent = kycOwners[i].percent /\ k.status = s /\ k.verified = kycOwners[i].verified
      BY <1>1 DEF OwnRow
    <2>3. v \in BOOLEAN
      OBVIOUS
    <2> HIDE DEF v, k
    <2>4. m = [percent |-> k.percent, status |-> k.status, verified |-> v]
      BY <2>2, <2>3 DEF OwnRow
    <2>5. m = row
      BY <2>2, <2>4
    <2> HIDE DEF m, row
    <2>6. kycOwners' = [kycOwners EXCEPT ![i] = m]
      BY <1>1, <2>1, <2>2 DEF m, k, v
    <2> QED BY <2>5, <2>6
  <1>4. row \in S /\ row.percent = kycOwners[i].percent
    BY <1>1 DEF OwnRow
  <1>5. /\ q.pc = "log" /\ q.owner = i /\ q.action = "ubo_review_resolved"
        /\ [action |-> q.action, owner |-> q.owner, status |-> q.status] \in OwnEntry
    BY <1>1 DEF OwnEntry
  <1> HIDE DEF row, q
  <1>6. OwnKeeps(kycOwners', kycOwners) /\ \A j \in DOMAIN kycOwners : kycOwners'[j] = kycOwners[j] \/ j = i
    <2>1. kycOwners \in Seq(S)
      BY <1>1
    <2> HIDE DEF S
    <2>2. /\ kycOwners' \in Seq(S) /\ Len(kycOwners') = Len(kycOwners)
          /\ \A j \in DOMAIN kycOwners : kycOwners'[j] = IF j = i THEN row ELSE kycOwners[j]
      BY <1>1, <1>3, <1>4, <2>1
    <2> QED BY <1>4, <2>2 DEF OwnKeeps, S
  <1>7. OwnAsks(q, kycOwners) /\ OwnDeciding(q, i)
    BY <1>5 DEF OwnAsks, OwnDeciding
  <1>8. \A j : ~OwnDeciding(kycOwnerReq[r], j)
    BY <1>2 DEF OwnDeciding, Kyc!New
  <1> QED BY <1>1, <1>2, <1>6, <1>7, <1>8, OwnSteps

LEMMA OwnUploadInv ==
    ASSUME OwnInv, NEW r \in Addr, Kyc!UploadCorporateStructureDocument(r)
    PROVE  OwnInv'
  <1> DEFINE q == [pc |-> "log", action |-> "ubo_document_uploaded", owner |-> 0, status |-> "uploaded"]
  <1>1. kycOwners \in Seq(OwnRow) /\ kycOwnerLog \in Seq(OwnEntry)
    BY DEF OwnInv, OwnTyped
  <1>2. /\ kycOwnerReq[r] = Kyc!New /\ kycOwnerReq' = [kycOwnerReq EXCEPT ![r] = q]
        /\ UNCHANGED <<kycOwners, kycOwnerLog, kycOwnerRaced>>
    BY DEF Kyc!UploadCorporateStructureDocument
  <1>3. q.pc = "log" /\ [action |-> q.action, owner |-> q.owner, status |-> q.status] \in OwnEntry
    BY DEF OwnEntry
  <1>4. OwnKeeps(kycOwners', kycOwners)
    BY <1>1, <1>2 DEF OwnKeeps
  <1> HIDE DEF q
  <1>5. OwnAsks(q, kycOwners)
    BY <1>3 DEF OwnAsks
  <1>6. \A i : ~OwnDeciding(kycOwnerReq[r], i)
    BY <1>2 DEF OwnDeciding, Kyc!New
  <1> QED BY <1>1, <1>2, <1>4, <1>5, <1>6, OwnSteps

LEMMA OwnLogInv ==
    ASSUME OwnInv, NEW r \in Addr, Kyc!writeOwnerLog(r)
    PROVE  OwnInv'
  <1> DEFINE o == kycOwnerReq[r]
             e == [action |-> o.action, owner |-> o.owner, status |-> o.status]
             q == Kyc!Done
             S == OwnEntry
  <1>1. OwnTyped /\ kycOwners \in Seq(OwnRow) /\ kycOwnerLog \in Seq(S)
    BY DEF OwnInv, OwnTyped
  <1>2. /\ o.pc = "log" /\ kycOwnerLog' = Append(kycOwnerLog, e) /\ kycOwnerReq' = [kycOwnerReq EXCEPT ![r] = q]
        /\ UNCHANGED <<kycOwners, kycOwnerRaced>>
    BY DEF Kyc!writeOwnerLog
  <1>3. e \in S /\ e.owner = o.owner /\ e.action = o.action
    BY <1>1, <1>2 DEF OwnTyped, OwnAsks
  <1>4. OwnKeeps(kycOwners', kycOwners) /\ OwnAsks(q, kycOwners)
    BY <1>1, <1>2 DEF OwnKeeps, OwnAsks, Kyc!Done
  <1> HIDE DEF e, S
  <1>5. /\ kycOwnerLog' \in Seq(S)
        /\ \A k \in DOMAIN kycOwnerLog : k \in DOMAIN kycOwnerLog' /\ kycOwnerLog'[k] = kycOwnerLog[k]
        /\ \E k \in DOMAIN kycOwnerLog' : kycOwnerLog'[k] = e
    BY <1>1, <1>2, <1>3
  <1>6. \A i \in DOMAIN kycOwners : OwnDeciding(o, i) => OwnNamed(kycOwnerLog', kycOwnerReq', i)
    BY <1>3, <1>5 DEF OwnDeciding, OwnNamed
  <1> HIDE DEF q
  <1>7. kycOwnerLog' \in Seq(OwnEntry)
    BY <1>5 DEF S
  <1> QED BY <1>2, <1>4, <1>5, <1>6, <1>7, OwnSteps

LEMMA OwnInvNext == OwnInv /\ [Kyc!OwnerNext]_(Kyc!ownerVars) => OwnInv'
  <1> SUFFICES ASSUME OwnInv, [Kyc!OwnerNext]_(Kyc!ownerVars) PROVE OwnInv'
    OBVIOUS
  <1>1. ASSUME NEW r \in Addr, NEW p \in KycPercents, Kyc!DeclareRead(r, p) PROVE OwnInv'
    BY <1>1, OwnDeclareReadInv
  <1>2. ASSUME NEW r \in Addr,
               Kyc!DeclareBeneficialOwner(r) \/ Kyc!writeOwnerLog(r) \/ Kyc!UploadCorporateStructureDocument(r)
        PROVE  OwnInv'
    BY <1>2, OwnDeclareInv, OwnLogInv, OwnUploadInv
  <1>3. ASSUME NEW r \in Addr, NEW i \in DOMAIN kycOwners, NEW s \in {"verified", "rejected"}, Kyc!ResolveUBOReview(r, i, s)
        PROVE  OwnInv'
    BY <1>3, OwnResolveInv
  <1>4. CASE UNCHANGED Kyc!ownerVars
    BY <1>4 DEF Kyc!ownerVars, OwnInv, OwnTyped
  <1> QED BY <1>1, <1>2, <1>3, <1>4 DEF Kyc!OwnerNext

(***************************************************************************)
(* Identity verification and beneficial owners (handlers/kyc.go,           *)
(* handlers/compliance.go): the compliance log explains the status of      *)
(* every record no two requests worked on at once, whoever passes the      *)
(* transfer gate has an approval in it, the declared shares stay within    *)
(* the whole unless two were checked against the same list, and a decided  *)
(* declaration is in the log.                                              *)
(***************************************************************************)
THEOREM ComplianceTold == Kyc!Spec /\ Kyc!OwnerSpec => []ComplianceIsTold
  <1>1. KycInv /\ OwnInv => ComplianceIsTold
    BY KycInvMeans, OwnInvMeans DEF ComplianceIsTold
  <1>2. Kyc!Spec => []KycInv
    BY KycInvInit, KycInvNext, PTL DEF Kyc!Spec
  <1>3. Kyc!OwnerSpec => []OwnInv
    BY OwnInvInit, OwnInvNext, PTL DEF Kyc!OwnerSpec
  <1> QED BY <1>1, <1>2, <1>3, PTL

-----------------------------------------------------------------------------
(* The run                                                                 *)

\* A component that does not move keeps its variables.
LEMMA AccountsAlone ==
    ASSUME NEW k, Alone(k)
    PROVE  /\ k # "multisig" => UNCHANGED vars
           /\ k # "rate_limits" => UNCHANGED Lim!vars
           /\ k # "payments" => UNCHANGED Pay!vars
           /\ k # "referrals" => UNCHANGED Ref!vars
           /\ k # "staking" => UNCHANGED Ref!stakeVars
           /\ k # "assets" => UNCHANGED Ast!vars
           /\ k # "auth" => UNCHANGED Auth!vars
           /\ k # "oauth" => UNCHANGED Auth!socialVars
           /\ k # "sessions" => UNCHANGED Lim!deviceVars
           /\ k # "kyc" => UNCHANGED Kyc!vars
           /\ k # "owners" => UNCHANGED Kyc!ownerVars
  <1>1. k # "multisig" => UNCHANGED vars
    BY DEF Alone
  <1>2. k # "rate_limits" => UNCHANGED Lim!vars
    BY DEF Alone, limVars, Lim!vars
  <1>3. k # "payments" => UNCHANGED Pay!vars
    BY DEF Alone, payVars, Pay!vars
  <1>4. k # "referrals" => UNCHANGED Ref!vars
    BY DEF Alone, refVars, Ref!vars
  <1>5. k # "staking" => UNCHANGED Ref!stakeVars
    BY DEF Alone, refStakeVars, Ref!stakeVars
  <1>6. k # "assets" => UNCHANGED Ast!vars
    BY DEF Alone, astVars, Ast!vars
  <1>7. k # "auth" => UNCHANGED Auth!vars
    BY DEF Alone, authVars, Auth!vars
  <1>8. k # "oauth" => UNCHANGED Auth!socialVars
    BY DEF Alone, authSocialVars, Auth!socialVars
  <1>9. k # "sessions" => UNCHANGED Lim!deviceVars
    BY DEF Alone, limDeviceVars, Lim!deviceVars
  <1>10. k # "kyc" => UNCHANGED Kyc!vars
    BY DEF Alone, kycVars, Kyc!vars
  <1>11. k # "owners" => UNCHANGED Kyc!ownerVars
    BY DEF Alone, kycOwnerVars, Kyc!ownerVars
  <1> QED BY <1>1, <1>2, <1>3, <1>4, <1>5, <1>6, <1>7, <1>8, <1>9, <1>10, <1>11

\* No component touches another's storage, so that a behaviour of all is one
\* of each.
LEMMA AccountsAreApart ==
    AccountsSpec => Spec /\ Lim!Spec /\ Pay!Spec /\ Ref!Spec /\
                    Ref!StakeSpec /\ Ast!Spec /\ Auth!Spec /\
                    Auth!SocialSpec /\ Lim!DeviceSpec /\
                    Kyc!Spec /\ Kyc!OwnerSpec
  <1>1. AccountsInit => Init /\ Lim!Init /\ Pay!Init /\ Ref!Init /\
                        Ref!StakeInit /\ Ast!Init /\ Auth!Init /\
                        Auth!SocialInit /\ Lim!DeviceInit /\
                        Kyc!Init /\ Kyc!OwnerInit
    BY DEF AccountsInit
  <1>2. UNCHANGED all =>
          UNCHANGED vars /\ UNCHANGED Lim!vars /\ UNCHANGED Pay!vars /\
          UNCHANGED Ref!vars /\ UNCHANGED Ref!stakeVars /\
          UNCHANGED Ast!vars /\ UNCHANGED Auth!vars /\
          UNCHANGED Auth!socialVars /\ UNCHANGED Lim!deviceVars /\
          UNCHANGED Kyc!vars /\ UNCHANGED Kyc!ownerVars
    BY DEF all, limVars, Lim!vars, payVars, Pay!vars, refVars, Ref!vars,
           refStakeVars, Ref!stakeVars, astVars, Ast!vars, authVars,
           Auth!vars, authSocialVars, Auth!socialVars, limDeviceVars,
           Lim!deviceVars, kycVars, Kyc!vars, kycOwnerVars, Kyc!ownerVars
  <1>3. [AccountsNext]_all => [Next]_vars
    BY <1>2, AccountsAlone DEF AccountsNext
  <1>4. [AccountsNext]_all => [Lim!Next]_(Lim!vars)
    BY <1>2, AccountsAlone DEF AccountsNext
  <1>5. [AccountsNext]_all => [Pay!Next]_(Pay!vars)
    BY <1>2, AccountsAlone DEF AccountsNext
  <1>6. [AccountsNext]_all => [Ref!Next]_(Ref!vars)
    BY <1>2, AccountsAlone DEF AccountsNext
  <1>7. [AccountsNext]_all => [Ref!StakeNext]_(Ref!stakeVars)
    BY <1>2, AccountsAlone DEF AccountsNext
  <1>8. [AccountsNext]_all => [Ast!Next]_(Ast!vars)
    BY <1>2, AccountsAlone DEF AccountsNext
  <1>9. [AccountsNext]_all => [Auth!Next]_(Auth!vars)
    BY <1>2, AccountsAlone DEF AccountsNext
  <1>10. [AccountsNext]_all => [Auth!SocialNext]_(Auth!socialVars)
    BY <1>2, AccountsAlone DEF AccountsNext
  <1>11. [AccountsNext]_all => [Lim!DeviceNext]_(Lim!deviceVars)
    BY <1>2, AccountsAlone DEF AccountsNext
  <1>12. [AccountsNext]_all => [Kyc!Next]_(Kyc!vars)
    BY <1>2, AccountsAlone DEF AccountsNext
  <1>13. [AccountsNext]_all => [Kyc!OwnerNext]_(Kyc!ownerVars)
    BY <1>2, AccountsAlone DEF AccountsNext
  <1> QED BY <1>1, <1>3, <1>4, <1>5, <1>6, <1>7, <1>8, <1>9, <1>10, <1>11, <1>12, <1>13, PTL
          DEF AccountsSpec, Spec, Lim!Spec, Pay!Spec, Ref!Spec,
              Ref!StakeSpec, Ast!Spec, Auth!Spec, Auth!SocialSpec,
              Lim!DeviceSpec, Kyc!Spec, Kyc!OwnerSpec

(***************************************************************************)
(* What is proved of each part holds of all of them together, as they are  *)
(* explored: the wallet keeps a threshold its owners can reach and         *)
(* executes on it, limits hold over every span, nothing is charged or      *)
(* paid twice, credentials are spent once, the history of an asset's       *)
(* metadata says what it is, and the compliance log explains who is        *)
(* verified and who owns what.                                             *)
(***************************************************************************)
THEOREM AccountsTogether ==
    AccountsSpec => /\ [](ThresholdReachable /\ LimitsHold /\ PaidOnce)
                    /\ [](CredentialsAreKept /\ MetadataIsKept /\ ComplianceIsTold)
                    /\ ExecutionBacked
  <1> QED BY AccountsAreApart, MultisigThresholdReachable, MultisigExecutionBacked,
             LimitsHeld, OncePaid, CredentialsKept, MetadataKept,
             ComplianceTold, PTL
=============================================================================
