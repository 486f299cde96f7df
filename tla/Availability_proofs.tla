------------------------- MODULE Availability_proofs -------------------------
(***************************************************************************)
(* Proofs about EmergencyControl, for any number of assets, scopes,        *)
(* signers and withdrawals: timers belong to pauses, pauses hold as        *)
(* declared, approvals are counted once, and recovery is backed and final; *)
(* about the read replicas, for any number of them and any lag; and about  *)
(* the WebSocket hub, for any connections, topics and size of queue.       *)
(***************************************************************************)
EXTENDS MCAvailability, Sums, SequenceTheorems

\* What ApprovalsAreDistinct and the timelock need to be inductive: a
\* withdrawal id that was never proposed has no approver yet, approvers are
\* finitely many, and a proposal's execute_after is its timelock's end.
WithdrawalInv ==
    \A id \in WithdrawalIds :
        /\ IsFiniteSet(approvers[id])
        /\ withdrawals[id].status = "Absent" => approvers[id] = {}
        /\ withdrawals[id].status # "Absent" =>
              withdrawals[id].execute_after = withdrawals[id].proposed_at + Timelock

IInv == TypeOK /\ TimerBelongsToPause /\ ApprovalsAreDistinct /\ WithdrawalInv

PauseType ==
    /\ flag \in [Keys -> BOOLEAN]
    /\ timer \in [Keys -> Nat]
    /\ history \in [AssetIds -> Seq(PauseRecord)]
    /\ TimerBelongsToPause

\* What a step may do to the pauses: keep the storage typed and the timers
\* with their pauses, and lift a pause by an admin or when it is due.
PauseStep ==
    /\ PauseType'
    /\ \A k \in Keys : flag[k] =>
          IF flag'[k] THEN timer'[k] = timer[k]
          ELSE \/ Last(history'[k[1]]).reason = "manual_unpause"
               \/ timer[k] # 0 /\ sequence >= timer[k]

\* The keys of flags and timers.
LEMMA KeyType == ASSUME NEW a \in AssetIds, NEW s \in Scopes \cup {AllScope, TradingScope}
                 PROVE  /\ Key(a, s) \in Keys /\ Key(a, s)[1] = a
  BY EmergencyAssumption DEF Key, Keys, ScopeKinds, AllScope, TradingScope

\* Appending a record keeps the audit trail typed and puts the record last.
LEMMA AppendType ==
    ASSUME history \in [AssetIds -> Seq(PauseRecord)], NEW a \in AssetIds,
           NEW r \in PauseRecord, AppendHistory(a, r)
    PROVE  /\ history' \in [AssetIds -> Seq(PauseRecord)]
           /\ Last(history'[a]) = r
  <1>1. history'[a] = Append(history[a], r) /\ history[a] \in Seq(PauseRecord)
    BY DEF AppendHistory
  <1>2. Append(history[a], r) \in Seq(PauseRecord)
        /\ Len(Append(history[a], r)) = Len(history[a]) + 1
        /\ Append(history[a], r)[Len(history[a]) + 1] = r
    BY <1>1
  <1>3. Last(history'[a]) = r
    BY <1>1, <1>2 DEF Last
  <1> QED BY <1>1, <1>2, <1>3 DEF AppendHistory

\* Pausing a scope.
LEMMA PauseAssetStep ==
    ASSUME PauseType, NEW c, NEW a \in AssetIds, NEW s \in Scopes, NEW u \in UnpauseLedgers,
           PauseAsset(c, a, s, u)
    PROVE  PauseStep
  <1>1. Record(s, TRUE, "manual") \in PauseRecord
    BY DEF Record, PauseRecord
  <1>2. history' \in [AssetIds -> Seq(PauseRecord)]
    BY <1>1, AppendType DEF PauseAsset, PauseType
  <1>3. Key(a, s) \in Keys /\ u \in Nat
    BY KeyType, EmergencyAssumption
  <1> QED BY <1>2, <1>3 DEF PauseStep, PauseType, PauseAsset, NotYetPaused, TimerBelongsToPause

\* Unpausing a scope.
LEMMA UnpauseAssetStep ==
    ASSUME PauseType, NEW c, NEW a \in AssetIds, NEW s \in Scopes \cup {TradingScope},
           UnpauseAsset(c, a, s)
    PROVE  PauseStep
  <1> DEFINE r == Record(s, FALSE, "manual_unpause")
  <1>1. r \in PauseRecord /\ r.reason = "manual_unpause"
    BY DEF Record, PauseRecord
  <1>2. history' \in [AssetIds -> Seq(PauseRecord)] /\ Last(history'[a]) = r
    BY <1>1, AppendType DEF UnpauseAsset, PauseType
  <1>3. Key(a, s) \in Keys /\ Key(a, s)[1] = a
    BY KeyType
  <1> HIDE DEF r
  <1> QED BY <1>1, <1>2, <1>3 DEF PauseStep, PauseType, UnpauseAsset, TimerBelongsToPause

\* A one-element sequence.
LEMMA SingletonSeq == ASSUME NEW T, NEW r \in T PROVE <<r>> \in Seq(T)
  OBVIOUS

\* Lifting what is due.
LEMMA LiftExpiredStep ==
    ASSUME PauseType, NEW a \in AssetIds, NEW s \in Scopes, LiftExpired(a, s)
    PROVE  PauseStep
  <1> DEFINE lifted == {x \in {s, AllScope} : Expired(a, x)}
             keys == {Key(a, x) : x \in lifted}
             recordOf(x) == IF x \in lifted THEN <<Record(x, FALSE, "auto_unpause")>> ELSE <<>>
             added == recordOf(s) \o (IF s.kind = "All" THEN <<>> ELSE recordOf(AllScope))
  <1>1. /\ flag' = [k \in Keys |-> IF k \in keys THEN FALSE ELSE flag[k]]
        /\ timer' = [k \in Keys |-> IF k \in keys THEN 0 ELSE timer[k]]
        /\ history' = [history EXCEPT ![a] = @ \o added]
    BY DEF LiftExpired
  <1>2. ASSUME NEW x \in {s, AllScope} PROVE recordOf(x) \in Seq(PauseRecord)
    <2>1. Record(x, FALSE, "auto_unpause") \in PauseRecord
      BY DEF Record, PauseRecord
    <2> HIDE DEF lifted
    <2>2. <<Record(x, FALSE, "auto_unpause")>> \in Seq(PauseRecord)
      <3> HIDE DEF recordOf
      <3> QED BY <2>1, SingletonSeq, Zenon
    <2>3. <<>> \in Seq(PauseRecord)
      OBVIOUS
    <2> QED BY <2>2, <2>3, Zenon
  <1>3. added \in Seq(PauseRecord)
    <2>1. recordOf(s) \in Seq(PauseRecord) /\ recordOf(AllScope) \in Seq(PauseRecord)
      BY <1>2
    <2>2. <<>> \in Seq(PauseRecord)
      OBVIOUS
    <2> HIDE DEF recordOf
    <2> QED BY <2>1, <2>2, ConcatProperties
  <1>4. history' \in [AssetIds -> Seq(PauseRecord)]
    <2> HIDE DEF added
    <2>1. history[a] \in Seq(PauseRecord)
      BY DEF PauseType
    <2>2. history[a] \o added \in Seq(PauseRecord)
      BY <2>1, <1>3, ConcatProperties
    <2> QED BY <1>1, <2>2 DEF PauseType
  <1>5. \A k \in keys : timer[k] # 0 /\ sequence >= timer[k]
    BY DEF Expired
  <1> HIDE DEF lifted, keys, added
  <1> QED BY <1>1, <1>4, <1>5 DEF PauseStep, PauseType, TimerBelongsToPause

\* Tripping the circuit breaker.
LEMMA TripBreakerStep ==
    ASSUME PauseType, sequence \in Nat, NEW a \in AssetIds, NEW tripped, TripBreaker(a, tripped)
    PROVE  PauseStep
  <1>1. CASE tripped /\ NotYetPaused(a, TradingScope)
    <2>1. Record(TradingScope, TRUE, "circuit_breaker") \in PauseRecord
      BY DEF Record, PauseRecord
    <2>2. history' \in [AssetIds -> Seq(PauseRecord)]
      BY <1>1, <2>1, AppendType DEF TripBreaker, PauseType
    <2>3. Key(a, TradingScope) \in Keys /\ sequence + Cooldown \in Nat
      BY KeyType, EmergencyAssumption
    <2> QED BY <1>1, <2>2, <2>3
            DEF PauseStep, PauseType, TripBreaker, NotYetPaused, TimerBelongsToPause
  <1>2. CASE ~(tripped /\ NotYetPaused(a, TradingScope))
    BY <1>2 DEF PauseStep, PauseType, TripBreaker, TimerBelongsToPause
  <1> QED BY <1>1, <1>2

\* Leaving the pauses alone.
LEMMA PauseStutter == PauseType /\ UNCHANGED <<flag, timer, history>> => PauseStep
  BY DEF PauseStep, PauseType, TimerBelongsToPause

RecoveryType ==
    /\ signers \in Seq(Addr)
    /\ threshold \in 0..Len(signers)
    /\ whitelist \in SUBSET Addr
    /\ nonce \in 0..MaxWithdrawals
    /\ withdrawals \in [WithdrawalIds ->
          [destination : Addr \cup {None}, proposed_at : Nat, execute_after : Nat,
           approvals : Nat, status : {"Absent", "Open", "Executed", "Cancelled"}]]
    /\ approvers \in [WithdrawalIds -> SUBSET Addr]
    /\ ApprovalsAreDistinct
    /\ WithdrawalInv

\* What a step may do to the recovery part.
RecoveryStep ==
    /\ RecoveryType'
    /\ \A id \in WithdrawalIds :
          /\ withdrawals[id].status \in {"Executed", "Cancelled"}
               => withdrawals'[id] = withdrawals[id]
          /\ withdrawals'[id].status = "Executed" /\ withdrawals[id].status # "Executed"
               => /\ threshold > 0
                  /\ Cardinality(approvers[id]) >= threshold
                  /\ now >= withdrawals[id].proposed_at + Timelock

\* Leaving withdrawals and approvers alone.
LEMMA RecoveryStutter ==
    ASSUME RecoveryType, UNCHANGED <<nonce, withdrawals, approvers>>,
           signers' \in Seq(Addr), threshold' \in 0..Len(signers'), whitelist' \in SUBSET Addr
    PROVE  RecoveryStep
  BY DEF RecoveryStep, RecoveryType, ApprovalsAreDistinct, WithdrawalInv

\* Proposing a withdrawal.
LEMMA ProposeStep ==
    ASSUME RecoveryType, now \in Nat, NEW c, NEW dest \in Addr, ProposeEmergencyWithdrawal(c, dest)
    PROVE  RecoveryStep
  <1> USE EmergencyAssumption
  <1> DEFINE id == nonce + 1
             w == [destination |-> dest, proposed_at |-> now, execute_after |-> now + Timelock,
                   approvals |-> 0, status |-> "Open"]
  <1>1. /\ id \in WithdrawalIds /\ nonce' = id
        /\ withdrawals' = [withdrawals EXCEPT ![id] = w]
        /\ UNCHANGED <<signers, threshold, whitelist, approvers>>
    BY DEF ProposeEmergencyWithdrawal, NextNonce
  <1>2. withdrawals[id].status = "Absent" /\ approvers[id] = {}
    BY <1>1 DEF RecoveryType, ApprovalsAreDistinct, WithdrawalInv
  <1>3. /\ w \in [destination : Addr \cup {None}, proposed_at : Nat, execute_after : Nat,
                  approvals : Nat, status : {"Absent", "Open", "Executed", "Cancelled"}]
        /\ w.approvals = 0 /\ w.status = "Open" /\ w.execute_after = w.proposed_at + Timelock
    OBVIOUS
  <1> HIDE DEF w
  <1>4. ApprovalsAreDistinct'
    <2> SUFFICES ASSUME NEW i \in WithdrawalIds
                 PROVE  /\ withdrawals'[i].approvals = Cardinality(approvers'[i])
                        /\ withdrawals'[i].status = "Absent" <=> i > nonce'
      BY DEF ApprovalsAreDistinct
    <2>1. CASE i = id
      BY <2>1, <1>1, <1>2, <1>3, FS_EmptySet DEF RecoveryType
    <2>2. CASE i # id
      <3>1. withdrawals'[i] = withdrawals[i] /\ approvers'[i] = approvers[i]
        BY <2>2, <1>1 DEF RecoveryType
      <3>2. i \in Int /\ nonce \in Int /\ (i > nonce + 1 <=> i > nonce)
        BY <2>2 DEF RecoveryType, WithdrawalIds
      <3> QED BY <3>1, <3>2, <1>1 DEF RecoveryType, ApprovalsAreDistinct
    <2> QED BY <2>1, <2>2
  <1>5. WithdrawalInv'
    BY <1>1, <1>3 DEF RecoveryType, WithdrawalInv
  <1>6. RecoveryType'
    <2>1. withdrawals' \in [WithdrawalIds ->
             [destination : Addr \cup {None}, proposed_at : Nat, execute_after : Nat,
              approvals : Nat, status : {"Absent", "Open", "Executed", "Cancelled"}]]
      BY <1>1, <1>3 DEF RecoveryType
    <2>2. nonce' \in 0..MaxWithdrawals
      BY <1>1 DEF RecoveryType, WithdrawalIds
    <2>3. UNCHANGED <<signers, threshold, whitelist, approvers>>
      BY <1>1
    <2> QED BY <2>1, <2>2, <2>3, <1>4, <1>5 DEF RecoveryType
  <1>7. \A i \in WithdrawalIds : withdrawals'[i] = IF i = id THEN w ELSE withdrawals[i]
    BY <1>1 DEF RecoveryType
  <1> QED BY <1>2, <1>3, <1>6, <1>7 DEF RecoveryStep

\* A signer approves.
LEMMA ApproveStep ==
    ASSUME RecoveryType, NEW c \in Addr, NEW id \in WithdrawalIds, ApproveEmergencyWithdrawal(c, id)
    PROVE  RecoveryStep
  <1>1. /\ withdrawals[id].status = "Open" /\ c \notin approvers[id]
        /\ approvers' = [approvers EXCEPT ![id] = @ \cup {c}]
        /\ withdrawals' = [withdrawals EXCEPT ![id].approvals = @ + 1]
        /\ UNCHANGED <<signers, threshold, whitelist, nonce>>
    BY DEF ApproveEmergencyWithdrawal, NotYetApproved
  <1>2. /\ IsFiniteSet(approvers[id] \cup {c})
        /\ Cardinality(approvers[id] \cup {c}) = Cardinality(approvers[id]) + 1
    BY <1>1, FS_AddElement DEF RecoveryType, WithdrawalInv
  <1>3. ApprovalsAreDistinct'
    BY <1>1, <1>2 DEF RecoveryType, ApprovalsAreDistinct
  <1>4. WithdrawalInv'
    BY <1>1, <1>2 DEF RecoveryType, WithdrawalInv
  <1>5. RecoveryType'
    <2>1. approvers' \in [WithdrawalIds -> SUBSET Addr]
      BY <1>1 DEF RecoveryType
    <2>2. withdrawals' \in [WithdrawalIds ->
            [destination : Addr \cup {None}, proposed_at : Nat, execute_after : Nat,
             approvals : Nat, status : {"Absent", "Open", "Executed", "Cancelled"}]]
      <3> DEFINE W == [destination : Addr \cup {None}, proposed_at : Nat, execute_after : Nat,
                       approvals : Nat, status : {"Absent", "Open", "Executed", "Cancelled"}]
                 w == [withdrawals[id] EXCEPT !.approvals = @ + 1]
      <3>1. withdrawals \in [WithdrawalIds -> W] /\ withdrawals[id] \in W
        BY DEF RecoveryType
      <3>2. w \in W
        BY <3>1
      <3>3. withdrawals' = [withdrawals EXCEPT ![id] = w]
        BY <1>1
      <3> HIDE DEF W, w
      <3>4. withdrawals' \in [WithdrawalIds -> W]
        BY <3>1, <3>2, <3>3
      <3> QED BY <3>4 DEF W
    <2> QED BY <1>1, <1>3, <1>4, <2>1, <2>2 DEF RecoveryType
  <1>6. \A i \in WithdrawalIds :
           /\ withdrawals'[i].status = withdrawals[i].status
           /\ i # id => withdrawals'[i] = withdrawals[i]
    BY <1>1 DEF RecoveryType
  <1> QED BY <1>1, <1>5, <1>6 DEF RecoveryStep

\* An execution.
LEMMA ExecuteStep ==
    ASSUME RecoveryType, NEW c, NEW id \in WithdrawalIds, ExecuteEmergencyWithdrawal(c, id)
    PROVE  RecoveryStep
  <1>1. /\ withdrawals[id].status = "Open" /\ now >= withdrawals[id].execute_after
        /\ threshold # 0 /\ withdrawals[id].approvals >= threshold
        /\ withdrawals' = [withdrawals EXCEPT ![id].status = "Executed"]
        /\ UNCHANGED <<signers, threshold, whitelist, nonce, approvers>>
    BY DEF ExecuteEmergencyWithdrawal, NotClosed, TimelockExpired
  <1>2. /\ threshold > 0
        /\ Cardinality(approvers[id]) >= threshold
        /\ now >= withdrawals[id].proposed_at + Timelock
    <2>1. threshold \in Nat
      BY LenProperties DEF RecoveryType
    <2>2. /\ withdrawals[id].approvals = Cardinality(approvers[id])
          /\ withdrawals[id].approvals \in Nat
      BY DEF RecoveryType, ApprovalsAreDistinct
    <2>3. withdrawals[id].execute_after = withdrawals[id].proposed_at + Timelock
      BY <1>1 DEF RecoveryType, WithdrawalInv
    <2> QED BY <1>1, <2>1, <2>2, <2>3
  <1>3. ApprovalsAreDistinct'
    BY <1>1 DEF RecoveryType, ApprovalsAreDistinct
  <1>4. WithdrawalInv'
    BY <1>1 DEF RecoveryType, WithdrawalInv
  <1> QED BY <1>1, <1>2, <1>3, <1>4 DEF RecoveryStep, RecoveryType

\* A cancellation.
LEMMA CancelStep ==
    ASSUME RecoveryType, NEW c, NEW id \in WithdrawalIds, CancelEmergencyWithdrawal(c, id)
    PROVE  RecoveryStep
  <1>1. /\ withdrawals[id].status = "Open"
        /\ withdrawals' = [withdrawals EXCEPT ![id].status = "Cancelled"]
        /\ UNCHANGED <<signers, threshold, whitelist, nonce, approvers>>
    BY DEF CancelEmergencyWithdrawal, NotClosed
  <1>3. ApprovalsAreDistinct'
    BY <1>1 DEF RecoveryType, ApprovalsAreDistinct
  <1>4. WithdrawalInv'
    BY <1>1 DEF RecoveryType, WithdrawalInv
  <1> QED BY <1>1, <1>3, <1>4 DEF RecoveryStep, RecoveryType

OtherType == /\ admin \in Addr \cup {None}
             /\ price \in [AssetIds -> Nat] /\ priceTime \in [AssetIds -> Nat]
             /\ sequence \in Nat /\ now \in Nat

\* The inductive invariant is the conjunction of its parts.
LEMMA Parts == IInv <=> PauseType /\ RecoveryType /\ OtherType
  BY DEF IInv, TypeOK, PauseType, RecoveryType, OtherType

\* Every step of the contract is a step of its pauses and one of its recovery.
LEMMA NextStep == IInv /\ [Next]_vars => PauseStep /\ RecoveryStep /\ OtherType'
  <1> SUFFICES ASSUME PauseType, RecoveryType, OtherType, [Next]_vars
               PROVE  PauseStep /\ RecoveryStep /\ OtherType'
    BY Parts
  <1> USE EmergencyAssumption
  <1>a. ASSUME UNCHANGED recoveryVars PROVE RecoveryStep
    BY <1>a, RecoveryStutter DEF RecoveryType, recoveryVars
  <1>b. ASSUME UNCHANGED pauseVars PROVE PauseStep
    BY <1>b, PauseStutter DEF pauseVars
  <1>c. sequence \in Nat
    BY DEF OtherType
  <1>1. ASSUME NEW c \in Addr, Initialize(c) PROVE PauseStep /\ RecoveryStep /\ OtherType'
    BY <1>1, <1>a, <1>b DEF Initialize, OtherType, pauseVars, clock
  <1>2. ASSUME NEW secs \in CloseSecs, CloseLedger(secs)
        PROVE  PauseStep /\ RecoveryStep /\ OtherType'
    BY <1>2, <1>a, <1>b DEF CloseLedger, OtherType, pauseVars
  <1>3. ASSUME PauseNext PROVE PauseStep /\ RecoveryStep /\ OtherType'
    <2>1. ASSUME NEW c \in Addr, NEW a \in AssetIds, NEW s \in Scopes, NEW u \in UnpauseLedgers,
                 PauseAsset(c, a, s, u)
          PROVE  PauseStep /\ RecoveryStep /\ OtherType'
      BY <2>1, <1>a, PauseAssetStep DEF PauseAsset, OtherType, clock
    <2>2. ASSUME NEW c \in Addr, NEW a \in AssetIds, NEW s \in Scopes \cup {TradingScope},
                 UnpauseAsset(c, a, s)
          PROVE  PauseStep /\ RecoveryStep /\ OtherType'
      BY <2>2, <1>a, UnpauseAssetStep DEF UnpauseAsset, OtherType, clock
    <2>3. ASSUME NEW a \in AssetIds, NEW s \in Scopes, IsPaused(a, s)
          PROVE  PauseStep /\ RecoveryStep /\ OtherType'
      BY <2>3, <1>a, LiftExpiredStep DEF IsPaused, OtherType, clock
    <2>4. ASSUME NEW a \in AssetIds, NEW s \in Scopes, RequireNotPaused(a, s)
          PROVE  PauseStep /\ RecoveryStep /\ OtherType'
      BY <2>4, <1>a, LiftExpiredStep DEF RequireNotPaused, OtherType, clock
    <2>5. ASSUME NEW c \in Addr, NEW a \in AssetIds, NEW p \in Prices, RecordPrice(c, a, p)
          PROVE  PauseStep /\ RecoveryStep /\ OtherType'
      <3>1. PauseStep
        BY <2>5, <1>c, TripBreakerStep DEF RecordPrice
      <3>2. p \in Nat
        BY <2>5 DEF RecordPrice
      <3> QED BY <2>5, <3>1, <3>2, <1>a DEF RecordPrice, OtherType, clock
    <2>6. ASSUME NEW c \in Addr, NEW a \in AssetIds, NEW spike \in BOOLEAN,
                 RecordVolume(c, a, spike)
          PROVE  PauseStep /\ RecoveryStep /\ OtherType'
      BY <2>6, <1>a, <1>c, TripBreakerStep DEF RecordVolume, OtherType, clock
    <2> QED BY <1>3, <2>1, <2>2, <2>3, <2>4, <2>5, <2>6 DEF PauseNext, CircuitBreakerUnpause
  <1>4. ASSUME RecoveryNext PROVE PauseStep /\ RecoveryStep /\ OtherType'
    <2>1. ASSUME NEW c \in Addr, NEW list \in SignerLists, NEW t \in Thresholds,
                 ConfigureRecoveryMultisig(c, list, t)
          PROVE  PauseStep /\ RecoveryStep /\ OtherType'
      <3>1. signers' \in Seq(Addr) /\ threshold' \in 0..Len(signers')
        BY <2>1, LenProperties DEF ConfigureRecoveryMultisig
      <3> QED BY <2>1, <3>1, <1>b, RecoveryStutter
              DEF ConfigureRecoveryMultisig, RecoveryType, OtherType, pauseVars, clock
    <2>2. ASSUME NEW c \in Addr, NEW dest \in Addr, AddRecoveryDestination(c, dest)
          PROVE  PauseStep /\ RecoveryStep /\ OtherType'
      BY <2>2, <1>b, RecoveryStutter
         DEF AddRecoveryDestination, RecoveryType, OtherType, pauseVars, clock
    <2>3. ASSUME NEW c \in Addr, NEW dest \in Addr, RemoveRecoveryDestination(c, dest)
          PROVE  PauseStep /\ RecoveryStep /\ OtherType'
      BY <2>3, <1>b, RecoveryStutter
         DEF RemoveRecoveryDestination, RecoveryType, OtherType, pauseVars, clock
    <2>4. ASSUME NEW c \in Addr, NEW dest \in Addr, ProposeEmergencyWithdrawal(c, dest)
          PROVE  PauseStep /\ RecoveryStep /\ OtherType'
      BY <2>4, <1>b, ProposeStep DEF ProposeEmergencyWithdrawal, OtherType, pauseVars, clock
    <2>5. ASSUME NEW c \in Addr, NEW id \in WithdrawalIds, ApproveEmergencyWithdrawal(c, id)
          PROVE  PauseStep /\ RecoveryStep /\ OtherType'
      BY <2>5, <1>b, ApproveStep DEF ApproveEmergencyWithdrawal, OtherType, pauseVars, clock
    <2>6. ASSUME NEW c \in Addr, NEW id \in WithdrawalIds, ExecuteEmergencyWithdrawal(c, id)
          PROVE  PauseStep /\ RecoveryStep /\ OtherType'
      BY <2>6, <1>b, ExecuteStep DEF ExecuteEmergencyWithdrawal, OtherType, pauseVars, clock
    <2>7. ASSUME NEW c \in Addr, NEW id \in WithdrawalIds, CancelEmergencyWithdrawal(c, id)
          PROVE  PauseStep /\ RecoveryStep /\ OtherType'
      BY <2>7, <1>b, CancelStep DEF CancelEmergencyWithdrawal, OtherType, pauseVars, clock
    <2> QED BY <1>4, <2>1, <2>2, <2>3, <2>4, <2>5, <2>6, <2>7 DEF RecoveryNext
  <1>5. ASSUME UNCHANGED vars PROVE PauseStep /\ RecoveryStep /\ OtherType'
    BY <1>5, <1>a, <1>b DEF vars, OtherType, clock, pauseVars
  <1> QED BY <1>1, <1>2, <1>3, <1>4, <1>5 DEF Next

\* The inductive invariant: typed storage, timers with their pauses, approvals
\* counted once, and execute_after at the end of the timelock.
THEOREM EmergencyInvariant == Spec => []IInv
  <1>1. Init => IInv
    <2> SUFFICES ASSUME Init PROVE IInv
      OBVIOUS
    <2> USE EmergencyAssumption
    <2>1. TypeOK
      BY DEF Init, TypeOK, NoWithdrawal
    <2>2. TimerBelongsToPause
      BY DEF Init, TimerBelongsToPause
    <2>3. ApprovalsAreDistinct /\ WithdrawalInv
      BY FS_EmptySet DEF Init, ApprovalsAreDistinct, WithdrawalInv, NoWithdrawal, WithdrawalIds
    <2> QED BY <2>1, <2>2, <2>3 DEF IInv
  <1>2. IInv /\ [Next]_vars => IInv'
    BY NextStep, Parts DEF PauseStep, RecoveryStep, IInv, TypeOK, PauseType, RecoveryType, OtherType
  <1> QED BY <1>1, <1>2, PTL DEF Spec

\* However pauses end, no auto-unpause timer outlives the pause it was set
\* for, for any number of assets and scopes.
THEOREM EmergencyTimers == Spec => []TimerBelongsToPause
  <1>1. IInv => TimerBelongsToPause
    BY DEF IInv
  <1> QED BY <1>1, EmergencyInvariant, PTL

\* No query and no circuit breaker ends or reschedules a pause that is not due.
THEOREM EmergencyPausesHold == Spec => PausesHoldAsDeclared
  <1>1. IInv /\ [Next]_vars =>
          [\A k \in Keys : flag[k] =>
             IF flag'[k] THEN timer'[k] = timer[k]
             ELSE \/ Last(history'[k[1]]).reason = "manual_unpause"
                  \/ timer[k] # 0 /\ sequence >= timer[k]]_vars
    BY NextStep DEF PauseStep
  <1> QED BY <1>1, EmergencyInvariant, PTL DEF Spec, PausesHoldAsDeclared

\* A withdrawal's approval counter is the number of its distinct approvers.
THEOREM EmergencyApprovals == Spec => []ApprovalsAreDistinct
  <1>1. IInv => ApprovalsAreDistinct
    BY DEF IInv
  <1> QED BY <1>1, EmergencyInvariant, PTL

\* An executed withdrawal had a threshold of distinct approvers and waited for
\* the timelock, and a closed one never changes.
THEOREM EmergencyRecovery == Spec => RecoveryIsBackedAndFinal
  <1>1. IInv /\ [Next]_vars =>
          [\A id \in WithdrawalIds :
             /\ withdrawals[id].status \in {"Executed", "Cancelled"}
                  => withdrawals'[id] = withdrawals[id]
             /\ withdrawals'[id].status = "Executed" /\ withdrawals[id].status # "Executed"
                  => /\ threshold > 0
                     /\ Cardinality(approvers[id]) >= threshold
                     /\ now >= withdrawals[id].proposed_at + Timelock]_vars
    BY NextStep DEF RecoveryStep
  <1> QED BY <1>1, EmergencyInvariant, PTL DEF Spec, RecoveryIsBackedAndFinal
-----------------------------------------------------------------------------
(***************************************************************************)
(* The replicas, for any number of them, any writes, pings and restarts.   *)
(***************************************************************************)

RepNodes == Rep!Nodes

\* The log grows at the clock; what a replica is known to lag, if it was
\* measured, is at least its age at the measurement of what it had replayed
\* then, and so of what it has replayed since.
RepInv ==
    /\ repNow \in Nat /\ repNext \in Nat
    /\ repLog \in Seq(Nat) /\ repLog # <<>>
    /\ \A i, j \in DOMAIN repLog : i <= j => repLog[i] <= repLog[j]
    /\ \A i \in DOMAIN repLog : repLog[i] <= repNow
    /\ repReplica \in [RepNodes -> [applied : Nat, replayed : BOOLEAN]]
    /\ repNode \in [RepNodes -> [healthy : BOOLEAN, lag : Int]]
    /\ repMeasured \in [RepNodes -> Nat \cup {None}]
    /\ \A n \in RepNodes :
        /\ repReplica[n].applied \in DOMAIN repLog
        /\ repMeasured[n] # None =>
              repMeasured[n] - repLog[repReplica[n].applied] <= repNode[n].lag
    /\ ReadsAreFresh

LEMMA RepInvInit == Rep!Init => RepInv
  <1> SUFFICES ASSUME Rep!Init PROVE RepInv
    OBVIOUS
  <1>1. repLog = <<0>> /\ DOMAIN repLog = {1} /\ repLog[1] = 0 /\ repLog \in Seq(Nat)
    BY DEF Rep!Init
  <1> QED BY <1>1 DEF Rep!Init, RepInv, RepNodes, ReadsAreFresh, Rep!ReadsAreFresh

\* The primary commits: the log stays in the order of the clock.
LEMMA RepCommitInv == ASSUME RepInv, Rep!Commit PROVE RepInv'
  <1>1. /\ repLog' = Append(repLog, repNow)
        /\ UNCHANGED <<repReplica, repNode, repNext, repNow, repMeasured, repRead>>
    BY DEF Rep!Commit
  <1>2. /\ repLog' \in Seq(Nat) /\ Len(repLog) \in Nat
        /\ DOMAIN repLog = 1..Len(repLog) /\ DOMAIN repLog' = 1..(Len(repLog) + 1)
        /\ repLog'[Len(repLog) + 1] = repNow
        /\ \A i \in 1..Len(repLog) : repLog'[i] = repLog[i] /\ repLog[i] \in Nat
    BY <1>1 DEF RepInv
  <1>3. ASSUME NEW i \in DOMAIN repLog', NEW j \in DOMAIN repLog', i <= j PROVE repLog'[i] <= repLog'[j]
    <2>1. CASE j = Len(repLog) + 1
      <3>1. repLog'[i] <= repNow /\ repLog'[j] = repNow
        <4>1. CASE i = Len(repLog) + 1
          BY <1>2, <2>1, <4>1 DEF RepInv
        <4>2. CASE i # Len(repLog) + 1
          <5> DEFINE l == Len(repLog)
          <5>a. l \in Nat /\ i \in 1..(l + 1) /\ i # l + 1
            BY ONLY <1>2, <4>2, i \in DOMAIN repLog'
          <5> HIDE DEF l
          <5>b. i \in 1..l
            BY ONLY <5>a
          <5>1. i \in DOMAIN repLog /\ repLog'[i] = repLog[i]
            BY ONLY <1>2, <5>b DEF l
          <5>2. repLog[i] <= repNow
            BY ONLY RepInv, <5>1 DEF RepInv
          <5>3. repLog'[j] = repNow
            BY ONLY <1>2, <2>1
          <5> QED BY ONLY <5>1, <5>2, <5>3
        <4> QED BY <4>1, <4>2
      <3> QED BY <3>1
    <2>2. CASE j # Len(repLog) + 1
      <3> DEFINE l == Len(repLog)
      <3>2. l \in Nat /\ i \in 1..(l + 1) /\ j \in 1..(l + 1) /\ j # l + 1 /\ i <= j
        BY <1>2, <1>3, <2>2
      <3> HIDE DEF l
      <3>3. i \in 1..l /\ j \in 1..l
        BY <3>2
      <3>1. i \in 1..Len(repLog) /\ j \in 1..Len(repLog)
        BY <3>3 DEF l
      <3> QED BY <1>2, <1>3, <3>1 DEF RepInv
    <2> QED BY <2>1, <2>2
  <1>4. \A i \in DOMAIN repLog' : repLog'[i] <= repNow'
    BY <1>1, <1>2 DEF RepInv
  <1>5. \A n \in RepNodes :
            /\ repReplica'[n].applied \in DOMAIN repLog'
            /\ repMeasured'[n] # None =>
                  repMeasured'[n] - repLog'[repReplica'[n].applied] <= repNode'[n].lag
    BY <1>1, <1>2 DEF RepInv
  <1>6. ReadsAreFresh'
    BY <1>1 DEF RepInv, ReadsAreFresh, Rep!ReadsAreFresh
  <1>7. /\ repNow' \in Nat /\ repNext' \in Nat
        /\ repReplica' \in [RepNodes -> [applied : Nat, replayed : BOOLEAN]]
        /\ repNode' \in [RepNodes -> [healthy : BOOLEAN, lag : Int]]
        /\ repMeasured' \in [RepNodes -> Nat \cup {None}]
    BY <1>1 DEF RepInv
  <1>8. repLog' \in Seq(Nat) /\ repLog' # <<>>
    BY <1>2
  <1>9. RepNodes' = RepNodes
    BY DEF RepNodes, Rep!Nodes
  <1> QED BY ONLY <1>3, <1>4, <1>5, <1>6, <1>7, <1>8, <1>9 DEF RepInv

\* A replica replays or restarts, is measured, or is marked.
LEMMA RepNodeInv ==
    ASSUME RepInv, NEW n \in RepNodes,
           Rep!Replay(n) \/ Rep!Restart(n) \/ Rep!RecordLag(n) \/ \E h \in BOOLEAN : Rep!SetReplicaHealth(n, h)
    PROVE  RepInv'
  <1>1. /\ UNCHANGED <<repLog, repNext, repNow, repRead>>
        /\ Len(repLog) \in Nat /\ DOMAIN repLog = 1..Len(repLog)
        /\ \A i \in DOMAIN repLog : repLog[i] \in Nat
    BY DEF RepInv, Rep!Replay, Rep!Restart, Rep!RecordLag, Rep!SetReplicaHealth
  <1>2. SUFFICES /\ repReplica' \in [RepNodes -> [applied : Nat, replayed : BOOLEAN]]
                 /\ repNode' \in [RepNodes -> [healthy : BOOLEAN, lag : Int]]
                 /\ repMeasured' \in [RepNodes -> Nat \cup {None}]
                 /\ \A m \in RepNodes :
                       /\ repReplica'[m].applied \in DOMAIN repLog
                       /\ repMeasured'[m] # None =>
                             repMeasured'[m] - repLog[repReplica'[m].applied] <= repNode'[m].lag
    BY <1>1, <1>2 DEF RepInv, RepNodes, Rep!Nodes, ReadsAreFresh, Rep!ReadsAreFresh
  <1>3. CASE Rep!Replay(n)
    <2> DEFINE k == repReplica[n].applied
               r == [applied |-> k + 1, replayed |-> TRUE]
    <2>1. /\ k \in 1..(Len(repLog) - 1) /\ repReplica' = [repReplica EXCEPT ![n] = r]
          /\ UNCHANGED <<repNode, repMeasured>>
      BY <1>1, <1>3 DEF Rep!Replay, RepInv
    <2>2. repLog[k] <= repLog[k + 1] /\ k \in DOMAIN repLog /\ k + 1 \in DOMAIN repLog
      BY <1>1, <2>1 DEF RepInv
    <2>3. \A m \in RepNodes : /\ repReplica'[m] = IF m = n THEN r ELSE repReplica[m]
                              /\ repReplica[m] \in [applied : Nat, replayed : BOOLEAN]
      BY <2>1 DEF RepInv
    <2>4. repReplica' \in [RepNodes -> [applied : Nat, replayed : BOOLEAN]]
      BY <1>1, <2>1, <2>2 DEF RepInv
    <2>5. repNode[n].lag \in Int /\ repMeasured[n] \in Nat \cup {None}
      BY DEF RepInv
    <2>6. repMeasured[n] # None => repMeasured[n] - repLog[k + 1] <= repNode[n].lag
      <3>1. repMeasured[n] # None => repMeasured[n] - repLog[k] <= repNode[n].lag
        BY DEF RepInv
      <3> HIDE DEF k
      <3>2. repLog[k] \in Nat /\ repLog[k + 1] \in Nat
        BY <1>1, <2>2
      <3> QED BY <2>2, <2>5, <3>1, <3>2
    <2>7. ASSUME NEW m \in RepNodes
          PROVE  /\ repReplica'[m].applied \in DOMAIN repLog
                 /\ repMeasured'[m] # None =>
                       repMeasured'[m] - repLog[repReplica'[m].applied] <= repNode'[m].lag
      <3>1. CASE m = n
        BY <2>1, <2>2, <2>3, <2>6, <3>1
      <3>2. CASE m # n
        BY <2>1, <2>3, <3>2 DEF RepInv
      <3> QED BY <3>1, <3>2
    <2> QED BY <2>1, <2>4, <2>7 DEF RepInv
  <1>4. CASE Rep!Restart(n)
    <2>1. /\ repReplica' = [repReplica EXCEPT ![n].replayed = FALSE]
          /\ UNCHANGED <<repNode, repMeasured>>
      BY <1>4 DEF Rep!Restart
    <2>2. /\ repReplica' \in [RepNodes -> [applied : Nat, replayed : BOOLEAN]]
          /\ \A m \in RepNodes : repReplica'[m].applied = repReplica[m].applied
      BY <2>1 DEF RepInv
    <2> QED BY <1>1, <2>1, <2>2 DEF RepInv
  <1>5. CASE Rep!RecordLag(n)
    <2> DEFINE lag == Rep!postgresReplicaLag(n)
               k == repReplica[n].applied
    <2>1. /\ repNode' = [repNode EXCEPT ![n] = [healthy |-> lag <= RepLagThreshold, lag |-> lag]]
          /\ repMeasured' = [repMeasured EXCEPT ![n] = IF repReplica[n].replayed THEN repNow ELSE None]
          /\ UNCHANGED repReplica
      BY <1>5 DEF Rep!RecordLag
    <2>2. k \in DOMAIN repLog /\ repLog[k] \in Nat /\ repNow \in Nat
      BY <1>1 DEF RepInv
    <2>3. lag \in Int /\ repReplica[n].replayed => lag = repNow - repLog[k]
      BY <2>2 DEF Rep!postgresReplicaLag
    <2>4. lag \in Int /\ (repReplica[n].replayed => lag = repNow - repLog[k])
      BY <2>2 DEF Rep!postgresReplicaLag
    <2> HIDE DEF lag
    <2>5. /\ repNode' \in [RepNodes -> [healthy : BOOLEAN, lag : Int]]
          /\ repMeasured' \in [RepNodes -> Nat \cup {None}]
      BY <2>1, <2>2, <2>4 DEF RepInv
    <2>6. /\ repNode'[n].lag = lag
          /\ repMeasured'[n] = IF repReplica[n].replayed THEN repNow ELSE None
          /\ \A m \in RepNodes : m # n => repNode'[m] = repNode[m] /\ repMeasured'[m] = repMeasured[m]
      BY <2>1 DEF RepInv
    <2> QED BY <1>1, <2>1, <2>2, <2>4, <2>5, <2>6 DEF RepInv
  <1>6. CASE \E h \in BOOLEAN : Rep!SetReplicaHealth(n, h)
    <2>1. PICK h \in BOOLEAN : repNode' = [repNode EXCEPT ![n].healthy = h] /\ UNCHANGED <<repReplica, repMeasured>>
      BY <1>6 DEF Rep!SetReplicaHealth
    <2>2. /\ repNode' \in [RepNodes -> [healthy : BOOLEAN, lag : Int]]
          /\ \A m \in RepNodes : repNode'[m].lag = repNode[m].lag
      BY <2>1 DEF RepInv
    <2> QED BY <1>1, <2>1, <2>2 DEF RepInv
  <1> QED BY <1>3, <1>4, <1>5, <1>6

\* A read goes to a replica that is known not to lag too much, if to any.
LEMMA RoutedIsUsable ==
    ASSUME Rep!nextUsableReplica # None, RepInv
    PROVE  Rep!nextUsableReplica \in RepNodes /\ Rep!replicaUsable(Rep!nextUsableReplica)
  <1> DEFINE L == Len(RepReplicas)
             At(i) == RepReplicas[((repNext + i) % L) + 1]
             usable == {i \in 0..(L - 1) : Rep!replicaUsable(At(i))}
             first == CHOOSE i \in usable : \A j \in usable : i <= j
  <1>1. L \in Nat /\ DOMAIN RepReplicas = 1..L
    BY ReplicaAssumption
  <1>2. usable # {} /\ Rep!nextUsableReplica = At(first)
    BY DEF Rep!nextUsableReplica
  <1>3. L > 0 /\ L - 1 \in Nat /\ usable \in SUBSET (0..(L - 1))
    BY <1>1, <1>2
  <1>4. \E i \in usable : \A j \in usable : i <= j
    <2> HIDE DEF usable
    <2> QED BY <1>2, <1>3, LeastNumber
  <1>5. first \in usable
    BY <1>4
  <1>6. first \in 0..(L - 1) /\ Rep!replicaUsable(At(first))
    BY <1>5
  <1>7. ((repNext + first) % L) + 1 \in DOMAIN RepReplicas
    <2> HIDE DEF first
    <2> QED BY <1>1, <1>3, <1>6 DEF RepInv
  <1>8. At(first) \in RepNodes
    BY <1>7 DEF RepNodes, Rep!Nodes, Rep!Range
  <1> QED BY <1>2, <1>6, <1>8

LEMMA RepRouteInv == ASSUME RepInv, Rep!routeRead PROVE RepInv'
  <1> DEFINE n == Rep!nextUsableReplica
  <1>1. /\ repNext' = repNext + 1 /\ UNCHANGED <<repLog, repReplica, repNode, repNow, repMeasured>>
    BY DEF Rep!routeRead
  <1>2. CASE n = None
    <2>1. repRead'.to = None
      BY <1>2 DEF Rep!routeRead
    <2> QED BY <1>1, <2>1 DEF RepInv, ReadsAreFresh, Rep!ReadsAreFresh, RepNodes, Rep!Nodes
  <1>3. CASE n # None
    <2>1. repRead' = [to |-> n, behind |-> Rep!Behind(n),
                      since |-> IF repMeasured[n] = None THEN None ELSE repNow - repMeasured[n]]
      BY <1>3 DEF Rep!routeRead
    <2>2. n \in RepNodes /\ repNode[n].lag <= RepLagThreshold
      BY <1>3, RoutedIsUsable DEF Rep!replicaUsable
    <2> HIDE DEF n
    <2> DEFINE k == repReplica[n].applied
    <2>3. /\ k \in 1..Len(repLog) /\ Len(repLog) \in Nat /\ DOMAIN repLog = 1..Len(repLog)
          /\ repNow \in Nat /\ \A i \in DOMAIN repLog : repLog[i] \in Nat
          /\ repNode[n].lag \in Int /\ repMeasured[n] \in Nat \cup {None}
      BY <2>2 DEF RepInv
    <2>4. ASSUME repMeasured[n] # None PROVE Rep!Behind(n) <= RepLagThreshold + (repNow - repMeasured[n])
      <3> DEFINE m == repMeasured[n]
      <3>1. m - repLog[k] <= RepLagThreshold /\ m \in Nat /\ repLog[k] \in Nat /\ repLog[k] <= repNow
        <4>1. k \in DOMAIN repLog /\ m - repLog[k] <= repNode[n].lag /\ repLog[k] <= repNow
          BY <2>2, <2>3, <2>4 DEF RepInv
        <4>2. m \in Nat /\ repLog[k] \in Nat
          BY <2>3, <2>4, <4>1
        <4> DEFINE lag == repNode[n].lag
        <4>3. lag \in Int /\ lag <= RepLagThreshold /\ m - repLog[k] <= lag /\ RepLagThreshold \in Int
          BY <2>2, <2>3, <4>1, ReplicaAssumption
        <4> HIDE DEF m, k, lag
        <4> QED BY <4>1, <4>2, <4>3
      <3> HIDE DEF m, k
      <3>2. CASE k < Len(repLog)
        <4>1. Rep!Behind(n) = repNow - repLog[k + 1]
          BY <3>2 DEF Rep!Behind, k
        <4>2. k + 1 \in DOMAIN repLog /\ k \in DOMAIN repLog /\ repLog[k + 1] \in Nat
          BY <2>3, <3>2
        <4>3. repLog[k] <= repLog[k + 1]
          BY <2>3, <4>2 DEF RepInv
        <4>4. repNow - repLog[k + 1] <= RepLagThreshold + (repNow - m)
          BY <2>3, <3>1, <4>2, <4>3, ReplicaAssumption
        <4> QED BY <4>1, <4>4 DEF m
      <3>3. CASE ~(k < Len(repLog))
        <4>1. Rep!Behind(n) = 0
          BY <3>3 DEF Rep!Behind, k
        <4>2. 0 <= RepLagThreshold + (repNow - m)
          BY <2>3, <3>1, ReplicaAssumption
        <4> QED BY <4>1, <4>2 DEF m
      <3> QED BY <3>2, <3>3
    <2>5. Rep!ReadsAreFresh'
      BY <2>1, <2>4 DEF Rep!ReadsAreFresh
    <2> QED BY <1>1, <2>5 DEF RepInv, ReadsAreFresh, RepNodes, Rep!Nodes
  <1> QED BY <1>2, <1>3

LEMMA RepInvNext == RepInv /\ [Rep!Next]_(Rep!vars) => RepInv'
  <1> SUFFICES ASSUME RepInv, [Rep!Next]_(Rep!vars) PROVE RepInv'
    OBVIOUS
  <1>1. ASSUME Rep!routePrimary PROVE RepInv'
    BY <1>1 DEF Rep!routePrimary, RepInv, ReadsAreFresh, Rep!ReadsAreFresh, RepNodes, Rep!Nodes
  <1>2. ASSUME Rep!Tick PROVE RepInv'
    <2>1. repNow' = repNow + 1 /\ UNCHANGED <<repLog, repReplica, repNode, repNext, repMeasured, repRead>>
      BY <1>2 DEF Rep!Tick
    <2>2. \A i \in DOMAIN repLog : repLog[i] <= repNow'
      BY <2>1 DEF RepInv
    <2> QED BY <2>1, <2>2 DEF RepInv, ReadsAreFresh, Rep!ReadsAreFresh, RepNodes, Rep!Nodes
  <1>3. ASSUME UNCHANGED Rep!vars PROVE RepInv'
    BY <1>3 DEF Rep!vars, RepInv, ReadsAreFresh, Rep!ReadsAreFresh, RepNodes, Rep!Nodes
  <1> QED BY <1>1, <1>2, <1>3, RepCommitInv, RepNodeInv, RepRouteInv DEF Rep!Next, RepNodes

(***************************************************************************)
(* Reads are fresh: a read routed to a replica misses no write older than  *)
(* the threshold and the time since the replica was last measured, however *)
(* many replicas there are and whoever sets their health.                  *)
(***************************************************************************)
THEOREM ReplicaFreshness == Rep!Spec => []ReadsAreFresh
  <1>1. RepInv => ReadsAreFresh
    BY DEF RepInv
  <1> QED BY <1>1, RepInvInit, RepInvNext, PTL DEF Rep!Spec

-----------------------------------------------------------------------------
(***************************************************************************)
(* The event streams, for any connections, topics and queue sizes.         *)
(***************************************************************************)

Subscriber == [topics : SUBSET (HubTopics \cup {"all"}), send : Seq(Nat),
               open : BOOLEAN, done : BOOLEAN, closed : BOOLEAN]

HubTypes ==
    /\ hubSub \in [HubConns -> Subscriber]
    /\ hubReader \in [HubConns -> {"new", "read", "edit", "gone"}]
    /\ hubWriter \in [HubConns -> {"new", "write", "gone"}]
    /\ hubExpiry \in [HubConns -> {"new", "warn", "send", "expire", "gone"}]
    /\ hubSubscribers \subseteq HubConns /\ hubRegister \subseteq HubConns
    /\ hubUnregister \in [HubConns -> Nat]
    /\ hubBroadcast \in Seq([topic : HubTopics, seq : Nat])
    /\ hubSeq \in Nat
    /\ hubDelivered \in [HubConns -> Seq(Nat)]
    /\ hubMissed \in [HubConns -> SUBSET Nat]

\* A connection is new, then registered once, then subscribed; until it is
\* removed its queue is open and it has missed nothing unnoticed.
Lifecycle ==
    \A c \in HubConns :
        /\ hubReader[c] = "new" => c \notin hubRegister /\ c \notin hubSubscribers /\ hubSub[c].open /\ hubMissed[c] = {}
        /\ c \in hubRegister => c \notin hubSubscribers /\ hubSub[c].open /\ hubMissed[c] = {}
        /\ c \in hubSubscribers => hubSub[c].open /\ (hubMissed[c] # {} => hubUnregister[c] > 0)
        /\ hubSub[c].open \/ hubSub[c].done

\* No number is twice in a sequence, or in both of two, but that of warnings.
Once(s) == \A i, j \in DOMAIN s : i < j /\ s[i] = s[j] => s[i] = Hub!AuthExpiring

Apart(s, t) == \A i \in DOMAIN s, j \in DOMAIN t : s[i] = t[j] => s[i] = Hub!AuthExpiring

\* The numbers of a sequence are among the first q given out, none of them
\* of an event of b, still to be fanned out.
Given(s, q, b) ==
    \A i \in DOMAIN s :
        /\ s[i] <= q
        /\ s[i] # Hub!AuthExpiring => \A j \in DOMAIN b : b[j].seq # s[i]

\* What was delivered to a connection and what is queued for it
Queued(d, s, q, b) == Once(d) /\ Once(s) /\ Apart(d, s) /\ Given(d, q, b) /\ Given(s, q, b)

Numbered ==
    /\ \A j \in DOMAIN hubBroadcast : hubBroadcast[j].seq \in 1..hubSeq
    /\ \A i, j \in DOMAIN hubBroadcast : i < j => hubBroadcast[i].seq # hubBroadcast[j].seq
    /\ \A c \in HubConns : Queued(hubDelivered[c], hubSub[c].send, hubSeq, hubBroadcast)

HubCrash ==
    hubCrashed => \E c \in HubConns : (hubExpiry[c] = "send" /\ hubSub[c].done) \/ hubReader[c] = "edit"

HubInv == HubTypes /\ Lifecycle /\ Numbered /\ HubCrash

LEMMA HubInvInit == Hub!Init => HubInv
  <1> SUFFICES ASSUME Hub!Init PROVE HubInv
    OBVIOUS
  <1>1. Hub!newSubscriber \in Subscriber /\ Hub!newSubscriber.send = <<>> /\ Hub!newSubscriber.open
    BY DEF Hub!newSubscriber, Subscriber
  <1>2. HubTypes
    BY <1>1 DEF Hub!Init, HubTypes
  <1>3. Lifecycle
    BY <1>1 DEF Hub!Init, Lifecycle
  <1>4. Numbered
    BY <1>1 DEF Hub!Init, Numbered, Queued, Once, Apart, Given
  <1> QED BY <1>2, <1>3, <1>4 DEF HubInv, HubCrash, Hub!Init

\* A number may follow those of a sequence that does not hold it.
LEMMA OnceGrows ==
    ASSUME NEW s \in Seq(Nat), Once(s), NEW n \in Nat,
           n # Hub!AuthExpiring => \A i \in DOMAIN s : s[i] # n
    PROVE  /\ Append(s, n) \in Seq(Nat) /\ Once(Append(s, n))
           /\ \A i \in DOMAIN Append(s, n) : Append(s, n)[i] = n \/ \E j \in DOMAIN s : s[j] = Append(s, n)[i]
  <1> DEFINE t == Append(s, n)
             l == Len(s)
  <1>1. /\ t \in Seq(Nat) /\ l \in Nat /\ DOMAIN s = 1..l /\ DOMAIN t = 1..(l + 1) /\ t[l + 1] = n
        /\ \A i \in 1..l : t[i] = s[i]
    OBVIOUS
  <1> HIDE DEF t, l
  <1>2. ASSUME NEW i \in DOMAIN t PROVE i = l + 1 \/ (i \in DOMAIN s /\ t[i] = s[i])
    BY <1>1
  <1>3. ASSUME NEW i \in DOMAIN t, NEW j \in DOMAIN t, i < j, t[i] = t[j] PROVE t[i] = Hub!AuthExpiring
    <2>1. i \in DOMAIN s /\ t[i] = s[i]
      BY <1>1, <1>3
    <2>2. CASE j = l + 1
      BY <1>1, <1>3, <2>1, <2>2
    <2>3. CASE j # l + 1
      <3>1. j \in DOMAIN s /\ t[j] = s[j]
        BY <1>2, <2>3
      <3> QED BY <1>3, <2>1, <3>1 DEF Once
    <2> QED BY <2>2, <2>3
  <1>4. Once(t)
    BY <1>3 DEF Once
  <1>5. \A i \in DOMAIN t : t[i] = n \/ \E j \in DOMAIN s : s[j] = t[i]
    BY <1>1, <1>2
  <1> QED BY <1>1, <1>4, <1>5 DEF t

\* ... and that has nothing in common with another that does not hold it.
LEMMA ApartGrows ==
    ASSUME NEW d \in Seq(Nat), NEW s \in Seq(Nat), Apart(d, s), NEW n \in Nat,
           n # Hub!AuthExpiring => \A i \in DOMAIN d : d[i] # n
    PROVE  Apart(d, Append(s, n))
  <1> DEFINE t == Append(s, n)
             l == Len(s)
  <1>1. /\ l \in Nat /\ DOMAIN s = 1..l /\ DOMAIN t = 1..(l + 1) /\ t[l + 1] = n
        /\ \A i \in 1..l : t[i] = s[i]
    OBVIOUS
  <1> HIDE DEF t, l
  <1>2. ASSUME NEW i \in DOMAIN d, NEW j \in DOMAIN t, d[i] = t[j] PROVE d[i] = Hub!AuthExpiring
    <2>1. CASE j = l + 1
      BY <1>1, <1>2, <2>1
    <2>2. CASE j # l + 1
      <3>1. j \in DOMAIN s /\ t[j] = s[j]
        BY <1>1, <2>2
      <3> QED BY <1>2, <3>1 DEF Apart
    <2> QED BY <2>1, <2>2
  <1>3. Apart(d, t)
    BY <1>2 DEF Apart
  <1> QED BY <1>3 DEF t

\* The head of a queue leaves it, and may be delivered.
LEMMA QueueShrinks ==
    ASSUME NEW d \in Seq(Nat), NEW s \in Seq(Nat), Once(d), Once(s), Apart(d, s), s # <<>>
    PROVE  /\ Tail(s) \in Seq(Nat) /\ Once(Tail(s)) /\ Apart(d, Tail(s))
           /\ Append(d, Head(s)) \in Seq(Nat) /\ Once(Append(d, Head(s))) /\ Apart(Append(d, Head(s)), Tail(s))
           /\ \A i \in DOMAIN Tail(s) : \E j \in DOMAIN s : s[j] = Tail(s)[i]
           /\ \A i \in DOMAIN Append(d, Head(s)) :
                (\E j \in DOMAIN s : s[j] = Append(d, Head(s))[i]) \/ \E j \in DOMAIN d : d[j] = Append(d, Head(s))[i]
  <1> DEFINE t == Tail(s)
             l == Len(s)
             n == Head(s)
             e == Append(d, n)
  <1>1. /\ l \in Nat \ {0} /\ DOMAIN s = 1..l /\ n = s[1] /\ n \in Nat
        /\ t \in Seq(Nat) /\ Len(t) = l - 1 /\ DOMAIN t = 1..(l - 1)
    <2>1. l \in Nat \ {0} /\ DOMAIN s = 1..l /\ n = s[1] /\ n \in Nat
      OBVIOUS
    <2>2. t \in Seq(Nat) /\ Len(t) = l - 1
      OBVIOUS
    <2> HIDE DEF t, l, n
    <2>3. DOMAIN t = 1..(l - 1)
      BY <2>2
    <2> QED BY <2>1, <2>2, <2>3
  <1>2. \A i \in DOMAIN t : t[i] = s[i + 1] /\ i + 1 \in DOMAIN s /\ i \in Nat /\ i + 1 > 1
    <2>1. \A i \in 1..(l - 1) : t[i] = s[i + 1]
      OBVIOUS
    <2> HIDE DEF t, l
    <2> SUFFICES ASSUME NEW i \in DOMAIN t PROVE t[i] = s[i + 1] /\ i + 1 \in DOMAIN s /\ i \in Nat /\ i + 1 > 1
      OBVIOUS
    <2>2. i \in 1..(l - 1) /\ i + 1 \in 1..l /\ i \in Nat
      BY <1>1
    <2> QED BY <1>1, <2>1, <2>2
  <1> HIDE DEF t, l, n
  <1>3. ASSUME NEW j \in DOMAIN t, t[j] = n PROVE n = Hub!AuthExpiring
    <2>1. 1 \in DOMAIN s /\ j + 1 \in DOMAIN s /\ 1 < j + 1 /\ s[1] = s[j + 1]
      BY <1>1, <1>2, <1>3
    <2> QED BY <1>1, <2>1 DEF Once
  <1>4. Once(t)
    BY <1>2 DEF Once
  <1>5. Apart(d, t)
    BY <1>2 DEF Apart
  <1>6. ASSUME NEW i \in DOMAIN d, d[i] = n PROVE n = Hub!AuthExpiring
    <2>1. 1 \in DOMAIN s /\ d[i] = s[1]
      BY <1>1, <1>6
    <2> QED BY <2>1, <1>6 DEF Apart
  <1>7. /\ e \in Seq(Nat) /\ Once(e)
        /\ \A i \in DOMAIN e : e[i] = n \/ \E j \in DOMAIN d : d[j] = e[i]
    <2>1. n # Hub!AuthExpiring => \A i \in DOMAIN d : d[i] # n
      BY <1>6
    <2> QED BY <1>1, <2>1, OnceGrows
  <1>8. Apart(e, t)
    BY <1>3, <1>5, <1>7 DEF Apart
  <1>9. \A i \in DOMAIN t : \E j \in DOMAIN s : s[j] = t[i]
    BY <1>2
  <1>10. \A i \in DOMAIN e : (\E j \in DOMAIN s : s[j] = e[i]) \/ \E j \in DOMAIN d : d[j] = e[i]
    <2>1. 1 \in DOMAIN s /\ s[1] = n
      BY <1>1
    <2> QED BY <1>7, <2>1
  <1> QED BY <1>1, <1>4, <1>5, <1>7, <1>8, <1>9, <1>10 DEF t, n

Events == Seq([topic : HubTopics, seq : Nat])

\* More events are numbered; those still to be fanned out are new or were so.
LEMMA QueuedLater ==
    ASSUME NEW d \in Seq(Nat), NEW s \in Seq(Nat), NEW q \in Nat, NEW b \in Events,
           NEW r \in Nat, NEW e \in Events, Queued(d, s, q, b), q <= r,
           \A j \in DOMAIN e : e[j].seq > q \/ \E k \in DOMAIN b : b[k].seq = e[j].seq
    PROVE  Queued(d, s, r, e)
  <1>1. ASSUME NEW t \in Seq(Nat), Given(t, q, b) PROVE Given(t, r, e)
    <2> SUFFICES ASSUME NEW i \in DOMAIN t
                 PROVE  t[i] <= r /\ (t[i] # Hub!AuthExpiring => \A j \in DOMAIN e : e[j].seq # t[i])
      BY DEF Given
    <2>1. t[i] \in Nat /\ t[i] <= q
      BY <1>1 DEF Given
    <2>2. ASSUME NEW j \in DOMAIN e, t[i] # Hub!AuthExpiring PROVE e[j].seq # t[i]
      <3>1. CASE e[j].seq > q
        BY <2>1, <3>1
      <3>2. CASE \E k \in DOMAIN b : b[k].seq = e[j].seq
        BY <1>1, <2>2, <3>2 DEF Given
      <3> QED BY <3>1, <3>2
    <2> QED BY <2>1, <2>2
  <1> QED BY <1>1 DEF Queued

\* A number is queued that is new to the connection.
LEMMA QueuedSent ==
    ASSUME NEW d \in Seq(Nat), NEW s \in Seq(Nat), NEW q \in Nat, NEW b \in Events,
           Queued(d, s, q, b), NEW n \in Nat, n <= q,
           n # Hub!AuthExpiring => /\ \A i \in DOMAIN s : s[i] # n
                                   /\ \A i \in DOMAIN d : d[i] # n
                                   /\ \A j \in DOMAIN b : b[j].seq # n
    PROVE  Append(s, n) \in Seq(Nat) /\ Queued(d, Append(s, n), q, b)
  <1>1. Once(d) /\ Once(s) /\ Apart(d, s) /\ Given(d, q, b) /\ Given(s, q, b)
    BY DEF Queued
  <1>2. /\ Append(s, n) \in Seq(Nat) /\ Once(Append(s, n))
        /\ \A i \in DOMAIN Append(s, n) : Append(s, n)[i] = n \/ \E j \in DOMAIN s : s[j] = Append(s, n)[i]
    BY <1>1, OnceGrows
  <1>3. Apart(d, Append(s, n))
    BY <1>1, ApartGrows
  <1> DEFINE t == Append(s, n)
  <1> HIDE DEF t
  <1>4. ASSUME \A i \in DOMAIN t : t[i] = n \/ \E j \in DOMAIN s : s[j] = t[i] PROVE Given(t, q, b)
    BY <1>1, <1>4 DEF Given
  <1>5. Given(t, q, b)
    BY <1>2, <1>4 DEF t
  <1> QED BY <1>1, <1>2, <1>3, <1>5 DEF Queued, t

\* The head of a queue is lost, or delivered.
LEMMA QueuedTaken ==
    ASSUME NEW d \in Seq(Nat), NEW s \in Seq(Nat), NEW q \in Nat, NEW b \in Events,
           Queued(d, s, q, b), s # <<>>
    PROVE  /\ Tail(s) \in Seq(Nat) /\ Queued(d, Tail(s), q, b)
           /\ Append(d, Head(s)) \in Seq(Nat) /\ Queued(Append(d, Head(s)), Tail(s), q, b)
  <1> DEFINE t == Tail(s)
             e == Append(d, Head(s))
  <1>1. Once(d) /\ Once(s) /\ Apart(d, s) /\ Given(d, q, b) /\ Given(s, q, b)
    BY DEF Queued
  <1>2. /\ t \in Seq(Nat) /\ Once(t) /\ Apart(d, t)
        /\ e \in Seq(Nat) /\ Once(e) /\ Apart(e, t)
        /\ \A i \in DOMAIN t : \E j \in DOMAIN s : s[j] = t[i]
        /\ \A i \in DOMAIN e : (\E j \in DOMAIN s : s[j] = e[i]) \/ \E j \in DOMAIN d : d[j] = e[i]
    BY <1>1, QueueShrinks
  <1> HIDE DEF t, e
  <1>3. ASSUME NEW x, NEW k \in DOMAIN x, (\E j \in DOMAIN s : s[j] = x[k]) \/ \E j \in DOMAIN d : d[j] = x[k]
        PROVE  x[k] <= q /\ (x[k] # Hub!AuthExpiring => \A j \in DOMAIN b : b[j].seq # x[k])
    BY <1>1, <1>3 DEF Given
  <1>5. Given(t, q, b) /\ Given(e, q, b)
    BY <1>2, <1>3 DEF Given
  <1>4. Queued(d, t, q, b) /\ Queued(e, t, q, b)
    BY <1>1, <1>2, <1>5 DEF Queued
  <1> QED BY <1>2, <1>4 DEF t, e

\* The queues, and what has been delivered, stay as they are.
LEMMA NumberedKept ==
    ASSUME Numbered, UNCHANGED <<hubSeq, hubBroadcast, hubDelivered>>,
           \A c \in HubConns : hubSub'[c].send = hubSub[c].send
    PROVE  Numbered'
  BY DEF Numbered

\* A change of one connection that leaves its queue alone
LEMMA SubscriberChanged ==
    ASSUME HubTypes, NEW c \in HubConns, NEW r \in Subscriber, hubSub' = [hubSub EXCEPT ![c] = r],
           r.send = hubSub[c].send, r.open = hubSub[c].open, r.done = hubSub[c].done
    PROVE  /\ hubSub' \in [HubConns -> Subscriber]
           /\ \A e \in HubConns : /\ hubSub'[e].send = hubSub[e].send /\ hubSub'[e].open = hubSub[e].open
                                  /\ hubSub'[e].done = hubSub[e].done
  BY DEF HubTypes

\* The connections of HandleWS, and what their reader and their timer do.
LEMMA HubReaderInv ==
    ASSUME HubInv, ~hubCrashed, NEW c \in HubConns,
           \/ \E topics \in {{"all"}} \cup {{t} : t \in HubTopics}, loop \in {"warn", "expire"} : Hub!HandleWS(c, topics, loop)
           \/ \E closes \in BOOLEAN : Hub!ReaderEnds(c, closes)
           \/ Hub!EditTopics(c) \/ \E t \in HubTopics : Hub!TopicsEdited(c, t)
           \/ Hub!ExpiryTimer(c) \/ Hub!ExpiryDone(c)
    PROVE  HubInv'
  <1> DEFINE Kept == /\ hubSub' \in [HubConns -> Subscriber]
                     /\ \A e \in HubConns : /\ hubSub'[e].send = hubSub[e].send /\ hubSub'[e].open = hubSub[e].open
                                            /\ hubSub'[e].done = hubSub[e].done
  <1> USE DEF HubInv
  <1>0. hubSub[c] \in Subscriber
    BY DEF HubTypes
  <1>1. Kept
    <2>1. ASSUME NEW topics \in SUBSET (HubTopics \cup {"all"}), hubSub' = [hubSub EXCEPT ![c].topics = topics] PROVE Kept
      <3> DEFINE r == [hubSub[c] EXCEPT !.topics = topics]
      <3>1. r \in Subscriber /\ r.send = hubSub[c].send /\ r.open = hubSub[c].open /\ r.done = hubSub[c].done
        BY <1>0 DEF Subscriber
      <3>2. hubSub' = [hubSub EXCEPT ![c] = r]
        BY <2>1
      <3> HIDE DEF r
      <3> QED BY <3>1, <3>2, SubscriberChanged
    <2>2. ASSUME NEW b \in BOOLEAN, hubSub' = [hubSub EXCEPT ![c].closed = b] PROVE Kept
      <3> DEFINE r == [hubSub[c] EXCEPT !.closed = b]
      <3>1. r \in Subscriber /\ r.send = hubSub[c].send /\ r.open = hubSub[c].open /\ r.done = hubSub[c].done
        BY <1>0 DEF Subscriber
      <3>2. hubSub' = [hubSub EXCEPT ![c] = r]
        BY <2>2
      <3> HIDE DEF r
      <3> QED BY <3>1, <3>2, SubscriberChanged
    <2>3. ASSUME UNCHANGED hubSub PROVE Kept
      BY <2>3 DEF HubTypes
    <2>4. ASSUME NEW topics \in {{"all"}} \cup {{t} : t \in HubTopics}, NEW loop, Hub!HandleWS(c, topics, loop) PROVE Kept
      <3>1. topics \in SUBSET (HubTopics \cup {"all"})
        BY <2>4
      <3>2. hubSub' = [hubSub EXCEPT ![c].topics = topics]
        BY <2>4 DEF Hub!HandleWS
      <3> HIDE DEF Kept
      <3> QED BY <2>1, <3>1, <3>2
    <2>5. ASSUME NEW closes \in BOOLEAN, Hub!ReaderEnds(c, closes) PROVE Kept
      <3>1. hubSub' = [hubSub EXCEPT ![c].closed = hubSub[c].closed \/ closes]
        BY <2>5 DEF Hub!ReaderEnds
      <3>2. (hubSub[c].closed \/ closes) \in BOOLEAN
        OBVIOUS
      <3> QED BY <2>2, <3>1, <3>2
    <2>6. ASSUME NEW t \in HubTopics, Hub!TopicsEdited(c, t) PROVE Kept
      <3> DEFINE x == IF t \in hubSub[c].topics THEN hubSub[c].topics \ {t} ELSE hubSub[c].topics \cup {t}
      <3>1. hubSub' = [hubSub EXCEPT ![c].topics = x]
        BY <2>6 DEF Hub!TopicsEdited
      <3>2. x \in SUBSET (HubTopics \cup {"all"})
        BY <1>0 DEF Subscriber
      <3> HIDE DEF x
      <3> QED BY <2>1, <3>1, <3>2
    <2>7. ASSUME Hub!ExpiryTimer(c) PROVE Kept
      <3>1. UNCHANGED hubSub \/ hubSub' = [hubSub EXCEPT ![c].closed = TRUE]
        BY <2>7 DEF Hub!ExpiryTimer
      <3> QED BY <2>2, <2>3, <3>1
    <2>8. ASSUME Hub!EditTopics(c) \/ Hub!ExpiryDone(c) PROVE Kept
      BY <2>3, <2>8 DEF Hub!EditTopics, Hub!ExpiryDone
    <2> HIDE DEF Kept
    <2> QED BY <2>4, <2>5, <2>6, <2>7, <2>8
  <1>2. /\ UNCHANGED <<hubWriter, hubSubscribers, hubBroadcast, hubSeq, hubDelivered, hubMissed, hubCrashed>>
        /\ hubReader' \in [HubConns -> {"new", "read", "edit", "gone"}]
        /\ hubExpiry' \in [HubConns -> {"new", "warn", "send", "expire", "gone"}]
    BY DEF HubTypes, Hub!HandleWS, Hub!ReaderEnds, Hub!EditTopics, Hub!TopicsEdited, Hub!ExpiryTimer, Hub!ExpiryDone
  <1>3. hubUnregister' \in [HubConns -> Nat] /\ \A e \in HubConns : hubUnregister'[e] >= hubUnregister[e]
    <2> HIDE DEF Kept
    <2>1. UNCHANGED hubUnregister \/ hubUnregister' = [hubUnregister EXCEPT ![c] = hubUnregister[c] + 1]
      BY DEF Hub!HandleWS, Hub!ReaderEnds, Hub!EditTopics, Hub!TopicsEdited, Hub!ExpiryTimer, Hub!ExpiryDone
    <2>2. hubUnregister \in [HubConns -> Nat]
      BY DEF HubTypes
    <2>3. CASE UNCHANGED hubUnregister
      BY <2>2, <2>3
    <2>4. CASE hubUnregister' = [hubUnregister EXCEPT ![c] = hubUnregister[c] + 1]
      <3>1. hubUnregister' \in [HubConns -> Nat]
        BY <2>2, <2>4
      <3>2. \A e \in HubConns : hubUnregister'[e] = IF e = c THEN hubUnregister[e] + 1 ELSE hubUnregister[e]
        BY <2>2, <2>4
      <3> QED BY <2>2, <3>1, <3>2
    <2> QED BY <2>1, <2>3, <2>4
  <1>4. /\ \A e \in HubConns : hubReader'[e] = "new" => hubReader[e] = "new"
        /\ \/ hubRegister' = hubRegister
           \/ hubReader[c] = "new" /\ hubReader'[c] # "new" /\ hubRegister' = hubRegister \cup {c}
    BY DEF HubTypes, Hub!HandleWS, Hub!ReaderEnds, Hub!EditTopics, Hub!TopicsEdited, Hub!ExpiryTimer, Hub!ExpiryDone
  <1>5. HubTypes'
    BY <1>1, <1>2, <1>3, <1>4 DEF HubTypes
  <1>6. Lifecycle'
    <2> SUFFICES ASSUME NEW e \in HubConns
                 PROVE  /\ hubReader'[e] = "new" => e \notin hubRegister' /\ e \notin hubSubscribers' /\ hubSub'[e].open /\ hubMissed'[e] = {}
                        /\ e \in hubRegister' => e \notin hubSubscribers' /\ hubSub'[e].open /\ hubMissed'[e] = {}
                        /\ e \in hubSubscribers' => hubSub'[e].open /\ (hubMissed'[e] # {} => hubUnregister'[e] > 0)
                        /\ hubSub'[e].open \/ hubSub'[e].done
      BY DEF Lifecycle
    <2>1. hubUnregister[e] \in Nat /\ hubUnregister'[e] \in Nat /\ hubUnregister'[e] >= hubUnregister[e]
      BY <1>3 DEF HubTypes
    <2>2. hubSub'[e].open = hubSub[e].open /\ hubSub'[e].done = hubSub[e].done
      BY <1>1
    <2> QED BY <1>2, <1>4, <2>1, <2>2 DEF Lifecycle
  <1>7. Numbered'
    BY <1>1, <1>2, NumberedKept
  <1> QED BY <1>2, <1>5, <1>6, <1>7 DEF HubCrash

LEMMA HubRegisterInv == ASSUME HubInv, ~hubCrashed, NEW c \in HubConns, Hub!RunRegister(c) PROVE HubInv'
  <1>1. /\ c \in hubRegister /\ hubRegister' = hubRegister \ {c} /\ hubSubscribers' = hubSubscribers \cup {c}
        /\ hubWriter' = [hubWriter EXCEPT ![c] = "write"]
        /\ UNCHANGED <<hubSub, hubReader, hubExpiry, hubUnregister, hubBroadcast, hubSeq, hubDelivered, hubMissed, hubCrashed>>
    BY DEF Hub!RunRegister
  <1>2. HubTypes'
    BY <1>1 DEF HubInv, HubTypes
  <1>3. Lifecycle'
    BY <1>1 DEF HubInv, Lifecycle
  <1>4. Numbered'
    BY <1>1, NumberedKept DEF HubInv
  <1> QED BY <1>1, <1>2, <1>3, <1>4 DEF HubInv, HubCrash

LEMMA HubUnregisterInv == ASSUME HubInv, ~hubCrashed, NEW c \in HubConns, Hub!RunUnregister(c) PROVE HubInv'
  <1>1. /\ hubUnregister[c] > 0 /\ hubUnregister' = [hubUnregister EXCEPT ![c] = @ - 1]
        /\ hubSub' = IF c \in hubSubscribers
                     THEN [hubSub EXCEPT ![c].closed = TRUE, ![c].done = TRUE, ![c].open = FALSE] ELSE hubSub
        /\ hubSubscribers' = hubSubscribers \ {c}
        /\ UNCHANGED <<hubReader, hubWriter, hubExpiry, hubRegister, hubBroadcast, hubSeq, hubDelivered, hubMissed, hubCrashed>>
    BY DEF Hub!RunUnregister, Hub!Removed
  <1>2. /\ hubSub' \in [HubConns -> Subscriber]
        /\ \A e \in HubConns : hubSub'[e].send = hubSub[e].send
        /\ \A e \in HubConns : hubSub'[e] = hubSub[e] \/ (e = c /\ c \in hubSubscribers /\ hubSub'[e].done)
    <2> DEFINE r == [hubSub[c] EXCEPT !.closed = TRUE, !.done = TRUE, !.open = FALSE]
    <2>1. hubSub' = IF c \in hubSubscribers THEN [hubSub EXCEPT ![c] = r] ELSE hubSub
      BY <1>1
    <2>2. hubSub \in [HubConns -> Subscriber] /\ hubSub[c] \in Subscriber
      BY DEF HubInv, HubTypes
    <2>3. r \in Subscriber /\ r.send = hubSub[c].send /\ r.done
      BY <2>2 DEF Subscriber
    <2> HIDE DEF r
    <2> QED BY <2>1, <2>2, <2>3
  <1>3. hubUnregister' \in [HubConns -> Nat] /\ \A e \in HubConns \ {c} : hubUnregister'[e] = hubUnregister[e]
    BY <1>1 DEF HubInv, HubTypes
  <1>4. HubTypes'
    BY <1>1, <1>2, <1>3 DEF HubInv, HubTypes
  <1>5. Lifecycle'
    BY <1>1, <1>2, <1>3 DEF HubInv, Lifecycle
  <1>6. Numbered'
    BY <1>1, <1>2, NumberedKept DEF HubInv
  <1> QED BY <1>1, <1>4, <1>5, <1>6 DEF HubInv, HubCrash

LEMMA HubWriterInv ==
    ASSUME HubInv, ~hubCrashed, NEW c \in HubConns, NEW ok \in BOOLEAN, Hub!WriterLoop(c, ok)
    PROVE  HubInv'
  <1> DEFINE s == hubSub[c].send
             r == [hubSub[c] EXCEPT !.send = Tail(s)]
  <1>1. UNCHANGED <<hubReader, hubExpiry, hubSubscribers, hubRegister, hubBroadcast, hubSeq, hubMissed, hubCrashed>>
    BY DEF Hub!WriterLoop
  <1>2. HubTypes /\ Lifecycle /\ Numbered /\ HubCrash /\ hubSub \in [HubConns -> Subscriber] /\ hubSub[c] \in Subscriber
        /\ hubUnregister \in [HubConns -> Nat] /\ hubDelivered \in [HubConns -> Seq(Nat)]
        /\ hubWriter \in [HubConns -> {"new", "write", "gone"}]
    BY DEF HubInv, HubTypes
  <1>3. CASE s = <<>>
    <2>1. hubWriter' = [hubWriter EXCEPT ![c] = "gone"] /\ UNCHANGED <<hubSub, hubUnregister, hubDelivered>>
      BY <1>3 DEF Hub!WriterLoop
    <2> QED BY <1>1, <1>2, <2>1, NumberedKept DEF HubInv, HubTypes, Lifecycle, HubCrash
  <1>4. CASE s # <<>>
    <2>1. /\ hubSub' = [hubSub EXCEPT ![c] = r]
          /\ \/ hubUnregister' = [hubUnregister EXCEPT ![c] = hubUnregister[c] + 1] /\ UNCHANGED hubDelivered
             \/ hubDelivered' = [hubDelivered EXCEPT ![c] = Append(hubDelivered[c], Head(s))] /\ UNCHANGED hubUnregister
          /\ hubWriter' = hubWriter \/ hubWriter' = [hubWriter EXCEPT ![c] = "gone"]
      BY <1>4 DEF Hub!WriterLoop
    <2>2. /\ s \in Seq(Nat) /\ hubDelivered[c] \in Seq(Nat) /\ hubSeq \in Nat /\ hubBroadcast \in Events
          /\ Queued(hubDelivered[c], s, hubSeq, hubBroadcast)
      BY <1>2 DEF HubTypes, Subscriber, Numbered, Events
    <2>3. /\ Tail(s) \in Seq(Nat) /\ Queued(hubDelivered[c], Tail(s), hubSeq, hubBroadcast)
          /\ Append(hubDelivered[c], Head(s)) \in Seq(Nat)
          /\ Queued(Append(hubDelivered[c], Head(s)), Tail(s), hubSeq, hubBroadcast)
      <3> HIDE DEF s
      <3> QED BY <1>4, <2>2, QueuedTaken
    <2>4. r \in Subscriber /\ r.send = Tail(s) /\ r.open = hubSub[c].open /\ r.done = hubSub[c].done
      <3> DEFINE t == Tail(s)
      <3> HIDE DEF t
      <3>1. [hubSub[c] EXCEPT !.send = t] \in Subscriber
        BY <1>2, <2>3 DEF Subscriber, t
      <3>2. r = [hubSub[c] EXCEPT !.send = t]
        BY DEF t
      <3> QED BY <1>2, <3>1, <3>2 DEF t, Subscriber
    <2> HIDE DEF s, r
    <2>5. hubSub' \in [HubConns -> Subscriber] /\ \A e \in HubConns : hubSub'[e] = IF e = c THEN r ELSE hubSub[e]
      BY <1>2, <2>1, <2>4
    <2>6. hubUnregister' \in [HubConns -> Nat] /\ \A e \in HubConns : hubUnregister'[e] >= hubUnregister[e]
      <3>1. CASE hubUnregister' = hubUnregister
        BY <1>2, <3>1
      <3>2. CASE hubUnregister' = [hubUnregister EXCEPT ![c] = hubUnregister[c] + 1]
        <4>1. \A e \in HubConns : hubUnregister'[e] = IF e = c THEN hubUnregister[e] + 1 ELSE hubUnregister[e]
          BY <1>2, <3>2
        <4>2. hubUnregister' \in [HubConns -> Nat]
          BY <1>2, <3>2
        <4>3. \A e \in HubConns : hubUnregister[e] \in Nat
          BY <1>2
        <4> QED BY <4>1, <4>2, <4>3
      <3> QED BY <2>1, <3>1, <3>2
    <2>7. hubDelivered' \in [HubConns -> Seq(Nat)]
          /\ \A e \in HubConns : Queued(hubDelivered'[e], hubSub'[e].send, hubSeq, hubBroadcast)
      <3>1. CASE UNCHANGED hubDelivered
        BY <1>2, <2>3, <2>4, <2>5, <3>1 DEF Numbered
      <3>2. CASE hubDelivered' = [hubDelivered EXCEPT ![c] = Append(hubDelivered[c], Head(s))]
        <4> DEFINE d == Append(hubDelivered[c], Head(s))
        <4> HIDE DEF d
        <4>1. d \in Seq(Nat) /\ Queued(d, Tail(s), hubSeq, hubBroadcast) /\ hubDelivered' = [hubDelivered EXCEPT ![c] = d]
          BY <2>3, <3>2 DEF d
        <4>2. \A e \in HubConns : hubDelivered'[e] = IF e = c THEN d ELSE hubDelivered[e]
          BY <1>2, <4>1
        <4>3. hubDelivered' \in [HubConns -> Seq(Nat)]
          BY <1>2, <4>1
        <4> QED BY <1>2, <2>4, <2>5, <4>1, <4>2, <4>3 DEF Numbered
      <3> QED BY <2>1, <3>1, <3>2
    <2>8. HubTypes'
      BY <1>1, <1>2, <2>1, <2>5, <2>6, <2>7 DEF HubTypes
    <2>9. Lifecycle'
      <3> SUFFICES ASSUME NEW e \in HubConns
                   PROVE  /\ hubReader'[e] = "new" => e \notin hubRegister' /\ e \notin hubSubscribers' /\ hubSub'[e].open /\ hubMissed'[e] = {}
                          /\ e \in hubRegister' => e \notin hubSubscribers' /\ hubSub'[e].open /\ hubMissed'[e] = {}
                          /\ e \in hubSubscribers' => hubSub'[e].open /\ (hubMissed'[e] # {} => hubUnregister'[e] > 0)
                          /\ hubSub'[e].open \/ hubSub'[e].done
        BY DEF Lifecycle
      <3>1. hubUnregister[e] \in Nat /\ hubUnregister'[e] \in Nat /\ hubUnregister'[e] >= hubUnregister[e]
        BY <1>2, <2>6
      <3>2. hubSub'[e].open = hubSub[e].open /\ hubSub'[e].done = hubSub[e].done
        BY <2>4, <2>5
      <3> QED BY <1>1, <1>2, <3>1, <3>2 DEF Lifecycle
    <2>10. Numbered'
      BY <1>1, <1>2, <2>7 DEF Numbered
    <2> QED BY <1>1, <1>2, <2>8, <2>9, <2>10 DEF HubInv, HubCrash
  <1> QED BY <1>3, <1>4

\* What the hub sends to the connections of a set.
LEMMA SentQueues ==
    ASSUME HubTypes, NEW to, NEW n \in Nat
    PROVE  /\ Hub!Sent(to, n) \in [HubConns -> Subscriber]
           /\ \A c \in HubConns :
                /\ Hub!Sent(to, n)[c].open = hubSub[c].open /\ Hub!Sent(to, n)[c].done = hubSub[c].done
                /\ Hub!Sent(to, n)[c].send \in {hubSub[c].send, Append(hubSub[c].send, n)}
  <1> SUFFICES ASSUME NEW c \in HubConns
               PROVE  LET r == IF c \in to /\ ~Hub!Full(c) THEN [hubSub[c] EXCEPT !.send = Append(@, n)] ELSE hubSub[c]
                      IN  r \in Subscriber /\ r.open = hubSub[c].open /\ r.done = hubSub[c].done
                          /\ r.send \in {hubSub[c].send, Append(hubSub[c].send, n)}
    BY DEF Hub!Sent
  <1> DEFINE t == Append(hubSub[c].send, n)
             r == [hubSub[c] EXCEPT !.send = t]
  <1>1. hubSub[c] \in Subscriber /\ hubSub[c].send \in Seq(Nat)
    BY DEF HubTypes, Subscriber
  <1>2. t \in Seq(Nat)
    BY <1>1
  <1>3. r \in Subscriber /\ r.open = hubSub[c].open /\ r.done = hubSub[c].done /\ r.send = t
    <2> HIDE DEF t
    <2> QED BY <1>1, <1>2 DEF Subscriber
  <1> QED BY <1>1, <1>3

\* A message of the hub with number n goes to subscribers: one of an event
\* that nobody was sent before and nothing waits to be.
HubSends(to, n) ==
    /\ to \subseteq hubSubscribers /\ n \in Nat /\ n <= hubSeq'
    /\ hubSub' = Hub!Sent(to, n) /\ hubSeq' \in Nat /\ hubBroadcast' \in Events
    /\ \A c \in HubConns : /\ Queued(hubDelivered[c], hubSub[c].send, hubSeq', hubBroadcast')
                           /\ \A i \in DOMAIN hubSub[c].send : hubSub[c].send[i] # n
                           /\ \A i \in DOMAIN hubDelivered[c] : hubDelivered[c][i] # n
    /\ \A j \in DOMAIN hubBroadcast' : hubBroadcast'[j].seq \in 1..hubSeq' /\ hubBroadcast'[j].seq # n
    /\ \A i, j \in DOMAIN hubBroadcast' : i < j => hubBroadcast'[i].seq # hubBroadcast'[j].seq

\* Who misses a message is to be removed; only a race ends the process.
HubMisses ==
    /\ hubUnregister' \in [HubConns -> Nat] /\ hubMissed' \in [HubConns -> SUBSET Nat]
    /\ \A c \in HubConns : /\ hubUnregister'[c] >= hubUnregister[c]
                           /\ hubMissed'[c] # hubMissed[c] => c \in hubSubscribers /\ hubUnregister'[c] > 0
    /\ UNCHANGED <<hubReader, hubWriter, hubExpiry, hubSubscribers, hubRegister, hubDelivered>>
    /\ hubCrashed' => \E c \in hubSubscribers : hubReader[c] = "edit" \/ ~hubSub[c].open

LEMMA HubSendInv ==
    ASSUME HubInv, ~hubCrashed, NEW to, NEW n, HubSends(to, n), HubMisses
    PROVE  HubInv'
  <1> USE DEF HubSends, HubMisses
  <1>1. HubTypes /\ Lifecycle /\ Numbered
    BY DEF HubInv
  <1>2. /\ hubSub' \in [HubConns -> Subscriber]
        /\ \A c \in HubConns : /\ hubSub'[c].open = hubSub[c].open /\ hubSub'[c].done = hubSub[c].done
                               /\ hubSub'[c].send \in {hubSub[c].send, Append(hubSub[c].send, n)}
    BY <1>1, SentQueues
  <1>3. HubTypes'
    BY <1>1, <1>2 DEF HubTypes, Events
  <1>4. ASSUME NEW c \in HubConns PROVE Queued(hubDelivered'[c], hubSub'[c].send, hubSeq', hubBroadcast')
    <2>1. hubDelivered[c] \in Seq(Nat) /\ hubSub[c].send \in Seq(Nat) /\ hubDelivered' = hubDelivered
      BY <1>1 DEF HubTypes, Subscriber
    <2> DEFINE s == hubSub[c].send
               q == hubSeq'
               b == hubBroadcast'
               d == hubDelivered[c]
    <2>2. Queued(d, s, q, b) /\ q \in Nat /\ b \in Events /\ n \in Nat /\ n <= q
      OBVIOUS
    <2>3. n # Hub!AuthExpiring => /\ \A i \in DOMAIN s : s[i] # n
                                  /\ \A i \in DOMAIN d : d[i] # n
                                  /\ \A j \in DOMAIN b : b[j].seq # n
      OBVIOUS
    <2>4. d \in Seq(Nat) /\ s \in Seq(Nat)
      BY <2>1
    <2> HIDE DEF s, q, b, d
    <2>5. Queued(d, Append(s, n), q, b)
      BY <2>2, <2>3, <2>4, QueuedSent
    <2> QED BY <1>2, <2>1, <2>2, <2>5 DEF s, q, b, d
  <1>5. Numbered'
    BY <1>4 DEF Numbered
  <1>6. Lifecycle'
    <2> SUFFICES ASSUME NEW e \in HubConns
                 PROVE  /\ hubReader'[e] = "new" => e \notin hubRegister' /\ e \notin hubSubscribers' /\ hubSub'[e].open /\ hubMissed'[e] = {}
                        /\ e \in hubRegister' => e \notin hubSubscribers' /\ hubSub'[e].open /\ hubMissed'[e] = {}
                        /\ e \in hubSubscribers' => hubSub'[e].open /\ (hubMissed'[e] # {} => hubUnregister'[e] > 0)
                        /\ hubSub'[e].open \/ hubSub'[e].done
      BY DEF Lifecycle
    <2>1. hubUnregister[e] \in Nat /\ hubUnregister'[e] \in Nat /\ hubUnregister'[e] >= hubUnregister[e]
      BY <1>1 DEF HubTypes
    <2>2. hubSub'[e].open = hubSub[e].open /\ hubSub'[e].done = hubSub[e].done
      BY <1>2
    <2> QED BY <1>1, <2>1, <2>2 DEF Lifecycle
  <1>7. HubCrash'
    BY <1>1 DEF HubCrash, Lifecycle, HubTypes
  <1> QED BY <1>3, <1>5, <1>6, <1>7 DEF HubInv

LEMMA HubHeartbeatInv == ASSUME HubInv, ~hubCrashed, Hub!SendHeartbeat PROVE HubInv'
  <1> DEFINE n == hubSeq + 1
  <1>1. HubTypes /\ Lifecycle /\ Numbered
    BY DEF HubInv
  <1>2. /\ hubSeq' = n /\ n \in Nat /\ hubSeq \in Nat /\ hubBroadcast \in Events
        /\ hubSub' = Hub!Sent(hubSubscribers, n)
        /\ hubCrashed' = \E c \in hubSubscribers : ~hubSub[c].open
        /\ UNCHANGED <<hubReader, hubWriter, hubExpiry, hubSubscribers, hubRegister, hubUnregister, hubBroadcast, hubDelivered, hubMissed>>
    BY <1>1 DEF Hub!SendHeartbeat, HubTypes, Events
  <1>3. n > hubSeq
    BY <1>2
  <1> HIDE DEF n
  <1>4. ASSUME NEW c \in HubConns
        PROVE  /\ Queued(hubDelivered[c], hubSub[c].send, n, hubBroadcast)
               /\ \A i \in DOMAIN hubSub[c].send : hubSub[c].send[i] # n
               /\ \A i \in DOMAIN hubDelivered[c] : hubDelivered[c][i] # n
    <2> DEFINE s == hubSub[c].send
               d == hubDelivered[c]
    <2>1. d \in Seq(Nat) /\ s \in Seq(Nat) /\ Queued(d, s, hubSeq, hubBroadcast)
      BY <1>1 DEF HubTypes, Subscriber, Numbered
    <2> HIDE DEF s, d
    <2>2. \A j \in DOMAIN hubBroadcast : hubBroadcast[j].seq > hubSeq \/ \E k \in DOMAIN hubBroadcast : hubBroadcast[k].seq = hubBroadcast[j].seq
      OBVIOUS
    <2>3. Queued(d, s, n, hubBroadcast)
      BY <1>2, <1>3, <2>1, <2>2, QueuedLater
    <2>4. (\A i \in DOMAIN s : s[i] \in Nat /\ s[i] <= hubSeq) /\ (\A i \in DOMAIN d : d[i] \in Nat /\ d[i] <= hubSeq)
      BY <2>1 DEF Queued, Given
    <2>5. (\A i \in DOMAIN s : s[i] # n) /\ (\A i \in DOMAIN d : d[i] # n)
      BY <1>2, <1>3, <2>4
    <2> QED BY <2>3, <2>5 DEF s, d
  <1>5. \A j \in DOMAIN hubBroadcast : hubBroadcast[j].seq \in 1..n /\ hubBroadcast[j].seq # n
    BY <1>1, <1>2, <1>3 DEF Numbered
  <1>6. \A i, j \in DOMAIN hubBroadcast : i < j => hubBroadcast[i].seq # hubBroadcast[j].seq
    BY <1>1 DEF Numbered
  <1>7. /\ hubUnregister' \in [HubConns -> Nat] /\ hubMissed' \in [HubConns -> SUBSET Nat]
        /\ \A c \in HubConns : /\ hubUnregister'[c] >= hubUnregister[c]
                               /\ hubMissed'[c] # hubMissed[c] => c \in hubSubscribers /\ hubUnregister'[c] > 0
    BY <1>1, <1>2 DEF HubTypes
  <1>8. hubSubscribers \in SUBSET hubSubscribers /\ n <= hubSeq' /\ hubBroadcast' = hubBroadcast
    BY <1>2
  <1>9. HubSends(hubSubscribers, n)
    BY <1>2, <1>4, <1>5, <1>6, <1>8 DEF HubSends
  <1>10. HubMisses
    BY <1>2, <1>7 DEF HubMisses
  <1> QED BY <1>9, <1>10, HubSendInv

LEMMA HubFanOutInv == ASSUME HubInv, ~hubCrashed, NEW racers, Hub!FanOut(racers) PROVE HubInv'
  <1> DEFINE m == Head(hubBroadcast)
             n == m.seq
             b == Tail(hubBroadcast)
             matching == {c \in hubSubscribers : m.topic \in hubSub[c].topics \/ "all" \in hubSub[c].topics}
             to == (matching \ racers) \cup (racers \ matching)
             full == {c \in to : Hub!Full(c)}
  <1>1. HubTypes /\ Lifecycle /\ Numbered
    BY DEF HubInv
  <1>2. /\ hubBroadcast # <<>> /\ racers \subseteq {c \in hubSubscribers : hubReader[c] = "edit"}
        /\ hubSub' = Hub!Sent(to, n) /\ hubBroadcast' = b
        /\ hubUnregister' = [c \in HubConns |-> IF c \in full THEN hubUnregister[c] + 1 ELSE hubUnregister[c]]
        /\ hubMissed' = [c \in HubConns |-> IF c \in full THEN hubMissed[c] \cup {n} ELSE hubMissed[c]]
        /\ hubCrashed' \in IF \E c \in to : ~hubSub[c].open THEN {TRUE} ELSE {FALSE, racers # {}}
        /\ UNCHANGED <<hubReader, hubWriter, hubExpiry, hubSubscribers, hubRegister, hubSeq, hubDelivered>>
    BY DEF Hub!FanOut, Hub!Dropped
  <1>3. /\ hubSeq \in Nat /\ hubBroadcast \in Events /\ b \in Events /\ n \in Nat /\ n <= hubSeq /\ n # 0
        /\ 1 \in DOMAIN hubBroadcast /\ hubBroadcast[1].seq = n
        /\ \A j \in DOMAIN b : j + 1 \in DOMAIN hubBroadcast /\ b[j] = hubBroadcast[j + 1] /\ j \in Nat \ {0}
    <2> DEFINE E == [topic : HubTopics, seq : Nat]
    <2>1. hubBroadcast \in Seq(E) /\ hubBroadcast # <<>> /\ hubSeq \in Nat
      BY <1>1, <1>2 DEF HubTypes
    <2>2. m \in E /\ m = hubBroadcast[1] /\ n \in Nat /\ 1 \in DOMAIN hubBroadcast
      <3>1. m = hubBroadcast[1] /\ 1 \in DOMAIN hubBroadcast
        <4> HIDE DEF E
        <4> QED BY <2>1
      <3>2. m \in E
        <4> HIDE DEF E
        <4> QED BY <2>1, <3>1
      <3> HIDE DEF m
      <3>3. m.seq \in Nat
        BY <3>2
      <3> QED BY <3>1, <3>2, <3>3 DEF m
    <2>3. n \in 1..hubSeq
      BY <1>1, <2>2 DEF Numbered
    <2> HIDE DEF E
    <2>4. b \in Seq(E) /\ Len(b) = Len(hubBroadcast) - 1 /\ Len(hubBroadcast) \in Nat \ {0}
          /\ DOMAIN hubBroadcast = 1..Len(hubBroadcast)
      BY <2>1
    <2>5. \A j \in 1..(Len(hubBroadcast) - 1) : b[j] = hubBroadcast[j + 1]
      BY <2>1
    <2> HIDE DEF b, m, n
    <2>6. DOMAIN b = 1..(Len(hubBroadcast) - 1)
      BY <2>4
    <2>7. \A j \in DOMAIN b : j + 1 \in DOMAIN hubBroadcast /\ b[j] = hubBroadcast[j + 1] /\ j \in Nat \ {0}
      BY <2>4, <2>5, <2>6
    <2>8. hubBroadcast[1].seq = n
      BY <2>2 DEF n
    <2> QED BY <2>1, <2>2, <2>3, <2>4, <2>7, <2>8 DEF Events, E
  <1>4. to \in SUBSET hubSubscribers /\ full \subseteq hubSubscribers /\ (racers # {} => \E c \in hubSubscribers : hubReader[c] = "edit")
    BY <1>2
  <1>5. hubCrashed' => \E c \in hubSubscribers : hubReader[c] = "edit" \/ ~hubSub[c].open
    BY <1>2, <1>4
  <1> HIDE DEF m, n, b, matching, to, full
  <1>6. ASSUME NEW c \in HubConns
        PROVE  /\ Queued(hubDelivered[c], hubSub[c].send, hubSeq, b)
               /\ \A i \in DOMAIN hubSub[c].send : hubSub[c].send[i] # n
               /\ \A i \in DOMAIN hubDelivered[c] : hubDelivered[c][i] # n
    <2> DEFINE s == hubSub[c].send
               d == hubDelivered[c]
    <2>1. d \in Seq(Nat) /\ s \in Seq(Nat) /\ Queued(d, s, hubSeq, hubBroadcast)
      BY <1>1 DEF HubTypes, Subscriber, Numbered
    <2> HIDE DEF s, d
    <2>2. \A j \in DOMAIN b : b[j].seq > hubSeq \/ \E k \in DOMAIN hubBroadcast : hubBroadcast[k].seq = b[j].seq
      BY <1>3
    <2>3. Queued(d, s, hubSeq, b)
      BY <1>3, <2>1, <2>2, QueuedLater
    <2>4. \A t : Given(t, hubSeq, hubBroadcast) => \A i \in DOMAIN t : t[i] # n
      BY <1>3 DEF Given, Hub!AuthExpiring
    <2>5. (\A i \in DOMAIN s : s[i] # n) /\ (\A i \in DOMAIN d : d[i] # n)
      BY <2>1, <2>4 DEF Queued
    <2> QED BY <2>3, <2>5 DEF s, d
  <1>7. \A j \in DOMAIN b : b[j].seq \in 1..hubSeq /\ b[j].seq # n
    <2> SUFFICES ASSUME NEW j \in DOMAIN b PROVE b[j].seq \in 1..hubSeq /\ b[j].seq # n
      OBVIOUS
    <2>1. j + 1 \in DOMAIN hubBroadcast /\ b[j] = hubBroadcast[j + 1] /\ 1 < j + 1
      BY <1>3
    <2>2. hubBroadcast[1].seq # hubBroadcast[j + 1].seq
      BY <1>1, <1>3, <2>1 DEF Numbered
    <2> QED BY <1>1, <1>3, <2>1, <2>2 DEF Numbered
  <1>8. \A i, j \in DOMAIN b : i < j => b[i].seq # b[j].seq
    <2> SUFFICES ASSUME NEW i \in DOMAIN b, NEW j \in DOMAIN b, i < j PROVE b[i].seq # b[j].seq
      OBVIOUS
    <2>1. i + 1 \in DOMAIN hubBroadcast /\ j + 1 \in DOMAIN hubBroadcast /\ i + 1 < j + 1
          /\ b[i] = hubBroadcast[i + 1] /\ b[j] = hubBroadcast[j + 1]
      BY <1>3
    <2> QED BY <1>1, <2>1 DEF Numbered
  <1>9. /\ hubUnregister' \in [HubConns -> Nat] /\ hubMissed' \in [HubConns -> SUBSET Nat]
        /\ \A c \in HubConns : /\ hubUnregister'[c] >= hubUnregister[c]
                               /\ hubMissed'[c] # hubMissed[c] => c \in hubSubscribers /\ hubUnregister'[c] > 0
    <2>1. hubUnregister \in [HubConns -> Nat] /\ hubMissed \in [HubConns -> SUBSET Nat]
      BY <1>1 DEF HubTypes
    <2>2. hubUnregister' \in [HubConns -> Nat] /\ hubMissed' \in [HubConns -> SUBSET Nat]
      BY <1>2, <1>3, <2>1
    <2>3. ASSUME NEW c \in HubConns
          PROVE  hubUnregister'[c] >= hubUnregister[c] /\ (hubMissed'[c] # hubMissed[c] => c \in hubSubscribers /\ hubUnregister'[c] > 0)
      <3>1. hubUnregister[c] \in Nat
        BY <2>1
      <3>2. CASE c \in full
        BY <1>2, <1>4, <3>1, <3>2
      <3>3. CASE c \notin full
        BY <1>2, <3>1, <3>3
      <3> QED BY <3>2, <3>3
    <2> QED BY <2>2, <2>3
  <1>10. hubBroadcast' = b /\ hubSeq' = hubSeq /\ n <= hubSeq'
    BY <1>2, <1>3
  <1>11. HubSends(to, n)
    BY <1>2, <1>3, <1>4, <1>6, <1>7, <1>8, <1>10 DEF HubSends
  <1>12. HubMisses
    BY <1>2, <1>5, <1>9 DEF HubMisses
  <1> QED BY <1>11, <1>12, HubSendInv

LEMMA HubBroadcastInv == ASSUME HubInv, ~hubCrashed, NEW t \in HubTopics, Hub!Broadcast(t) PROVE HubInv'
  <1> DEFINE n == hubSeq + 1
             e == [topic |-> t, seq |-> n]
             l == Len(hubBroadcast)
  <1>1. HubTypes /\ Lifecycle /\ Numbered
    BY DEF HubInv
  <1>2. /\ hubSeq' = n /\ (hubBroadcast' = hubBroadcast \/ hubBroadcast' = Append(hubBroadcast, e))
        /\ UNCHANGED <<hubSub, hubReader, hubWriter, hubExpiry, hubSubscribers, hubRegister, hubUnregister, hubDelivered, hubMissed, hubCrashed>>
    BY DEF Hub!Broadcast
  <1>3. hubSeq \in Nat /\ n \in Nat /\ n > hubSeq /\ hubBroadcast \in Events
    BY <1>1 DEF HubTypes, Events
  <1>4. e \in [topic : HubTopics, seq : Nat] /\ e.seq = n
    BY <1>3
  <1> HIDE DEF n, e
  <1>5. /\ hubBroadcast' \in Events
        /\ \A j \in DOMAIN hubBroadcast' :
              \/ j = l + 1 /\ hubBroadcast'[j] = e
              \/ j \in DOMAIN hubBroadcast /\ hubBroadcast'[j] = hubBroadcast[j]
        /\ l \in Nat /\ DOMAIN hubBroadcast = 1..l /\ (\A j \in DOMAIN hubBroadcast' : j \in 1..(l + 1))
    <2> DEFINE E == [topic : HubTopics, seq : Nat]
    <2>1. hubBroadcast \in Seq(E) /\ e \in E
      BY <1>3, <1>4 DEF Events
    <2> HIDE DEF E
    <2>2. Append(hubBroadcast, e) \in Seq(E) /\ l \in Nat /\ DOMAIN hubBroadcast = 1..l
          /\ DOMAIN Append(hubBroadcast, e) = 1..(l + 1) /\ Append(hubBroadcast, e)[l + 1] = e
          /\ \A j \in 1..l : Append(hubBroadcast, e)[j] = hubBroadcast[j]
      BY <2>1
    <2> HIDE DEF l
    <2>3. hubBroadcast' \in Seq(E)
      BY <1>2, <2>1, <2>2
    <2>4. ASSUME NEW j \in DOMAIN hubBroadcast'
          PROVE  /\ j \in 1..(l + 1)
                 /\ \/ j = l + 1 /\ hubBroadcast'[j] = e
                    \/ j \in DOMAIN hubBroadcast /\ hubBroadcast'[j] = hubBroadcast[j]
      <3>1. CASE hubBroadcast' = hubBroadcast
        BY <2>2, <2>4, <3>1
      <3>2. CASE hubBroadcast' = Append(hubBroadcast, e)
        BY <2>2, <2>4, <3>2
      <3> QED BY <1>2, <3>1, <3>2
    <2>5. hubBroadcast' \in Events
      BY <2>3 DEF E, Events
    <2> QED BY <2>2, <2>4, <2>5
  <1> HIDE DEF l
  <1>6. \A j \in DOMAIN hubBroadcast : hubBroadcast[j].seq \in 1..hubSeq
    BY <1>1 DEF Numbered
  <1>7. \A j \in DOMAIN hubBroadcast' : hubBroadcast'[j].seq \in 1..hubSeq'
    BY <1>2, <1>3, <1>4, <1>5, <1>6
  <1>8. ASSUME NEW i \in DOMAIN hubBroadcast', NEW j \in DOMAIN hubBroadcast', i < j
        PROVE  hubBroadcast'[i].seq # hubBroadcast'[j].seq
    <2>1. i \in DOMAIN hubBroadcast /\ hubBroadcast'[i] = hubBroadcast[i]
      <3>1. i \in 1..(l + 1) /\ j \in 1..(l + 1) /\ i # l + 1
        BY <1>5, <1>8
      <3> QED BY <1>5, <3>1
    <2>2. hubBroadcast[i].seq \in 1..hubSeq
      BY <1>6, <2>1
    <2>3. CASE j = l + 1 /\ hubBroadcast'[j] = e
      BY <1>3, <1>4, <2>1, <2>2, <2>3
    <2>4. CASE j \in DOMAIN hubBroadcast /\ hubBroadcast'[j] = hubBroadcast[j]
      BY <1>1, <1>8, <2>1, <2>4 DEF Numbered
    <2> QED BY <1>5, <2>3, <2>4
  <1>9. ASSUME NEW c \in HubConns PROVE Queued(hubDelivered'[c], hubSub'[c].send, hubSeq', hubBroadcast')
    <2> DEFINE s == hubSub[c].send
               d == hubDelivered[c]
               b == hubBroadcast'
    <2>1. d \in Seq(Nat) /\ s \in Seq(Nat) /\ Queued(d, s, hubSeq, hubBroadcast)
      BY <1>1 DEF HubTypes, Subscriber, Numbered
    <2>2. \A j \in DOMAIN b : b[j].seq > hubSeq \/ \E k \in DOMAIN hubBroadcast : hubBroadcast[k].seq = b[j].seq
      BY <1>3, <1>4, <1>5
    <2>3. b \in Events
      BY <1>5
    <2> HIDE DEF s, d, b
    <2>4. Queued(d, s, n, b)
      BY <1>3, <2>1, <2>2, <2>3, QueuedLater
    <2> QED BY <1>2, <2>4 DEF s, d, b
  <1>10. Numbered'
    BY <1>7, <1>8, <1>9 DEF Numbered
  <1>11. HubTypes'
    BY <1>1, <1>2, <1>3, <1>5 DEF HubTypes, Events
  <1> QED BY <1>1, <1>2, <1>10, <1>11 DEF HubInv, Lifecycle, HubCrash

LEMMA HubExpirySendInv == ASSUME HubInv, ~hubCrashed, NEW c \in HubConns, Hub!ExpirySend(c) PROVE HubInv'
  <1>1. HubTypes /\ Lifecycle /\ Numbered /\ hubSub \in [HubConns -> Subscriber] /\ hubSub[c] \in Subscriber
    BY DEF HubInv, HubTypes
  <1>2. UNCHANGED <<hubReader, hubWriter, hubSubscribers, hubRegister, hubUnregister, hubBroadcast, hubSeq, hubDelivered, hubMissed>>
    BY DEF Hub!ExpirySend
  <1>3. CASE hubSub[c].open
    <2> DEFINE t == Append(hubSub[c].send, Hub!AuthExpiring)
               r == [hubSub[c] EXCEPT !.send = t]
    <2>1. hubSub' = [hubSub EXCEPT ![c] = r] /\ hubExpiry' = [hubExpiry EXCEPT ![c] = "expire"] /\ UNCHANGED hubCrashed
      BY <1>3 DEF Hub!ExpirySend
    <2>2. /\ hubDelivered[c] \in Seq(Nat) /\ hubSub[c].send \in Seq(Nat) /\ hubSeq \in Nat /\ hubBroadcast \in Events
          /\ Queued(hubDelivered[c], hubSub[c].send, hubSeq, hubBroadcast)
      BY <1>1 DEF HubTypes, Subscriber, Numbered, Events
    <2>3. t \in Seq(Nat) /\ Queued(hubDelivered[c], t, hubSeq, hubBroadcast)
      <3>1. Hub!AuthExpiring \in Nat /\ Hub!AuthExpiring <= hubSeq
        BY <2>2 DEF Hub!AuthExpiring
      <3> QED BY <2>2, <3>1, QueuedSent
    <2>4. r \in Subscriber /\ r.send = t /\ r.open = hubSub[c].open /\ r.done = hubSub[c].done
      <3> HIDE DEF t
      <3> QED BY <1>1, <2>3 DEF Subscriber
    <2> HIDE DEF t, r
    <2>5. hubSub' \in [HubConns -> Subscriber] /\ \A e \in HubConns : hubSub'[e] = IF e = c THEN r ELSE hubSub[e]
      BY <1>1, <2>1, <2>4
    <2>6. HubTypes'
      BY <1>1, <1>2, <2>1, <2>5 DEF HubTypes
    <2>7. Lifecycle'
      BY <1>1, <1>2, <2>4, <2>5 DEF Lifecycle
    <2>8. Numbered'
      BY <1>1, <1>2, <2>3, <2>4, <2>5 DEF Numbered
    <2> QED BY <2>1, <2>6, <2>7, <2>8 DEF HubInv, HubCrash
  <1>4. CASE ~hubSub[c].open
    <2>1. UNCHANGED <<hubSub, hubExpiry>> /\ hubExpiry[c] = "send"
      BY <1>4 DEF Hub!ExpirySend
    <2>2. hubSub[c].done
      BY <1>1, <1>4 DEF Lifecycle
    <2>3. HubCrash'
      BY <2>1, <2>2 DEF HubCrash
    <2> QED BY <1>1, <1>2, <2>1, <2>3 DEF HubInv, HubTypes, Lifecycle, Numbered
  <1> QED BY <1>3, <1>4

LEMMA HubInvNext == HubInv /\ [Hub!Next]_(Hub!vars) => HubInv'
  <1> SUFFICES ASSUME HubInv, [Hub!Next]_(Hub!vars) PROVE HubInv'
    OBVIOUS
  <1>1. ASSUME UNCHANGED Hub!vars PROVE HubInv'
    BY <1>1 DEF Hub!vars, HubInv, HubTypes, Lifecycle, Numbered, HubCrash
  <1> QED BY <1>1, HubReaderInv, HubRegisterInv, HubUnregisterInv, HubWriterInv, HubHeartbeatInv, HubFanOutInv,
             HubBroadcastInv, HubExpirySendInv DEF Hub!Next

(***************************************************************************)
(* The event streams: every number is delivered at most once to each       *)
(* connection, whoever misses one is on the way out, and the hub itself    *)
(* never sends on a queue it has closed, for any number of connections,    *)
(* topics and events and queues of any size.                               *)
(***************************************************************************)
THEOREM HubDelivery == Hub!Spec => []SlowAreDisconnected
  <1>1. HubInv => SlowAreDisconnected
    <2> SUFFICES ASSUME HubInv PROVE SlowAreDisconnected
      OBVIOUS
    <2>1. \A c \in HubConns : \A i, j \in DOMAIN hubDelivered[c] :
             i < j /\ hubDelivered[c][i] = hubDelivered[c][j] => hubDelivered[c][i] = Hub!AuthExpiring
      BY DEF HubInv, Numbered, Queued, Once
    <2>2. \A c \in hubSubscribers : hubSub[c].open /\ (hubMissed[c] # {} => hubUnregister[c] > 0)
      BY DEF HubInv, HubTypes, Lifecycle
    <2> QED BY <2>1, <2>2 DEF HubInv, HubCrash, SlowAreDisconnected, Hub!SlowAreDisconnected
  <1> QED BY <1>1, HubInvInit, HubInvNext, PTL DEF Hub!Spec

-----------------------------------------------------------------------------
(* The run                                                                 *)

\* A component that does not move keeps its variables.
LEMMA AvailabilityAlone ==
    ASSUME NEW k, Alone(k)
    PROVE  /\ k # "emergency" => UNCHANGED vars
           /\ k # "streams" => UNCHANGED Hub!vars
           /\ k # "replicas" => UNCHANGED Rep!vars
  <1>1. k # "emergency" => UNCHANGED vars
    BY DEF Alone
  <1>2. k # "streams" => UNCHANGED hubVars
    BY DEF Alone
  <1>3. k # "replicas" => UNCHANGED repVars
    BY DEF Alone
  <1> QED BY <1>1, <1>2, <1>3
          DEF hubVars, Hub!vars, repVars, Rep!vars

\* No component touches another's storage, so that a behaviour of all is one
\* of each.
LEMMA AvailabilityAreApart ==
    AvailabilitySpec => Spec /\ Hub!Spec /\ Rep!Spec
  <1>1. AvailabilityInit => Init /\ Hub!Init /\ Rep!Init
    BY DEF AvailabilityInit
  <1>2. UNCHANGED all => UNCHANGED vars /\ UNCHANGED Hub!vars /\ UNCHANGED Rep!vars
    BY DEF all, hubVars, Hub!vars, repVars, Rep!vars
  <1>3. [AvailabilityNext]_all => [Next]_vars
    BY <1>2, AvailabilityAlone DEF AvailabilityNext, EmergencyNext, Next
  <1>4. [AvailabilityNext]_all => [Hub!Next]_(Hub!vars)
    BY <1>2, AvailabilityAlone DEF AvailabilityNext
  <1>5. [AvailabilityNext]_all => [Rep!Next]_(Rep!vars)
    BY <1>2, AvailabilityAlone DEF AvailabilityNext
  <1> QED BY <1>1, <1>3, <1>4, <1>5, PTL
          DEF AvailabilitySpec, Spec, Hub!Spec, Rep!Spec

(***************************************************************************)
(* What is proved of each part holds of all of them together, as they are  *)
(* explored: pauses hold as declared with their timers, a slow subscriber  *)
(* is disconnected and reads are fresh.                                    *)
(***************************************************************************)
THEOREM AvailabilityTogether ==
    AvailabilitySpec => /\ [](TimerBelongsToPause /\ SlowAreDisconnected /\ ReadsAreFresh)
                        /\ PausesHoldAsDeclared
  <1> QED BY AvailabilityAreApart, EmergencyTimers, EmergencyPausesHold, HubDelivery,
             ReplicaFreshness, PTL
=============================================================================
