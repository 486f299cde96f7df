-------------------------- MODULE EmergencyControl --------------------------
(***************************************************************************)
(* Emergency controls, contracts/src/emergency_control/mod.rs: pauses with *)
(* an optional auto-unpause ledger, the price and volume circuit breaker,  *)
(* and the timelocked, multi-signature recovery of funds.                  *)
(*                                                                         *)
(* A panic undoes every write of its call, so a call that panics is no     *)
(* step.  An audit record keeps its scope, its direction and its reason;   *)
(* amounts, initiators, record timestamps and events are never read back   *)
(* and are left out.                                                       *)
(***************************************************************************)
EXTENDS Integers, Sequences, FiniteSets, SequencesExt

CONSTANTS
    Addr,           \* account addresses
    None,           \* no admin yet
    AssetIds,       \* assets
    Scopes,         \* pause scopes: records of kind and arg
    UnpauseLedgers, \* auto-unpause ledgers an admin may ask for; 0 is none
    Prices,         \* prices recorded
    SignerLists,    \* signer lists an admin may configure
    Thresholds,     \* thresholds an admin may configure
    Cooldown,       \* ledgers the circuit breaker pauses for (720)
    PriceWindow,    \* seconds a price drop is measured over (3600)
    Timelock,       \* EMERGENCY_TIMELOCK_SECS
    CloseSecs,      \* seconds a ledger may take to close
    MaxLedger,      \* bound: ledger sequence number
    MaxWithdrawals, \* bound: withdrawals ever proposed
    MaxHistory      \* bound: audit records of one asset

ScopeKinds == {"All", "Transfers", "Trading", "Minting", "Function", "User", "Asset"}

ASSUME EmergencyAssumption ==
    /\ None \notin Addr
    /\ \A s \in Scopes : {"kind", "arg"} \subseteq DOMAIN s /\ s.kind \in ScopeKinds
    /\ UnpauseLedgers \subseteq Nat
    /\ Prices \subseteq Int
    /\ SignerLists \subseteq Seq(Addr)
    /\ Thresholds \subseteq Nat
    /\ Cooldown \in Nat \ {0} /\ PriceWindow \in Nat /\ Timelock \in Nat
    /\ CloseSecs \subseteq Nat
    /\ MaxLedger \in Nat /\ MaxWithdrawals \in Nat /\ MaxHistory \in Nat

WithdrawalIds == 1..MaxWithdrawals

VARIABLES
    admin,          \* ec_admin
    flag,           \* p_<asset>_<scope index>: the pause flag
    timer,          \* au_<asset>_<scope index>: the auto-unpause ledger, 0 when absent
    history,        \* ph_<asset>: the audit trail
    price,          \* cb_p_<asset>: last price, 0 when absent
    priceTime,      \* cb_t_<asset>: when it was recorded
    signers,        \* ew_signers
    threshold,      \* ew_threshold, 0 before configure_recovery_multisig
    whitelist,      \* ew_whitelist, kept as a set
    nonce,          \* ew_nonce
    withdrawals,    \* ew_<id>; status "Absent" before it is proposed
    approvers,      \* ea_<id>: the signers who approved, kept as a set
    sequence,       \* env.ledger().sequence()
    now             \* env.ledger().timestamp()

pauseVars == <<flag, timer, history, price, priceTime>>
recoveryVars == <<signers, threshold, whitelist, nonce, withdrawals, approvers>>
clock == <<sequence, now>>
vars == <<admin, pauseVars, recoveryVars, clock>>

\* pause_flag_key and auto_unpause_key: the scope's index is all that is left
\* of it, so the scopes of one kind share one flag and one timer.
Key(asset, scope) == <<asset, scope.kind>>

Keys == AssetIds \X ScopeKinds

NoWithdrawal == [destination |-> None, proposed_at |-> 0, execute_after |-> 0,
                 approvals |-> 0, status |-> "Absent"]

-----------------------------------------------------------------------------
Initialize(caller) ==
    /\ admin = None
    /\ admin' = caller
    /\ UNCHANGED <<pauseVars, recoveryVars, clock>>

RequireAdmin(caller) == admin # None /\ caller = admin

Record(scope, isPause, reason) ==
    [scope |-> scope, is_pause |-> isPause, reason |-> reason]

AppendHistory(asset, record) ==
    /\ Len(history[asset]) < MaxHistory
    /\ history' = [history EXCEPT ![asset] = Append(@, record)]

NotYetPaused(asset, scope) == ~flag[Key(asset, scope)]

PauseAsset(caller, asset, scope, unpauseLedger) ==
    /\ RequireAdmin(caller)
    /\ NotYetPaused(asset, scope)
    /\ flag' = [flag EXCEPT ![Key(asset, scope)] = TRUE]
    /\ timer' = IF unpauseLedger > 0
                  THEN [timer EXCEPT ![Key(asset, scope)] = unpauseLedger]
                  ELSE timer
    /\ AppendHistory(asset, Record(scope, TRUE, "manual"))
    /\ UNCHANGED <<admin, price, priceTime, recoveryVars, clock>>

UnpauseAsset_TimerLeft(caller, asset, scope) ==
    /\ RequireAdmin(caller)
    /\ flag[Key(asset, scope)]
    /\ flag' = [flag EXCEPT ![Key(asset, scope)] = FALSE]
    /\ AppendHistory(asset, Record(scope, FALSE, "manual_unpause"))
    /\ UNCHANGED <<admin, timer, price, priceTime, recoveryVars, clock>>

UnpauseAsset(caller, asset, scope) ==
    /\ RequireAdmin(caller)
    /\ flag[Key(asset, scope)]
    /\ flag' = [flag EXCEPT ![Key(asset, scope)] = FALSE]
    /\ timer' = [timer EXCEPT ![Key(asset, scope)] = 0]
    /\ AppendHistory(asset, Record(scope, FALSE, "manual_unpause"))
    /\ UNCHANGED <<admin, price, priceTime, recoveryVars, clock>>

\* check_auto_unpause_internal's condition.
Expired(asset, scope) ==
    LET t == timer[Key(asset, scope)] IN t # 0 /\ sequence >= t

AllScope == [kind |-> "All", arg |-> None]

\* is_paused: the timer of the scope, then that of All, is looked at; an
\* expired one goes, with the flag it belongs to, and leaves a record.
LiftExpired(asset, scope) ==
    LET lifted == {s \in {scope, AllScope} : Expired(asset, s)}
        keys == {Key(asset, s) : s \in lifted}
        recordOf(s) == IF s \in lifted THEN <<Record(s, FALSE, "auto_unpause")>> ELSE <<>>
        added == recordOf(scope) \o (IF scope.kind = "All" THEN <<>> ELSE recordOf(AllScope))
    IN /\ Len(history[asset]) + Len(added) <= MaxHistory
       /\ flag' = [k \in Keys |-> IF k \in keys THEN FALSE ELSE flag[k]]
       /\ timer' = [k \in Keys |-> IF k \in keys THEN 0 ELSE timer[k]]
       /\ history' = [history EXCEPT ![asset] = @ \o added]

IsPaused(asset, scope) ==
    /\ LiftExpired(asset, scope)
    /\ UNCHANGED <<admin, price, priceTime, recoveryVars, clock>>

\* require_not_paused panics, and so lifts nothing, when the asset is still
\* paused.
RequireNotPaused(asset, scope) ==
    /\ LiftExpired(asset, scope)
    /\ ~flag'[Key(asset, scope)] /\ ~flag'[Key(asset, AllScope)]
    /\ UNCHANGED <<admin, price, priceTime, recoveryVars, clock>>

-----------------------------------------------------------------------------
TradingScope == [kind |-> "Trading", arg |-> None]

\* record_price and record_volume: pause trading for the cooldown, unless it
\* is paused already.
TripBreaker_Extend(asset, tripped) ==
    IF tripped
      THEN /\ flag' = [flag EXCEPT ![Key(asset, TradingScope)] = TRUE]
           /\ timer' = [timer EXCEPT ![Key(asset, TradingScope)] = sequence + Cooldown]
           /\ IF NotYetPaused(asset, TradingScope)
                THEN AppendHistory(asset, Record(TradingScope, TRUE, "circuit_breaker"))
                ELSE UNCHANGED history
      ELSE UNCHANGED <<flag, timer, history>>

TripBreaker(asset, tripped) ==
    IF tripped /\ NotYetPaused(asset, TradingScope)
      THEN /\ flag' = [flag EXCEPT ![Key(asset, TradingScope)] = TRUE]
           /\ timer' = [timer EXCEPT ![Key(asset, TradingScope)] = sequence + Cooldown]
           /\ AppendHistory(asset, Record(TradingScope, TRUE, "circuit_breaker"))
      ELSE UNCHANGED <<flag, timer, history>>

RecordPrice(caller, asset, p) ==
    /\ RequireAdmin(caller)
    /\ p > 0
    /\ price' = [price EXCEPT ![asset] = p]
    /\ priceTime' = [priceTime EXCEPT ![asset] = now]
    /\ TripBreaker(asset, price[asset] # 0 /\ now - priceTime[asset] <= PriceWindow
                          /\ p * 2 < price[asset])
    /\ UNCHANGED <<admin, recoveryVars, clock>>

\* spike is volume > threshold, for a positive threshold.
RecordVolume(caller, asset, spike) ==
    /\ RequireAdmin(caller)
    /\ TripBreaker(asset, spike)
    /\ UNCHANGED <<admin, price, priceTime, recoveryVars, clock>>

CircuitBreakerUnpause(caller, asset) == UnpauseAsset(caller, asset, TradingScope)

-----------------------------------------------------------------------------
ConfigureRecoveryMultisig(caller, list, t) ==
    /\ RequireAdmin(caller)
    /\ t \in 1..Len(list)
    /\ signers' = list
    /\ threshold' = t
    /\ UNCHANGED <<admin, pauseVars, whitelist, nonce, withdrawals, approvers, clock>>

AddRecoveryDestination(caller, dest) ==
    /\ RequireAdmin(caller)
    /\ dest \notin whitelist
    /\ whitelist' = whitelist \cup {dest}
    /\ UNCHANGED <<admin, pauseVars, signers, threshold, nonce, withdrawals, approvers, clock>>

RemoveRecoveryDestination(caller, dest) ==
    /\ RequireAdmin(caller)
    /\ dest \in whitelist
    /\ whitelist' = whitelist \ {dest}
    /\ UNCHANGED <<admin, pauseVars, signers, threshold, nonce, withdrawals, approvers, clock>>

NextNonce == nonce + 1

ProposeEmergencyWithdrawal(caller, dest) ==
    /\ RequireAdmin(caller)
    /\ dest \in whitelist
    /\ NextNonce \in WithdrawalIds
    /\ nonce' = NextNonce
    /\ withdrawals' = [withdrawals EXCEPT ![NextNonce] =
                         [destination |-> dest, proposed_at |-> now,
                          execute_after |-> now + Timelock, approvals |-> 0,
                          status |-> "Open"]]
    /\ UNCHANGED <<admin, pauseVars, signers, threshold, whitelist, approvers, clock>>

NotYetApproved(caller, id) == caller \notin approvers[id]

\* The withdrawal is looked up after the approver is stored; a missing or a
\* closed one panics and undoes that write.
ApproveEmergencyWithdrawal(caller, id) ==
    /\ threshold # 0
    /\ caller \in Range(signers)
    /\ NotYetApproved(caller, id)
    /\ withdrawals[id].status = "Open"
    /\ approvers' = [approvers EXCEPT ![id] = @ \cup {caller}]
    /\ withdrawals' = [withdrawals EXCEPT ![id].approvals = @ + 1]
    /\ UNCHANGED <<admin, pauseVars, signers, threshold, whitelist, nonce, clock>>

TimelockExpired(id) == now >= withdrawals[id].execute_after

NotClosed(id) == withdrawals[id].status = "Open"

ExecuteEmergencyWithdrawal(caller, id) ==
    /\ RequireAdmin(caller)
    /\ NotClosed(id)
    /\ TimelockExpired(id)
    /\ threshold # 0
    /\ withdrawals[id].approvals >= threshold
    /\ withdrawals' = [withdrawals EXCEPT ![id].status = "Executed"]
    /\ UNCHANGED <<admin, pauseVars, signers, threshold, whitelist, nonce, approvers, clock>>

CancelEmergencyWithdrawal(caller, id) ==
    /\ RequireAdmin(caller)
    /\ NotClosed(id)
    /\ withdrawals' = [withdrawals EXCEPT ![id].status = "Cancelled"]
    /\ UNCHANGED <<admin, pauseVars, signers, threshold, whitelist, nonce, approvers, clock>>

-----------------------------------------------------------------------------
\* A ledger closes.
CloseLedger(secs) ==
    /\ sequence < MaxLedger
    /\ sequence' = sequence + 1
    /\ now' = now + secs
    /\ UNCHANGED <<admin, pauseVars, recoveryVars>>

Init ==
    /\ admin = None
    /\ flag = [k \in Keys |-> FALSE]
    /\ timer = [k \in Keys |-> 0]
    /\ history = [a \in AssetIds |-> <<>>]
    /\ price = [a \in AssetIds |-> 0]
    /\ priceTime = [a \in AssetIds |-> 0]
    /\ signers = <<>>
    /\ threshold = 0
    /\ whitelist = {}
    /\ nonce = 0
    /\ withdrawals = [id \in WithdrawalIds |-> NoWithdrawal]
    /\ approvers = [id \in WithdrawalIds |-> {}]
    /\ sequence = 1
    /\ now = 0

PauseNext ==
    \E c \in Addr, a \in AssetIds :
       \/ \E s \in Scopes : \/ \E u \in UnpauseLedgers : PauseAsset(c, a, s, u)
                            \/ UnpauseAsset(c, a, s)
                            \/ IsPaused(a, s)
                            \/ RequireNotPaused(a, s)
       \/ \E p \in Prices : RecordPrice(c, a, p)
       \/ \E spike \in BOOLEAN : RecordVolume(c, a, spike)
       \/ CircuitBreakerUnpause(c, a)

RecoveryNext ==
    \E c \in Addr :
       \/ \E list \in SignerLists, t \in Thresholds : ConfigureRecoveryMultisig(c, list, t)
       \/ \E dest \in Addr : \/ AddRecoveryDestination(c, dest)
                             \/ RemoveRecoveryDestination(c, dest)
                             \/ ProposeEmergencyWithdrawal(c, dest)
       \/ \E id \in WithdrawalIds : \/ ApproveEmergencyWithdrawal(c, id)
                                    \/ ExecuteEmergencyWithdrawal(c, id)
                                    \/ CancelEmergencyWithdrawal(c, id)

Next ==
    \/ \E c \in Addr : Initialize(c)
    \/ \E secs \in CloseSecs : CloseLedger(secs)
    \/ PauseNext
    \/ RecoveryNext

Spec == Init /\ [][Next]_vars

-----------------------------------------------------------------------------
PauseRecord == [scope : Scopes \cup {AllScope, TradingScope}, is_pause : BOOLEAN,
                reason : {"manual", "manual_unpause", "auto_unpause", "circuit_breaker"}]

\* Storage holds values of its types, and every entry of the recovery part
\* appears with the withdrawal it belongs to.
TypeOK ==
    /\ admin \in Addr \cup {None}
    /\ flag \in [Keys -> BOOLEAN]
    /\ timer \in [Keys -> Nat]
    /\ history \in [AssetIds -> Seq(PauseRecord)]
    /\ price \in [AssetIds -> Nat] /\ priceTime \in [AssetIds -> Nat]
    /\ signers \in Seq(Addr)
    /\ threshold \in 0..Len(signers)
    /\ whitelist \in SUBSET Addr
    /\ nonce \in 0..MaxWithdrawals
    /\ withdrawals \in [WithdrawalIds ->
          [destination : Addr \cup {None}, proposed_at : Nat, execute_after : Nat,
           approvals : Nat, status : {"Absent", "Open", "Executed", "Cancelled"}]]
    /\ approvers \in [WithdrawalIds -> SUBSET Addr]
    /\ sequence \in Nat /\ now \in Nat

\* An auto-unpause timer belongs to a pause that is in force: whichever way a
\* pause ends (unpause_asset, is_paused, require_not_paused), its timer ends
\* with it, so that a later pause without a timer is never lifted by an old one.
TimerBelongsToPause == \A k \in Keys : timer[k] # 0 => flag[k]

\* The audit trail of a flag (get_pause_history) alternates pause and unpause
\* from a pause on, and its last record says what the flag says: manual
\* pauses, the circuit breaker and the auto-unpause inside is_paused leave no
\* gap and no duplicate.
TrailOf(k) == SelectSeq(history[k[1]], LAMBDA r : r.scope.kind = k[2])

HistoryExplainsFlags ==
    \A k \in Keys : LET t == TrailOf(k) IN
        /\ \A i \in DOMAIN t : t[i].is_pause = (i % 2 = 1)
        /\ flag[k] = (Len(t) % 2 = 1)

\* While a pause is in force its auto-unpause ledger is what the call that
\* paused said, and it ends by an admin's unpause or once that ledger is
\* reached: the circuit breaker neither shortens nor extends a manual pause,
\* and no query lifts a pause early.
PausesHoldAsDeclared ==
    [][\A k \in Keys : flag[k] =>
          IF flag'[k] THEN timer'[k] = timer[k]
          ELSE \/ Last(history'[k[1]]).reason = "manual_unpause"
               \/ timer[k] # 0 /\ sequence >= timer[k]]_vars

\* The approvals a withdrawal counts are those of distinct signers, and only
\* of a withdrawal that was proposed.
ApprovalsAreDistinct ==
    \A id \in WithdrawalIds :
        /\ withdrawals[id].approvals = Cardinality(approvers[id])
        /\ withdrawals[id].status = "Absent" <=> id > nonce

\* Funds leave only by a withdrawal that as many distinct signers approved as
\* the threshold in force asks for, the full timelock after it was proposed,
\* and neither an executed nor a cancelled withdrawal ever changes again.
RecoveryIsBackedAndFinal ==
    [][\A id \in WithdrawalIds :
          /\ withdrawals[id].status \in {"Executed", "Cancelled"}
               => withdrawals'[id] = withdrawals[id]
          /\ withdrawals'[id].status = "Executed" /\ withdrawals[id].status # "Executed"
               => /\ threshold > 0
                  /\ Cardinality(approvers[id]) >= threshold
                  /\ now >= withdrawals[id].proposed_at + Timelock]_vars

\* Funds are only sent to a destination that is on the recovery whitelist
\* (docs/EMERGENCY_PROCEDURES.md); execute_emergency_withdrawal does not look
\* at the whitelist again.
ExecutedToWhitelisted ==
    [][\A id \in WithdrawalIds :
          withdrawals'[id].status = "Executed" /\ withdrawals[id].status # "Executed"
             => withdrawals[id].destination \in whitelist]_vars
=============================================================================
