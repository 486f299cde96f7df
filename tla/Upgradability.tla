---------------------------- MODULE Upgradability ----------------------------
(***************************************************************************)
(* The timelock-gated upgrade flow, contracts/src/upgradability.rs.        *)
(*                                                                         *)
(* A contract call is one atomic step; a call that would panic is not      *)
(* enabled.  The new WASM is assumed to keep this module's code: what      *)
(* other code would do with the storage is not this contract's doing.      *)
(***************************************************************************)
EXTENDS Naturals, Sequences

CONSTANTS
    Addr,           \* account and contract addresses
    Hash,           \* WASM hashes
    None,           \* an absent storage entry
    Timelocks,      \* timelock durations an admin may set
    MaxU64,         \* largest value of a u64 (a scaled-down 2^64 - 1)
    MaxTime,        \* bound: ledger timestamps
    MaxUpgrades     \* bound: upgrades executed

VARIABLES
    admin,          \* UpgradeDataKey::Admin, None before initialize
    timelock,       \* UpgradeDataKey::TimelockDuration
    version,        \* UpgradeDataKey::CurrentVersion
    previousWasm,   \* UpgradeDataKey::PreviousWasmHash
    pending,        \* UpgradeDataKey::PendingUpgrade
    governance,     \* UpgradeDataKey::GovernanceContract
    records,        \* UpgradeDataKey::UpgradeRecord(i) is records[i + 1]
    wasm,           \* the hash of the code the host runs for this contract
    now             \* env.ledger().timestamp()

vars == <<admin, timelock, version, previousWasm, pending, governance, records, wasm, now>>

UpgradeProposal == [new_wasm_hash: Hash, proposed_at: 0..MaxTime,
                    execute_after: 0..MaxU64, governance_approved: BOOLEAN]

UpgradeRecord == [version: Nat, wasm_hash: Hash, timestamp: 0..MaxTime]

\* UpgradeDataKey::UpgradeCount is written together with every record.
UpgradeCount == Len(records)

-----------------------------------------------------------------------------
Initialize(caller, duration) ==
    /\ admin = None
    /\ admin' = caller
    /\ timelock' = duration
    /\ version' = 1
    /\ UNCHANGED <<previousWasm, pending, governance, records, wasm, now>>

\* now + timelock is a checked u64 addition: when it overflows, the call panics.
ExecuteAfterFits == now + timelock <= MaxU64

NonePending_Unchecked == TRUE

NonePending == pending = None

ProposeUpgrade(caller, hash) ==
    /\ caller = admin
    /\ NonePending
    /\ ExecuteAfterFits
    /\ pending' = [new_wasm_hash       |-> hash,
                   proposed_at         |-> now,
                   execute_after       |-> now + timelock,
                   governance_approved |-> FALSE]
    /\ UNCHANGED <<admin, timelock, version, previousWasm, governance, records, wasm, now>>

ApproveUpgradeGovernance(caller) ==
    /\ governance # None
    /\ caller = governance
    /\ pending # None
    /\ pending' = [pending EXCEPT !.governance_approved = TRUE]
    /\ UNCHANGED <<admin, timelock, version, previousWasm, governance, records, wasm, now>>

NextVersion == version + 1

\* execute_upgrade_bookkeeping: everything but the swap of the WASM.
Bookkeeping(caller) ==
    /\ caller = admin
    /\ pending # None
    /\ now >= pending.execute_after
    /\ governance # None => pending.governance_approved
    /\ UpgradeCount < MaxUpgrades
    /\ records' = Append(records, [version   |-> version,
                                   wasm_hash |-> pending.new_wasm_hash,
                                   timestamp |-> now])
    /\ version' = NextVersion
    /\ previousWasm' = pending.new_wasm_hash
    /\ pending' = None
    /\ UNCHANGED <<admin, timelock, governance, now>>

ExecuteUpgrade(caller) ==
    /\ Bookkeeping(caller)
    /\ wasm' = pending.new_wasm_hash

ExecuteUpgradeDryRun(caller) ==
    /\ Bookkeeping(caller)
    /\ UNCHANGED wasm

CancelUpgrade(caller) ==
    /\ caller = admin
    /\ pending # None
    /\ pending' = None
    /\ UNCHANGED <<admin, timelock, version, previousWasm, governance, records, wasm, now>>

SetTimelock(caller, duration) ==
    /\ caller = admin
    /\ timelock' = duration
    /\ UNCHANGED <<admin, version, previousWasm, pending, governance, records, wasm, now>>

SetGovernanceContract(caller, contract) ==
    /\ caller = admin
    /\ governance' = contract
    /\ UNCHANGED <<admin, timelock, version, previousWasm, pending, records, wasm, now>>

Tick ==
    /\ now < MaxTime
    /\ now' \in (now + 1)..MaxTime
    /\ UNCHANGED <<admin, timelock, version, previousWasm, pending, governance, records, wasm>>

-----------------------------------------------------------------------------
Init ==
    /\ admin = None
    /\ timelock = 0
    /\ version = 1
    /\ previousWasm = None
    /\ pending = None
    /\ governance = None
    /\ records = <<>>
    /\ wasm \in Hash
    /\ now = 0

Next ==
    \/ \E a \in Addr, d \in Timelocks : Initialize(a, d) \/ SetTimelock(a, d)
    \/ \E a \in Addr, h \in Hash : ProposeUpgrade(a, h)
    \/ \E a \in Addr : \/ ApproveUpgradeGovernance(a)
                       \/ ExecuteUpgrade(a)
                       \/ ExecuteUpgradeDryRun(a)
                       \/ CancelUpgrade(a)
    \/ \E a \in Addr, g \in Addr \cup {None} : SetGovernanceContract(a, g)
    \/ Tick

Spec == Init /\ [][Next]_vars

-----------------------------------------------------------------------------
\* Every storage entry has the type the contract reads it back as.
TypeOK ==
    /\ admin \in Addr \cup {None}
    /\ timelock \in 0..MaxU64
    /\ version \in Nat
    /\ previousWasm \in Hash \cup {None}
    /\ pending \in UpgradeProposal \cup {None}
    /\ governance \in Addr \cup {None}
    /\ records \in Seq(UpgradeRecord)
    /\ wasm \in Hash
    /\ now \in 0..MaxTime

\* The history has one record per version left behind, in version order and in
\* the order of time: execute_upgrade bumps the version exactly when it records.
HistoryIsComplete ==
    /\ version = UpgradeCount + 1
    /\ \A i \in DOMAIN records :
         /\ records[i].version = i
         /\ records[i].timestamp <= now
    /\ \A i, j \in DOMAIN records : i <= j => records[i].timestamp <= records[j].timestamp

\* The contract implements the announced-upgrade promise: set_timelock,
\* set_governance_contract and a second propose_upgrade never touch what an
\* open proposal announced, and only execute_upgrade and cancel_upgrade close it.
Gate == INSTANCE TimelockedUpgrade WITH
    Target <- Hash,
    pending <- IF pending = None THEN {}
               ELSE {[target   |-> pending.new_wasm_hash,
                      after    |-> pending.execute_after,
                      approved |-> pending.governance_approved]},
    gate <- governance # None,
    installs <- UpgradeCount

AnnouncedUpgrade == Gate!Spec
=============================================================================
