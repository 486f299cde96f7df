-------------------------------- MODULE Proxy --------------------------------
(***************************************************************************)
(* The upgradeable proxy, contracts/src/upgradeable/proxy.rs.              *)
(*                                                                         *)
(* Unlike Upgradability, it keeps an open proposal in three separate       *)
(* storage entries and can roll back to the implementation before the last *)
(* change.                                                                 *)
(***************************************************************************)
EXTENDS Naturals, Sequences

CONSTANTS
    Addr,           \* account and contract addresses
    Self,           \* the proxy's own address
    None,           \* an absent storage entry
    DefaultTimelock, \* DEFAULT_TIMELOCK
    Timelocks,      \* timelock durations an admin may set
    MaxU64,         \* largest value of a u64 (a scaled-down 2^64 - 1)
    MaxTime,        \* bound: ledger timestamps
    MaxUpgrades     \* bound: upgrades and rollbacks

ASSUME ProxyAssumption ==
    /\ Self \in Addr
    /\ None \notin Addr
    /\ MaxU64 \in Nat
    /\ MaxTime \in 0..MaxU64
    /\ DefaultTimelock \in 0..MaxU64
    /\ Timelocks \subseteq 0..MaxU64
    /\ MaxUpgrades \in Nat

VARIABLES
    admin,          \* ProxyDataKey::Admin, None before initialize
    implementation, \* ProxyDataKey::Implementation
    previous,       \* ProxyDataKey::PreviousImplementation
    pendingImpl,    \* ProxyDataKey::PendingImplementation
    executeAfter,   \* ProxyDataKey::ExecuteAfter
    approved,       \* ProxyDataKey::GovernanceApproved, None when absent
    timelock,       \* ProxyDataKey::TimelockDuration
    version,        \* ProxyDataKey::CurrentVersion
    approver,       \* ProxyDataKey::GovernanceApprover
    records,        \* ProxyDataKey::UpgradeRecord(i) is records[i + 1]
    proposedAdmins, \* the addresses of the admin_proposed events published
    now             \* env.ledger().timestamp()

pendingVars == <<pendingImpl, executeAfter, approved>>
codeVars == <<implementation, previous, version, records>>
configVars == <<admin, timelock, approver, proposedAdmins>>
vars == <<pendingVars, codeVars, configVars, now>>

ProxyUpgradeRecord == [version: Nat, implementation: Addr,
                       previous_implementation: Addr, timestamp: 0..MaxTime]

\* ProxyDataKey::UpgradeCount is written together with every record.
UpgradeCount == Len(records)

IsUpgradeReady_Early == pendingImpl # None

IsUpgradeReady == pendingImpl # None /\ now >= executeAfter

-----------------------------------------------------------------------------
Initialize(caller, impl) ==
    /\ admin = None
    /\ admin' = caller
    /\ implementation' = impl
    /\ version' = 1
    /\ timelock' = DefaultTimelock
    /\ UNCHANGED <<previous, records, approver, proposedAdmins, pendingVars, now>>

ValidateImplementation(impl) == impl # Self /\ impl # implementation

ProposeImplementation(caller, impl) ==
    /\ caller = admin
    /\ pendingImpl = None
    /\ ValidateImplementation(impl)
    /\ now + timelock <= MaxU64
    /\ pendingImpl' = impl
    /\ executeAfter' = now + timelock
    /\ approved' = FALSE
    /\ UNCHANGED <<codeVars, configVars, now>>

ApproveImplementation(caller) ==
    /\ approver # None
    /\ caller = approver
    /\ pendingImpl # None
    /\ approved' = TRUE
    /\ UNCHANGED <<pendingImpl, executeAfter, codeVars, configVars, now>>

\* What execute_upgrade and rollback both write.
Install_UnrecordedPrevious(impl) ==
    /\ UpgradeCount < MaxUpgrades
    /\ implementation' = impl
    /\ previous' = implementation
    /\ version' = version + 1
    /\ records' = Append(records, [version                 |-> version + 1,
                                   implementation          |-> impl,
                                   previous_implementation |-> impl,
                                   timestamp               |-> now])

Install(impl) ==
    /\ UpgradeCount < MaxUpgrades
    /\ implementation' = impl
    /\ previous' = implementation
    /\ version' = version + 1
    /\ records' = Append(records, [version                 |-> version + 1,
                                   implementation          |-> impl,
                                   previous_implementation |-> implementation,
                                   timestamp               |-> now])

ClearPending ==
    /\ pendingImpl' = None
    /\ executeAfter' = None
    /\ approved' = None

ExecuteUpgrade(caller) ==
    /\ caller = admin
    /\ IsUpgradeReady
    /\ approver # None => approved = TRUE
    /\ Install(pendingImpl)
    /\ ClearPending
    /\ UNCHANGED <<configVars, now>>

CancelUpgrade(caller) ==
    /\ caller = admin
    /\ pendingImpl # None
    /\ ClearPending
    /\ UNCHANGED <<codeVars, configVars, now>>

Rollback(caller) ==
    /\ caller = admin
    /\ previous # None
    /\ Install(previous)
    /\ UNCHANGED <<pendingVars, configVars, now>>

\* propose_admin stores nothing: it only publishes an event.
ProposeAdmin(caller, newAdmin) ==
    /\ caller = admin
    /\ newAdmin # admin
    /\ proposedAdmins' = proposedAdmins \cup {newAdmin}
    /\ UNCHANGED <<admin, timelock, approver, pendingVars, codeVars, now>>

AcceptAdmin(newAdmin) ==
    /\ admin # None
    /\ newAdmin # admin
    /\ admin' = newAdmin
    /\ UNCHANGED <<timelock, approver, proposedAdmins, pendingVars, codeVars, now>>

SetTimelock(caller, seconds) ==
    /\ caller = admin
    /\ timelock' = seconds
    /\ UNCHANGED <<admin, approver, proposedAdmins, pendingVars, codeVars, now>>

SetGovernanceApprover(caller, newApprover) ==
    /\ caller = admin
    /\ approver' = newApprover
    /\ UNCHANGED <<admin, timelock, proposedAdmins, pendingVars, codeVars, now>>

Tick ==
    /\ now < MaxTime
    /\ now' \in (now + 1)..MaxTime
    /\ UNCHANGED <<pendingVars, codeVars, configVars>>

-----------------------------------------------------------------------------
Init ==
    /\ admin = None
    /\ implementation = None
    /\ previous = None
    /\ pendingImpl = None
    /\ executeAfter = None
    /\ approved = None
    /\ timelock = DefaultTimelock
    /\ version = 1
    /\ approver = None
    /\ records = <<>>
    /\ proposedAdmins = {}
    /\ now = 0

Next ==
    \/ \E a, i \in Addr : Initialize(a, i) \/ ProposeImplementation(a, i) \/ ProposeAdmin(a, i)
    \/ \E a \in Addr : \/ ApproveImplementation(a)
                       \/ ExecuteUpgrade(a)
                       \/ CancelUpgrade(a)
                       \/ Rollback(a)
                       \/ AcceptAdmin(a)
    \/ \E a \in Addr, s \in Timelocks : SetTimelock(a, s)
    \/ \E a \in Addr, g \in Addr \cup {None} : SetGovernanceApprover(a, g)
    \/ Tick

Spec == Init /\ [][Next]_vars

-----------------------------------------------------------------------------
\* Every storage entry has the type the contract reads it back as, and the
\* three entries of an open proposal are present or absent together, which
\* execute_upgrade relies on when it unwraps them one by one.
TypeOK ==
    /\ admin \in Addr \cup {None}
    /\ implementation \in Addr \cup {None}
    /\ admin = None <=> implementation = None
    /\ previous \in Addr \cup {None}
    /\ \/ pendingImpl = None /\ executeAfter = None /\ approved = None
       \/ pendingImpl \in Addr /\ executeAfter \in 0..MaxU64 /\ approved \in BOOLEAN
    /\ timelock \in 0..MaxU64
    /\ version \in Nat
    /\ approver \in Addr \cup {None}
    /\ records \in Seq(ProxyUpgradeRecord)
    /\ proposedAdmins \subseteq Addr
    /\ now \in 0..MaxTime

\* "every version bump is recorded, so the deployed version is auditable":
\* through any mix of upgrades and rollbacks the records are a chain, each one
\* starting from the implementation the one before installed, and its end is
\* what the proxy points at and would roll back to.
HistoryIsAuditable ==
    /\ version = UpgradeCount + 1
    /\ \A i \in DOMAIN records : records[i].version = i + 1
    /\ \A i \in 2..UpgradeCount :
         records[i].previous_implementation = records[i - 1].implementation
    /\ UpgradeCount > 0 =>
         /\ implementation = records[UpgradeCount].implementation
         /\ previous = records[UpgradeCount].previous_implementation

\* The proxy implements the announced-upgrade promise, with rollback as the
\* only change of code that needs no announcement.
Gate == INSTANCE TimelockedUpgrade WITH
    Target <- Addr,
    pending <- IF pendingImpl = None THEN {}
               ELSE {[target |-> pendingImpl, after |-> executeAfter, approved |-> approved]},
    gate <- approver # None,
    installs <- UpgradeCount

AnnouncedUpgrade == Gate!Spec

\* "Transfer proxy administration. Two-step: propose, then accept."
AdminWasProposedStep == admin # None /\ admin' # admin => admin' \in proposedAdmins

AdminWasProposed == [][AdminWasProposedStep]_vars
=============================================================================
