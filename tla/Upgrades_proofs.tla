--------------------------- MODULE Upgrades_proofs ---------------------------
(***************************************************************************)
(* Proofs about the two upgrade contracts, Proxy and Upgradability: their  *)
(* entries stay typed and together, their histories tell every upgrade and *)
(* rollback in order, and both implement TimelockedUpgrade, for every set  *)
(* of addresses and hashes, every timelock and any number of upgrades.     *)
(***************************************************************************)
EXTENDS MCUpgrades, SequenceTheorems, TLAPS

-----------------------------------------------------------------------------
(* The proxy                                                               *)

\* The records of a rollback or an upgrade are as long as there were installs.
LEMMA InstallAppends ==
    ASSUME TypeOK, NEW impl \in Addr, Install(impl), implementation # None
    PROVE  /\ records' \in Seq(ProxyUpgradeRecord)
           /\ UpgradeCount' = UpgradeCount + 1
           /\ version' \in Nat
           /\ implementation' \in Addr
           /\ previous' \in Addr
  <1> DEFINE rec == [version                 |-> version + 1,
                     implementation          |-> impl,
                     previous_implementation |-> implementation,
                     timestamp               |-> now]
  <1>1. rec \in ProxyUpgradeRecord
    BY DEF TypeOK, ProxyUpgradeRecord
  <1>2. records' = Append(records, rec)
    BY DEF Install
  <1>3. records \in Seq(ProxyUpgradeRecord)
    BY DEF TypeOK
  <1> HIDE DEF rec
  <1>4. records' \in Seq(ProxyUpgradeRecord) /\ Len(records') = Len(records) + 1
    BY <1>1, <1>2, <1>3
  <1> QED BY <1>4 DEF Install, TypeOK, UpgradeCount

\* Every call of the proxy keeps its entries typed and together.
LEMMA NextTypeOK == TypeOK /\ [Next]_vars => TypeOK'
  <1> SUFFICES ASSUME TypeOK, [Next]_vars PROVE TypeOK'
    OBVIOUS
  <1> USE ProxyAssumption
  <1>1. ASSUME NEW a \in Addr, NEW i \in Addr, Initialize(a, i) PROVE TypeOK'
    BY <1>1 DEF TypeOK, Initialize, pendingVars
  <1>2. ASSUME NEW a \in Addr, NEW i \in Addr, ProposeImplementation(a, i) PROVE TypeOK'
    <2>1. now + timelock \in 0..MaxU64
      BY <1>2 DEF TypeOK, ProposeImplementation
    <2> QED BY <1>2, <2>1 DEF TypeOK, ProposeImplementation, codeVars, configVars
  <1>3. ASSUME NEW a \in Addr, NEW i \in Addr, ProposeAdmin(a, i) PROVE TypeOK'
    BY <1>3 DEF TypeOK, ProposeAdmin, pendingVars, codeVars
  <1>4. ASSUME NEW a \in Addr, ApproveImplementation(a) PROVE TypeOK'
    BY <1>4 DEF TypeOK, ApproveImplementation, codeVars, configVars
  <1>5. ASSUME NEW a \in Addr, ExecuteUpgrade(a) PROVE TypeOK'
    <2>1. Install(pendingImpl) /\ pendingImpl \in Addr /\ implementation # None
      BY <1>5 DEF TypeOK, ExecuteUpgrade, IsUpgradeReady
    <2>2. /\ records' \in Seq(ProxyUpgradeRecord)
          /\ version' \in Nat
          /\ implementation' \in Addr
          /\ previous' \in Addr
      BY <2>1, InstallAppends
    <2> QED BY <1>5, <2>2 DEF TypeOK, ExecuteUpgrade, ClearPending, configVars
  <1>6. ASSUME NEW a \in Addr, CancelUpgrade(a) PROVE TypeOK'
    BY <1>6 DEF TypeOK, CancelUpgrade, ClearPending, codeVars, configVars
  <1>7. ASSUME NEW a \in Addr, Rollback(a) PROVE TypeOK'
    <2>1. Install(previous) /\ previous \in Addr /\ implementation # None
      BY <1>7 DEF TypeOK, Rollback
    <2>2. /\ records' \in Seq(ProxyUpgradeRecord)
          /\ version' \in Nat
          /\ implementation' \in Addr
          /\ previous' \in Addr
      BY <2>1, InstallAppends
    <2> QED BY <1>7, <2>2 DEF TypeOK, Rollback, pendingVars, configVars
  <1>8. ASSUME NEW a \in Addr, AcceptAdmin(a) PROVE TypeOK'
    BY <1>8 DEF TypeOK, AcceptAdmin, pendingVars, codeVars
  <1>9. ASSUME NEW a \in Addr, NEW s \in Timelocks, SetTimelock(a, s) PROVE TypeOK'
    BY <1>9 DEF TypeOK, SetTimelock, pendingVars, codeVars
  <1>10. ASSUME NEW a \in Addr, NEW g \in Addr \cup {None}, SetGovernanceApprover(a, g)
         PROVE TypeOK'
    BY <1>10 DEF TypeOK, SetGovernanceApprover, pendingVars, codeVars
  <1>11. CASE Tick
    BY <1>11 DEF TypeOK, Tick, pendingVars, codeVars, configVars
  <1>12. CASE UNCHANGED vars
    BY <1>12 DEF TypeOK, vars, pendingVars, codeVars, configVars
  <1> QED
    BY <1>1, <1>2, <1>3, <1>4, <1>5, <1>6, <1>7, <1>8, <1>9, <1>10, <1>11, <1>12 DEF Next

(***************************************************************************)
(* For any proxy, the entries stay typed, and the three entries of an open *)
(* proposal are present or absent together.                                *)
(***************************************************************************)
THEOREM ProxyTypeOK == Spec => []TypeOK
  <1>1. Init => TypeOK
    BY ProxyAssumption DEF Init, TypeOK
  <1> QED BY <1>1, NextTypeOK, PTL DEF Spec

-----------------------------------------------------------------------------
\* A rollback target exists only once something was installed.
PreviousInstalled == previous # None => UpgradeCount > 0

\* Only execute_upgrade and rollback write PreviousImplementation, and both record.
LEMMA NextPreviousInstalled ==
    TypeOK /\ PreviousInstalled /\ [Next]_vars => PreviousInstalled'
  <1> SUFFICES ASSUME TypeOK, PreviousInstalled, [Next]_vars PROVE PreviousInstalled'
    OBVIOUS
  <1>1. UpgradeCount \in Nat
    BY DEF TypeOK, UpgradeCount
  <1>2. ASSUME NEW i \in Addr, Install(i), implementation # None PROVE PreviousInstalled'
    BY <1>1, <1>2, InstallAppends DEF PreviousInstalled
  <1>3. ASSUME NEW a \in Addr, ExecuteUpgrade(a) \/ Rollback(a)
        PROVE  \E i \in Addr : Install(i) /\ implementation # None
    BY <1>3, ProxyAssumption DEF TypeOK, ExecuteUpgrade, Rollback, IsUpgradeReady
  <1>4. ASSUME UNCHANGED <<previous, records>> PROVE PreviousInstalled'
    BY <1>4 DEF PreviousInstalled, UpgradeCount
  <1>5. \/ \E a \in Addr : ExecuteUpgrade(a) \/ Rollback(a)
        \/ UNCHANGED <<previous, records>>
    BY DEF Next, vars, Initialize, ProposeImplementation, ProposeAdmin, ApproveImplementation,
           CancelUpgrade, AcceptAdmin, SetTimelock, SetGovernanceApprover, Tick, codeVars
  <1> QED BY <1>2, <1>3, <1>4, <1>5

(***************************************************************************)
(* Every step of the proxy is a step of the announced-upgrade              *)
(* specification or leaves its variables unchanged.                        *)
(***************************************************************************)
LEMMA NextIsGateStep ==
    ASSUME TypeOK, TypeOK', PreviousInstalled, [Next]_vars
    PROVE  [Gate!Next]_(Gate!vars)
  <1> USE ProxyAssumption
  <1>0. UpgradeCount \in Nat /\ now \in Nat
    BY DEF TypeOK, UpgradeCount
  <1>1. ASSUME UNCHANGED <<pendingVars, approver, records, now>> PROVE UNCHANGED Gate!vars
    BY <1>1 DEF Gate!vars, pendingVars, UpgradeCount
  <1>2. ASSUME NEW a \in Addr, NEW i \in Addr, ProposeImplementation(a, i) PROVE Gate!Announce
    <2>1. now + timelock \in Nat /\ now + timelock >= now
      BY DEF TypeOK
    <2> QED BY <1>2, <2>1 DEF ProposeImplementation, Gate!Announce, Gate!Announcement,
                              codeVars, configVars, UpgradeCount
  <1>3. ASSUME NEW a \in Addr, ApproveImplementation(a) PROVE Gate!Approve
    <2> DEFINE p == [target |-> pendingImpl, after |-> executeAfter, approved |-> approved]
               q == [target |-> pendingImpl, after |-> executeAfter, approved |-> TRUE]
    <2>1. pendingImpl # None /\ approver # None
      BY <1>3 DEF ApproveImplementation
    <2>2. UNCHANGED <<pendingImpl, executeAfter, approver, records, now>> /\ approved' = TRUE
      BY <1>3 DEF ApproveImplementation, codeVars, configVars
    <2>3. [target |-> p.target, after |-> p.after, approved |-> TRUE] = q
      OBVIOUS
    <2>4. {q} = {[target |-> x.target, after |-> x.after, approved |-> TRUE] : x \in {p}}
      BY <2>3
    <2> HIDE DEF p
    <2>5. (IF pendingImpl = None THEN {}
           ELSE {[target |-> pendingImpl, after |-> executeAfter, approved |-> approved]})' = {q}
      BY <2>1, <2>2
    <2>6. UNCHANGED <<approver # None, UpgradeCount, now>>
      BY <2>2 DEF UpgradeCount
    <2> HIDE DEF q
    <2> QED BY <2>1, <2>4, <2>5, <2>6 DEF Gate!Approve, p
  <1>4. ASSUME NEW a \in Addr, ExecuteUpgrade(a) PROVE Gate!Install
    <2>1. Install(pendingImpl) /\ pendingImpl \in Addr /\ implementation # None
      BY <1>4 DEF TypeOK, ExecuteUpgrade, IsUpgradeReady
    <2>2. UpgradeCount' = UpgradeCount + 1
      BY <2>1, InstallAppends
    <2>3. now >= executeAfter /\ (approver # None => approved = TRUE)
      BY <1>4 DEF ExecuteUpgrade, IsUpgradeReady
    <2>4. pendingImpl' = None /\ approver' = approver /\ now' = now
      BY <1>4 DEF ExecuteUpgrade, ClearPending, configVars
    <2> QED BY <2>1, <2>2, <2>3, <2>4 DEF Gate!Install
  <1>5. ASSUME NEW a \in Addr, CancelUpgrade(a) PROVE Gate!Cancel
    BY <1>5 DEF CancelUpgrade, ClearPending, Gate!Cancel, codeVars, configVars, UpgradeCount, TypeOK
  <1>6. ASSUME NEW a \in Addr, Rollback(a) PROVE Gate!Restore
    <2>1. Install(previous) /\ previous \in Addr /\ implementation # None
      BY <1>6 DEF TypeOK, Rollback
    <2>2. UpgradeCount' = UpgradeCount + 1
      BY <2>1, InstallAppends
    <2>3. UpgradeCount > 0
      BY <2>1 DEF PreviousInstalled
    <2>4. UNCHANGED <<pendingImpl, executeAfter, approved, approver, now>>
      BY <1>6 DEF Rollback, pendingVars, configVars
    <2> QED BY <2>2, <2>3, <2>4 DEF Gate!Restore
  <1>7. ASSUME NEW a \in Addr, NEW x \in Addr \cup {None}, SetGovernanceApprover(a, x)
        PROVE  Gate!SetGate
    BY <1>7 DEF SetGovernanceApprover, Gate!SetGate, pendingVars, codeVars, UpgradeCount
  <1>8. ASSUME Tick PROVE Gate!PassTime
    BY <1>0, <1>8 DEF Tick, Gate!PassTime, pendingVars, codeVars, configVars, UpgradeCount
  <1>9. \/ \E a, i \in Addr : ProposeImplementation(a, i)
        \/ \E a \in Addr : \/ ApproveImplementation(a)
                           \/ ExecuteUpgrade(a)
                           \/ CancelUpgrade(a)
                           \/ Rollback(a)
        \/ \E a \in Addr, x \in Addr \cup {None} : SetGovernanceApprover(a, x)
        \/ Tick
        \/ UNCHANGED <<pendingVars, approver, records, now>>
    BY DEF Next, vars, configVars, codeVars, Initialize, ProposeAdmin, AcceptAdmin, SetTimelock
  <1> QED BY <1>1, <1>2, <1>3, <1>4, <1>5, <1>6, <1>7, <1>8, <1>9 DEF Gate!Next

(***************************************************************************)
(* For any proxy, the implementation changes only to what was announced,   *)
(* not before the announced time and, while an approver is set, with       *)
(* approval; or back to the previous implementation by a rollback.         *)
(***************************************************************************)
THEOREM ProxyAnnouncedUpgrade == Spec => AnnouncedUpgrade
  <1>1. Init => Gate!Init
    BY DEF Init, Gate!Init, UpgradeCount
  <1>2. Init => PreviousInstalled
    BY DEF Init, PreviousInstalled
  <1>3. Spec => []PreviousInstalled
    BY <1>2, NextPreviousInstalled, ProxyTypeOK, PTL DEF Spec
  <1>4. TypeOK /\ TypeOK' /\ PreviousInstalled /\ [Next]_vars => [Gate!Next]_(Gate!vars)
    BY NextIsGateStep
  <1> QED BY <1>1, <1>3, <1>4, ProxyTypeOK, PTL DEF Spec, AnnouncedUpgrade, Gate!Spec

-----------------------------------------------------------------------------
\* What an install appends keeps the chain of records.
LEMMA InstallHistory ==
    ASSUME TypeOK, HistoryIsAuditable, NEW impl \in Addr, Install(impl), implementation # None
    PROVE  HistoryIsAuditable'
  <1> DEFINE rec == [version                 |-> version + 1,
                     implementation          |-> impl,
                     previous_implementation |-> implementation,
                     timestamp               |-> now]
             n == Len(records)
  <1>1. /\ rec \in ProxyUpgradeRecord
        /\ rec.version = version + 1 /\ rec.implementation = impl
        /\ rec.previous_implementation = implementation
    BY DEF TypeOK, ProxyUpgradeRecord
  <1>2. records' = Append(records, rec) /\ records \in Seq(ProxyUpgradeRecord)
    BY DEF Install, TypeOK
  <1> HIDE DEF rec
  <1>3. /\ n \in Nat /\ Len(records') = n + 1
        /\ records'[n + 1] = rec
        /\ \A i \in 1..n : records'[i] = records[i]
        /\ DOMAIN records = 1..n /\ DOMAIN records' = 1..(n + 1)
    BY <1>1, <1>2
  <1> HIDE DEF n
  <1>4. /\ UpgradeCount = n /\ UpgradeCount' = n + 1
    BY <1>3 DEF UpgradeCount, n
  <1>5. /\ version = n + 1
        /\ \A i \in 1..n : records[i].version = i + 1
        /\ \A i \in 2..n : records[i].previous_implementation = records[i - 1].implementation
        /\ n > 0 => implementation = records[n].implementation
    BY <1>3, <1>4 DEF HistoryIsAuditable
  <1>6. version' = n + 2 /\ implementation' = impl /\ previous' = implementation
    BY <1>3, <1>5 DEF Install
  <1>7. \A i \in 1..(n + 1) : records'[i].version = i + 1
    BY <1>1, <1>3, <1>5
  <1>8. \A i \in 2..(n + 1) : records'[i].previous_implementation = records'[i - 1].implementation
    <2> SUFFICES ASSUME NEW i \in 2..(n + 1)
                 PROVE  records'[i].previous_implementation = records'[i - 1].implementation
      OBVIOUS
    <2>1. CASE i = n + 1
      <3>1. n > 0 /\ i - 1 = n /\ n \in 1..n
        BY <1>3, <2>1
      <3> QED BY <1>1, <1>3, <1>5, <2>1, <3>1
    <2>2. CASE i # n + 1
      <3>1. i \in 2..n /\ i \in 1..n /\ i - 1 \in 1..n
        BY <1>3, <2>2
      <3> QED BY <1>3, <1>5, <3>1
    <2> QED BY <2>1, <2>2
  <1> QED BY <1>1, <1>3, <1>4, <1>6, <1>7, <1>8 DEF HistoryIsAuditable

\* initialize comes first: a proxy without an admin points at nothing, so
\* nothing has been recorded.
LEMMA NextHistory == TypeOK /\ HistoryIsAuditable /\ [Next]_vars => HistoryIsAuditable'
  <1> SUFFICES ASSUME TypeOK, HistoryIsAuditable, [Next]_vars PROVE HistoryIsAuditable'
    OBVIOUS
  <1>1. ASSUME NEW a \in Addr, NEW i \in Addr, Initialize(a, i) PROVE HistoryIsAuditable'
    <2>1. UpgradeCount = 0
      <3>1. implementation = None
        BY <1>1 DEF Initialize, TypeOK
      <3>2. UpgradeCount \in Nat /\ (UpgradeCount > 0 => records[UpgradeCount].implementation \in Addr)
        <4>1. /\ UpgradeCount \in Nat
              /\ UpgradeCount > 0 => records[UpgradeCount] \in ProxyUpgradeRecord
          BY DEF UpgradeCount, TypeOK
        <4> QED BY <4>1 DEF ProxyUpgradeRecord
      <3> QED BY <3>1, <3>2, ProxyAssumption DEF HistoryIsAuditable
    <2> QED BY <1>1, <2>1 DEF Initialize, HistoryIsAuditable, UpgradeCount
  <1>2. ASSUME NEW a \in Addr, ExecuteUpgrade(a) \/ Rollback(a) PROVE HistoryIsAuditable'
    <2>1. \E i \in Addr : Install(i) /\ implementation # None
      BY <1>2, ProxyAssumption DEF TypeOK, ExecuteUpgrade, Rollback, IsUpgradeReady
    <2> QED BY <2>1, InstallHistory
  <1>3. ASSUME UNCHANGED codeVars PROVE HistoryIsAuditable'
    BY <1>3 DEF codeVars, HistoryIsAuditable, UpgradeCount
  <1>4. \/ \E a, i \in Addr : Initialize(a, i)
        \/ \E a \in Addr : ExecuteUpgrade(a) \/ Rollback(a)
        \/ UNCHANGED codeVars
    BY DEF Next, vars, ProposeImplementation, ProposeAdmin, ApproveImplementation,
           CancelUpgrade, AcceptAdmin, SetTimelock, SetGovernanceApprover, Tick
  <1> QED BY <1>1, <1>2, <1>3, <1>4

(***************************************************************************)
(* For any proxy, the records are a chain from the first implementation to *)
(* the present one, through any mix of upgrades and rollbacks.             *)
(***************************************************************************)
THEOREM ProxyHistoryIsAuditable == Spec => []HistoryIsAuditable
  <1>1. Init => HistoryIsAuditable
    BY DEF Init, HistoryIsAuditable, UpgradeCount
  <1> QED BY <1>1, NextHistory, ProxyTypeOK, PTL DEF Spec

-----------------------------------------------------------------------------
(* The upgrade flow                                                        *)

\* A contract that has no admin has recorded nothing.
UpgradabilityInv ==
    /\ U!TypeOK
    /\ U!HistoryIsComplete
    /\ uAdmin = None => uRecords = <<>>

\* Bookkeeping records the version it leaves behind, at the present time.
LEMMA BookkeepingInv ==
    ASSUME UpgradabilityInv, NEW a \in Addr, U!Bookkeeping(a), uWasm' \in Hash
    PROVE  UpgradabilityInv' /\ U!UpgradeCount' = U!UpgradeCount + 1
  <1> USE ProxyAssumption
  <1> DEFINE rec == [version |-> uVersion, wasm_hash |-> uPending.new_wasm_hash, timestamp |-> uNow]
             n == Len(uRecords)
  <1>0. /\ uRecords' = Append(uRecords, rec)
        /\ uVersion' = uVersion + 1
        /\ uPending # None
        /\ uPreviousWasm' = uPending.new_wasm_hash
        /\ uPending' = None
        /\ a = uAdmin
        /\ UNCHANGED <<uAdmin, uTimelock, uGovernance, uNow>>
    BY DEF U!Bookkeeping, U!NextVersion
  <1>1. /\ rec \in U!UpgradeRecord /\ rec.version = uVersion /\ rec.timestamp = uNow
        /\ uPending.new_wasm_hash \in Hash
    BY <1>0 DEF UpgradabilityInv, U!TypeOK, U!UpgradeRecord, U!UpgradeProposal
  <1>2. uRecords \in Seq(U!UpgradeRecord)
    BY DEF UpgradabilityInv, U!TypeOK
  <1> HIDE DEF rec
  <1>3. /\ n \in Nat /\ Len(uRecords') = n + 1
        /\ uRecords'[n + 1] = rec
        /\ \A i \in 1..n : uRecords'[i] = uRecords[i]
        /\ DOMAIN uRecords = 1..n /\ DOMAIN uRecords' = 1..(n + 1)
        /\ uRecords' \in Seq(U!UpgradeRecord)
    BY <1>0, <1>1, <1>2
  <1> HIDE DEF n
  <1>4. U!UpgradeCount = n /\ U!UpgradeCount' = n + 1
    BY <1>3 DEF U!UpgradeCount, n
  <1>5. U!TypeOK'
    BY <1>0, <1>1, <1>3 DEF UpgradabilityInv, U!TypeOK
  <1>6. /\ uVersion = n + 1 /\ uNow \in Nat
        /\ \A i \in 1..n : uRecords[i].version = i /\ uRecords[i].timestamp <= uNow
        /\ \A i, j \in 1..n : i <= j => uRecords[i].timestamp <= uRecords[j].timestamp
    BY <1>3, <1>4 DEF UpgradabilityInv, U!HistoryIsComplete, U!TypeOK
  <1>7. \A i \in 1..(n + 1) : /\ uRecords'[i].version = i
                              /\ uRecords'[i].timestamp <= uNow
    BY <1>1, <1>3, <1>6
  <1>8. \A i, j \in 1..(n + 1) : i <= j => uRecords'[i].timestamp <= uRecords'[j].timestamp
    BY <1>1, <1>3, <1>6
  <1>9. U!HistoryIsComplete'
    BY <1>0, <1>3, <1>4, <1>6, <1>7, <1>8 DEF U!HistoryIsComplete
  <1> QED BY <1>0, <1>4, <1>5, <1>9 DEF UpgradabilityInv

\* Every other call leaves the records and the version alone, but initialize,
\* which finds none.
LEMMA NextUpgradabilityInv == UpgradabilityInv /\ [U!Next]_(U!vars) => UpgradabilityInv'
  <1> SUFFICES ASSUME UpgradabilityInv, [U!Next]_(U!vars) PROVE UpgradabilityInv'
    OBVIOUS
  <1> USE ProxyAssumption
  <1>1. ASSUME NEW a \in Addr, NEW d \in Timelocks, U!Initialize(a, d) PROVE UpgradabilityInv'
    BY <1>1 DEF U!Initialize, UpgradabilityInv, U!TypeOK, U!HistoryIsComplete, U!UpgradeCount
  <1>2. ASSUME NEW a \in Addr, U!ExecuteUpgrade(a) \/ U!ExecuteUpgradeDryRun(a)
        PROVE  UpgradabilityInv'
    <2>1. U!Bookkeeping(a) /\ uWasm' \in {uWasm, uPending.new_wasm_hash} /\ uPending # None
      BY <1>2 DEF U!ExecuteUpgrade, U!ExecuteUpgradeDryRun, U!Bookkeeping
    <2>2. uWasm' \in Hash
      BY <2>1 DEF UpgradabilityInv, U!TypeOK, U!UpgradeProposal
    <2> QED BY <2>1, <2>2, BookkeepingInv
  <1>3. ASSUME UNCHANGED <<uVersion, uRecords, uPreviousWasm, uWasm>>,
               uAdmin' = uAdmin, uTimelock' \in 0..MaxU64,
               uPending' \in U!UpgradeProposal \cup {None},
               uGovernance' \in Addr \cup {None},
               uNow' \in uNow..MaxTime
        PROVE  UpgradabilityInv'
    <2>1. uNow \in 0..MaxTime /\ uNow' \in 0..MaxTime /\ uNow <= uNow'
      BY <1>3 DEF UpgradabilityInv, U!TypeOK
    <2>2. U!TypeOK'
      BY <1>3, <2>1 DEF UpgradabilityInv, U!TypeOK
    <2>3. ASSUME NEW i \in DOMAIN uRecords PROVE uRecords[i].timestamp <= uNow'
      <3>1. uRecords[i] \in U!UpgradeRecord
        BY DEF UpgradabilityInv, U!TypeOK
      <3>2. uRecords[i].timestamp \in Nat
        BY <3>1 DEF U!UpgradeRecord
      <3> QED BY <2>1, <3>2 DEF UpgradabilityInv, U!HistoryIsComplete
    <2>4. U!HistoryIsComplete'
      BY <1>3, <2>3 DEF UpgradabilityInv, U!HistoryIsComplete, U!UpgradeCount
    <2> QED BY <1>3, <2>2, <2>4 DEF UpgradabilityInv
  <1>4. /\ uTimelock \in 0..MaxU64 /\ uNow \in uNow..MaxTime
        /\ uPending \in U!UpgradeProposal \cup {None} /\ uGovernance \in Addr \cup {None}
    BY DEF UpgradabilityInv, U!TypeOK
  <1>5. ASSUME NEW a \in Addr, NEW h \in Hash, U!ProposeUpgrade(a, h) PROVE UpgradabilityInv'
    <2>1. uNow + uTimelock \in 0..MaxU64 /\ uNow \in 0..MaxTime
      BY <1>5 DEF U!ProposeUpgrade, U!ExecuteAfterFits, UpgradabilityInv, U!TypeOK
    <2>2. uPending' \in U!UpgradeProposal
      BY <1>5, <2>1 DEF U!ProposeUpgrade, U!UpgradeProposal
    <2> QED BY <1>3, <1>4, <1>5, <2>2 DEF U!ProposeUpgrade
  <1>6. ASSUME NEW a \in Addr, U!ApproveUpgradeGovernance(a) PROVE UpgradabilityInv'
    <2>1. uPending' \in U!UpgradeProposal
      BY <1>4, <1>6 DEF U!ApproveUpgradeGovernance, U!UpgradeProposal
    <2> QED BY <1>3, <1>4, <1>6, <2>1 DEF U!ApproveUpgradeGovernance
  <1>7. ASSUME NEW a \in Addr, U!CancelUpgrade(a) PROVE UpgradabilityInv'
    BY <1>3, <1>4, <1>7 DEF U!CancelUpgrade
  <1>8. ASSUME NEW a \in Addr, NEW d \in Timelocks, U!SetTimelock(a, d) PROVE UpgradabilityInv'
    BY <1>3, <1>4, <1>8 DEF U!SetTimelock
  <1>9. ASSUME NEW a \in Addr, NEW g \in Addr \cup {None}, U!SetGovernanceContract(a, g)
        PROVE  UpgradabilityInv'
    BY <1>3, <1>4, <1>9 DEF U!SetGovernanceContract
  <1>10. ASSUME U!Tick PROVE UpgradabilityInv'
    <2>1. uNow' \in uNow..MaxTime
      BY <1>10 DEF U!Tick, UpgradabilityInv, U!TypeOK
    <2> QED BY <1>3, <1>4, <1>10, <2>1 DEF U!Tick
  <1>11. ASSUME UNCHANGED U!vars PROVE UpgradabilityInv'
    BY <1>3, <1>4, <1>11 DEF U!vars
  <1> QED
    BY <1>1, <1>2, <1>5, <1>6, <1>7, <1>8, <1>9, <1>10, <1>11 DEF U!Next

\* The invariant of the upgrade flow.
THEOREM UpgradabilityInvariant == U!Spec => []UpgradabilityInv
  <1>1. U!Init => UpgradabilityInv
    BY ProxyAssumption DEF U!Init, UpgradabilityInv, U!TypeOK, U!HistoryIsComplete, U!UpgradeCount
  <1> QED BY <1>1, NextUpgradabilityInv, PTL DEF U!Spec

(***************************************************************************)
(* For any two contracts that are used at the same time, their entries     *)
(* stay typed and their histories tell every upgrade and every rollback    *)
(* in order.                                                               *)
(***************************************************************************)
THEOREM UpgradesHistories == Spec /\ U!Spec => []HistoriesAreComplete
  <1>1. TypeOK /\ HistoryIsAuditable /\ UpgradabilityInv => HistoriesAreComplete
    BY DEF HistoriesAreComplete, UpgradabilityInv
  <1> QED BY <1>1, ProxyTypeOK, ProxyHistoryIsAuditable, UpgradabilityInvariant, PTL

-----------------------------------------------------------------------------
\* Every step of the upgrade flow is a step of the announced-upgrade
\* specification or leaves its variables unchanged.
LEMMA UpgradabilityGateStep ==
    ASSUME UpgradabilityInv, [U!Next]_(U!vars)
    PROVE  [U!Gate!Next]_(U!Gate!vars)
  <1> USE ProxyAssumption, UpgradesAssumption
  <1>0. /\ U!UpgradeCount \in Nat /\ uNow \in Nat /\ uTimelock \in Nat
        /\ uPending \in U!UpgradeProposal \cup {None}
    BY DEF UpgradabilityInv, U!TypeOK, U!UpgradeCount
  <1>1. ASSUME UNCHANGED <<uPending, uGovernance, uRecords, uNow>> PROVE UNCHANGED U!Gate!vars
    BY <1>1 DEF U!Gate!vars, U!UpgradeCount
  <1>2. ASSUME NEW a \in Addr, NEW h \in Hash, U!ProposeUpgrade(a, h) PROVE U!Gate!Announce
    <2> DEFINE p == [new_wasm_hash |-> h, proposed_at |-> uNow, execute_after |-> uNow + uTimelock,
                     governance_approved |-> FALSE]
               q == [target |-> h, after |-> uNow + uTimelock, approved |-> FALSE]
    <2>1. /\ uPending = None /\ uPending' = p
          /\ UNCHANGED <<uGovernance, uRecords, uNow>>
          /\ uNow + uTimelock <= MaxU64
      BY <1>2 DEF U!ProposeUpgrade, U!NonePending, U!ExecuteAfterFits
    <2>2. p # None
      <3>1. p \in U!UpgradeProposal
        BY <1>0, <2>1 DEF U!UpgradeProposal, UpgradabilityInv, U!TypeOK
      <3> QED BY <3>1
    <2>3. uNow + uTimelock \in Nat /\ uNow + uTimelock >= uNow
      BY <1>0
    <2> QED BY <2>1, <2>2, <2>3 DEF U!Gate!Announce, U!Gate!Announcement, U!UpgradeCount
  <1>3. ASSUME NEW a \in Addr, U!ApproveUpgradeGovernance(a) PROVE U!Gate!Approve
    <2> DEFINE p == [target |-> uPending.new_wasm_hash, after |-> uPending.execute_after,
                     approved |-> uPending.governance_approved]
               q == [target |-> uPending.new_wasm_hash, after |-> uPending.execute_after,
                     approved |-> TRUE]
    <2>1. /\ uPending # None /\ uPending \in U!UpgradeProposal /\ uGovernance # None
          /\ uPending' = [uPending EXCEPT !.governance_approved = TRUE]
          /\ UNCHANGED <<uGovernance, uRecords, uNow>>
      BY <1>0, <1>3 DEF U!ApproveUpgradeGovernance
    <2>2. /\ uPending' \in U!UpgradeProposal
          /\ uPending'.new_wasm_hash = uPending.new_wasm_hash
          /\ uPending'.execute_after = uPending.execute_after
          /\ uPending'.governance_approved = TRUE
      BY <2>1 DEF U!UpgradeProposal
    <2>3. uPending' # None
      BY <2>2
    <2>4. [target |-> p.target, after |-> p.after, approved |-> TRUE] = q
      OBVIOUS
    <2>5. {q} = {[target |-> x.target, after |-> x.after, approved |-> TRUE] : x \in {p}}
      BY <2>4
    <2> HIDE DEF p
    <2>6. (IF uPending = None THEN {}
           ELSE {[target |-> uPending.new_wasm_hash, after |-> uPending.execute_after,
                  approved |-> uPending.governance_approved]})' = {q}
      BY <2>2, <2>3
    <2>7. UNCHANGED <<uGovernance # None, U!UpgradeCount, uNow>>
      BY <2>1 DEF U!UpgradeCount
    <2> HIDE DEF q
    <2> QED BY <2>1, <2>5, <2>6, <2>7 DEF U!Gate!Approve, p
  <1>4. ASSUME NEW a \in Addr, U!Bookkeeping(a), uWasm' \in Hash PROVE U!Gate!Install
    <2>1. U!UpgradeCount' = U!UpgradeCount + 1
      BY <1>4, BookkeepingInv
    <2>2. /\ uPending # None /\ uPending' = None
          /\ uNow >= uPending.execute_after
          /\ uGovernance # None => uPending.governance_approved
          /\ UNCHANGED <<uGovernance, uNow>>
      BY <1>4 DEF U!Bookkeeping
    <2> QED BY <2>1, <2>2 DEF U!Gate!Install
  <1>5. ASSUME NEW a \in Addr, U!CancelUpgrade(a) PROVE U!Gate!Cancel
    BY <1>5 DEF U!CancelUpgrade, U!Gate!Cancel, U!UpgradeCount
  <1>6. ASSUME NEW a \in Addr, NEW g \in Addr \cup {None}, U!SetGovernanceContract(a, g)
        PROVE  U!Gate!SetGate
    BY <1>6 DEF U!SetGovernanceContract, U!Gate!SetGate, U!UpgradeCount
  <1>7. ASSUME U!Tick PROVE U!Gate!PassTime
    BY <1>0, <1>7 DEF U!Tick, U!Gate!PassTime, U!UpgradeCount
  <1>8. ASSUME NEW a \in Addr, U!ExecuteUpgrade(a) \/ U!ExecuteUpgradeDryRun(a)
        PROVE  U!Bookkeeping(a) /\ uWasm' \in Hash
    BY <1>0, <1>8 DEF U!ExecuteUpgrade, U!ExecuteUpgradeDryRun, U!Bookkeeping, UpgradabilityInv,
                      U!TypeOK, U!UpgradeProposal
  <1>9. \/ \E a \in Addr, h \in Hash : U!ProposeUpgrade(a, h)
        \/ \E a \in Addr : \/ U!ApproveUpgradeGovernance(a)
                           \/ U!ExecuteUpgrade(a)
                           \/ U!ExecuteUpgradeDryRun(a)
                           \/ U!CancelUpgrade(a)
        \/ \E a \in Addr, g \in Addr \cup {None} : U!SetGovernanceContract(a, g)
        \/ U!Tick
        \/ UNCHANGED <<uPending, uGovernance, uRecords, uNow>>
    BY DEF U!Next, U!vars, U!Initialize, U!SetTimelock
  <1> QED BY <1>1, <1>2, <1>3, <1>4, <1>5, <1>6, <1>7, <1>8, <1>9 DEF U!Gate!Next

(***************************************************************************)
(* For any contract, the code changes only to what was announced, not      *)
(* before the announced time and, while a governance contract is set, with *)
(* its approval.                                                           *)
(***************************************************************************)
THEOREM UpgradabilityAnnounced == U!Spec => UpgradabilityAnnouncedUpgrade
  <1>1. U!Init => U!Gate!Init
    BY DEF U!Init, U!Gate!Init, U!UpgradeCount
  <1>2. UpgradabilityInv /\ [U!Next]_(U!vars) => [U!Gate!Next]_(U!Gate!vars)
    BY UpgradabilityGateStep
  <1> QED BY <1>1, <1>2, UpgradabilityInvariant, PTL
          DEF U!Spec, UpgradabilityAnnouncedUpgrade, U!AnnouncedUpgrade, U!Gate!Spec

-----------------------------------------------------------------------------
(* The run                                                                 *)

(***************************************************************************)
(* What is proved of each contract holds of both, as they are explored:    *)
(* both implement TimelockedUpgrade and their histories are complete.      *)
(***************************************************************************)
THEOREM UpgradesTogether ==
    UpgradesSpec => /\ []HistoriesAreComplete
                    /\ AnnouncedUpgrade /\ UpgradabilityAnnouncedUpgrade
  <1>1. UpgradesInit => Init /\ U!Init
    BY DEF UpgradesInit
  <1>2. UNCHANGED <<vars, uVars>> => UNCHANGED vars /\ UNCHANGED U!vars
    BY DEF uVars, U!vars
  <1>3. UNCHANGED uVars => UNCHANGED U!vars
    BY DEF uVars, U!vars
  <1>4. [UpgradesNext]_<<vars, uVars>> => [Next]_vars
    BY <1>2 DEF UpgradesNext
  <1>5. [UpgradesNext]_<<vars, uVars>> => [U!Next]_(U!vars)
    BY <1>2, <1>3 DEF UpgradesNext
  <1>6. UpgradesSpec => Spec /\ U!Spec
    BY <1>1, <1>4, <1>5, PTL DEF UpgradesSpec, Spec, U!Spec
  <1> QED BY <1>6, ProxyAnnouncedUpgrade, UpgradesHistories, UpgradabilityAnnounced, PTL
=============================================================================
