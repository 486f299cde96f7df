------------------------- MODULE WorkflowTypes_proofs -------------------------
(***************************************************************************)
(* The types of the components of MCWorkflows, from their invariants, and  *)
(* the theorem that the run's specification has all of its properties.     *)
(***************************************************************************)
EXTENDS Workflows_proofs

-----------------------------------------------------------------------------
(* Types                                                                   *)

\* The sweep of expired requests is not at work, or between its statements.
AppSweepKnown == appSweep \in {"idle", "second"}

LEMMA AppSweepNext == AppSweepKnown /\ [App!Next]_(App!vars) => AppSweepKnown'
  <1> SUFFICES ASSUME AppSweepKnown, [App!Next]_(App!vars) PROVE AppSweepKnown'
    OBVIOUS
  <1>1. ASSUME NEW w, App!CreateWorkflow(w) PROVE AppSweepKnown'
    BY <1>1 DEF AppSweepKnown, App!CreateWorkflow
  <1>2. ASSUME NEW a, App!CreateTransferRequest(a) PROVE AppSweepKnown'
    BY <1>2 DEF AppSweepKnown, App!CreateTransferRequest
  <1>3. ASSUME NEW i, NEW u, App!Approve(i, u) \/ App!Reject(i, u) PROVE AppSweepKnown'
    <2>1. UNCHANGED appSweep
      BY <1>3 DEF App!Approve, App!Reject
    <2> QED BY <2>1 DEF AppSweepKnown
  <1>4. ASSUME NEW i, NEW u, NEW v, App!Delegate(i, u, v) PROVE AppSweepKnown'
    BY <1>4 DEF AppSweepKnown, App!Delegate
  <1>5. ASSUME NEW i, App!DecideLate(i) PROVE AppSweepKnown'
    BY <1>5 DEF AppSweepKnown, App!DecideLate
  <1>6. ASSUME App!ExpireRequests \/ App!ExpireTransactions \/ App!SweepCut PROVE AppSweepKnown'
    BY <1>6 DEF AppSweepKnown, App!ExpireRequests, App!ExpireTransactions, App!SweepCut
  <1>7. ASSUME App!Tick \/ UNCHANGED App!vars PROVE AppSweepKnown'
    BY <1>7 DEF AppSweepKnown, App!Tick, App!vars
  <1> QED BY <1>1, <1>2, <1>3, <1>4, <1>5, <1>6, <1>7 DEF App!Next

LEMMA AppTypes == AppInv /\ AppSweepKnown => App!TypeOK
  <1> SUFFICES ASSUME AppInv, AppSweepKnown PROVE App!TypeOK
    OBVIOUS
  <1>1. AppTables(appWorkflows, appRequests, appActions)
    BY DEF AppInv, AppRecords
  <1>2. Len(appRequests) \in Nat /\ DOMAIN appRequests = 1..Len(appRequests)
        /\ \A i \in DOMAIN appRequests : appRequests[i] \in AppRow
    BY <1>1, AppRows
  <1>3. \A i \in DOMAIN appRequests : AppRowOK(appWorkflows, appRequests[i])
    BY <1>1 DEF AppTables
  <1>4. \A i \in DOMAIN appRequests : appRequests[i].status \in {"pending", "approved", "rejected", "expired"}
    BY <1>2 DEF AppRow, AppStatus
  <1>5. DOMAIN appTxs = DOMAIN appRequests
    <2> DEFINE S == {"approval_pending", "approved", "rejected", "expired"}
    <2>1. appTxs \in Seq(S) /\ Len(appTxs) = Len(appRequests)
      BY DEF AppInv, AppFollows
    <2> QED BY <1>2, <2>1
  <1> QED BY <1>3, <1>4, <1>5 DEF App!TypeOK, App!Ids, AppRowOK, AppStepsOf, AppSweepKnown

\* A wallet can be met: it needs no more signatures than it lists owners.
WalletReachable == appWallet = None \/ appWallet.threshold \in 1..Len(appWallet.owners)

LEMMA WalletReachableNext == WalletReachable /\ [App!WalletNext]_(App!walletVars) => WalletReachable'
  <1> SUFFICES ASSUME WalletReachable, [App!WalletNext]_(App!walletVars) PROVE WalletReachable'
    OBVIOUS
  <1>1. ASSUME NEW u, NEW owners, NEW t, App!CreateWallet(u, owners, t) PROVE WalletReachable'
    <2>1. t \in 1..Len(owners) /\ appWallet' = [owners |-> owners, threshold |-> t]
      BY <1>1 DEF App!CreateWallet
    <2> QED BY <2>1 DEF WalletReachable
  <1>2. ASSUME UNCHANGED appWallet PROVE WalletReachable'
    BY <1>2 DEF WalletReachable
  <1>3. ASSUME NEW u, App!CreateProposal(u) PROVE WalletReachable'
    BY <1>2, <1>3 DEF App!CreateProposal
  <1>4. ASSUME NEW r, NEW u, NEW p, App!SignRead(r, u, p) \/ App!ExecuteRead(r, u, p) PROVE WalletReachable'
    BY <1>2, <1>4 DEF App!SignRead, App!ExecuteRead
  <1>5. ASSUME NEW r, App!SignCheck(r) \/ App!SignInsert(r) \/ App!SignSave(r) \/ App!SignFails(r) \/ App!ExecuteSave(r)
        PROVE  WalletReachable'
    BY <1>2, <1>5 DEF App!SignCheck, App!SignInsert, App!SignSave, App!SignFails, App!ExecuteSave
  <1>6. CASE UNCHANGED App!walletVars
    BY <1>2, <1>6 DEF App!walletVars
  <1> QED BY <1>1, <1>3, <1>4, <1>5, <1>6 DEF App!WalletNext

LEMMA WalletTypes == WalInv /\ WalletReachable => App!WalletTypeOK
  <1> SUFFICES ASSUME WalInv, WalletReachable PROVE App!WalletTypeOK
    OBVIOUS
  <1> DEFINE S == WalRow
  <1>1. appProposals \in Seq(S) /\ appSignatures \in [App!ProposalIds -> SUBSET AppUsers]
    BY DEF WalInv, WalTables, App!ProposalIds
  <1> HIDE DEF S
  <1>2. \A p \in DOMAIN appProposals : appProposals[p] \in S
    BY <1>1
  <1>3. \A p \in DOMAIN appProposals : appProposals[p].status \in {"pending", "approved", "executed"}
    BY <1>2 DEF S, WalRow
  <1> QED BY <1>1, <1>3 DEF App!WalletTypeOK, WalletReachable

LEMMA DisputeTypes == DisInv => App!DisputeTypeOK
  <1> SUFFICES ASSUME DisInv PROVE App!DisputeTypeOK
    OBVIOUS
  <1> DEFINE S == DisRow
  <1>1. appDisputes \in Seq(S) /\ Len(appEscrow) = Len(appDisputes)
    BY DEF DisInv
  <1> HIDE DEF S
  <1>2. \A i \in DOMAIN appDisputes : appDisputes[i] \in S
    BY <1>1
  <1> QED BY <1>1, <1>2 DEF S, DisRow, App!DisputeTypeOK, App!DisputeIds

LEMMA HookTypes == HookInv => Hook!TypeOK
  <1> SUFFICES ASSUME HookInv PROVE Hook!TypeOK
    OBVIOUS
  <1>1. \A i \in Hook!Ids : hookLogs[i] \in HookRow
    BY HookRead DEF HookInv
  <1>2. \A w \in HookWorkers : hookWork[w] # Hook!New => hookWork[w] \in HookTask
    BY DEF HookInv, HookTyped
  <1> QED BY <1>1, <1>2 DEF Hook!TypeOK, HookRow, HookTask

LEMMA ExportTypes == ExInv => Rep!ExportTypeOK
  <1> SUFFICES ASSUME ExInv PROVE Rep!ExportTypeOK
    OBVIOUS
  <1>1. \A j \in DOMAIN repJobs : repJobs[j] \in ExJob /\ repWork[j] \in ExWork
    BY ExRead DEF ExInv
  <1>2. repMailed \subseteq DOMAIN repJobs
    BY DEF ExInv, ExTyped
  <1> QED BY <1>1, <1>2 DEF Rep!ExportTypeOK, Rep!Jobs, ExJob, ExWork

\* The workers' queue is no longer than its buffer.
BatQueueBounded == Len(batQueue) <= BatQueueSize

LEMMA BatQueueNext == BatInv /\ BatQueueBounded /\ [Bat!Next]_(Bat!vars) => BatQueueBounded'
  <1> SUFFICES ASSUME BatInv, BatQueueBounded, [Bat!Next]_(Bat!vars) PROVE BatQueueBounded'
    OBVIOUS
  <1>0. batQueue \in Seq(Nat) /\ BatQueueSize \in Nat
    BY BoundsAssumption DEF BatInv, BatTyped
  <1>1. ASSUME UNCHANGED batQueue PROVE BatQueueBounded'
    BY <1>1 DEF BatQueueBounded
  <1>2. \A i : Len(batQueue) < BatQueueSize => Len(Append(batQueue, i)) <= BatQueueSize
    BY <1>0
  <1>3. \A i : batQueue' = Bat!Enqueued(i) => BatQueueBounded'
    BY <1>2 DEF BatQueueBounded, Bat!Enqueued
  <1>4. CASE Bat!SubmitBatch
    BY <1>3, <1>4 DEF Bat!SubmitBatch
  <1>5. ASSUME NEW r, NEW i, Bat!CancelRead(r, i) PROVE BatQueueBounded'
    BY <1>1, <1>5 DEF Bat!CancelRead
  <1>6. ASSUME NEW r, Bat!CancelBatch(r) PROVE BatQueueBounded'
    BY <1>1, <1>6 DEF Bat!CancelBatch
  <1>7. ASSUME NEW w, Bat!Take(w) PROVE BatQueueBounded'
    <2>1. batQueue # <<>> /\ batQueue' = Tail(batQueue)
      BY <1>7 DEF Bat!Take
    <2>2. Len(Tail(batQueue)) = Len(batQueue) - 1 /\ Len(batQueue) \in Nat
      BY <1>0, <2>1
    <2> QED BY <1>0, <2>1, <2>2 DEF BatQueueBounded
  <1>8. ASSUME NEW w, Bat!Mark(w) \/ Bat!Finish(w) PROVE BatQueueBounded'
    <2>1. UNCHANGED batQueue
      BY <1>8 DEF Bat!Mark, Bat!Finish
    <2> QED BY <1>1, <2>1
  <1>9. ASSUME NEW w, NEW o, Bat!Run(w, o) PROVE BatQueueBounded'
    BY <1>1, <1>9 DEF Bat!Run
  <1>10. ASSUME NEW i, Bat!ManualRetry(i) PROVE BatQueueBounded'
    BY <1>3, <1>10 DEF Bat!ManualRetry
  <1>11. ASSUME NEW i, Bat!ProcessPendingRetries(i) PROVE BatQueueBounded'
    BY <1>2, <1>11 DEF Bat!ProcessPendingRetries, BatQueueBounded
  <1>12. CASE Bat!Crash
    BY <1>0, <1>12 DEF Bat!Crash, BatQueueBounded
  <1>13. CASE Bat!Tick \/ UNCHANGED Bat!vars
    BY <1>1, <1>13 DEF Bat!Tick, Bat!vars
  <1> QED BY <1>4, <1>5, <1>6, <1>7, <1>8, <1>9, <1>10, <1>11, <1>12, <1>13 DEF Bat!Next

LEMMA BatTypes == BatInv /\ BatQueueBounded => Bat!TypeOK
  <1> SUFFICES ASSUME BatInv, BatQueueBounded PROVE Bat!TypeOK
    OBVIOUS
  <1> DEFINE S == BatRow
  <1>1. batBatches \in Seq(S) /\ batCancelled \subseteq DOMAIN batBatches
    BY DEF BatInv, BatTyped
  <1> HIDE DEF S
  <1>2. \A i \in DOMAIN batBatches : batBatches[i] \in S
    BY <1>1
  <1> QED BY <1>1, <1>2 DEF S, BatRow, BatStatuses, Bat!TypeOK, Bat!Ids, BatQueueBounded

\* A batch of operations counts at most the operations it has, its records
\* are of its operations, and a listing is active or not.
OpRowKnown(row) == Len(row.ops) <= BatMaxBatchSize /\ row.completed + row.failed <= Len(row.ops)

OpKnown ==
    /\ \A b \in DOMAIN batOpBatches : OpRowKnown(batOpBatches[b])
    /\ batTransactions \subseteq (DOMAIN batOpBatches) \X (1..BatMaxBatchSize)
    /\ \A l \in DOMAIN batListings : batListings[l] \in BOOLEAN

LEMMA OpKnownSaved ==
    ASSUME OpTyped, OpKnown, NEW b \in DOMAIN batOpBatches, NEW row \in OpRow, row.ops = batOpBatches[b].ops,
           batOpBatches' = [batOpBatches EXCEPT ![b] = row], OpRowKnown(row),
           batTransactions' \subseteq batTransactions,
           \A l \in DOMAIN batListings' : batListings'[l] \in BOOLEAN
    PROVE  OpKnown'
  <1>1. /\ DOMAIN batOpBatches' = DOMAIN batOpBatches
        /\ batOpBatches'[b] = row /\ \A c \in DOMAIN batOpBatches : c # b => batOpBatches'[c] = batOpBatches[c]
    BY OpSaved
  <1>2. \A c \in DOMAIN batOpBatches' : OpRowKnown(batOpBatches'[c])
    BY <1>1 DEF OpKnown
  <1>3. batTransactions' \subseteq (DOMAIN batOpBatches') \X (1..BatMaxBatchSize)
    BY <1>1 DEF OpKnown
  <1> QED BY <1>2, <1>3 DEF OpKnown

LEMMA OpKnownExecute == ASSUME OpInv, OpKnown, NEW r \in BatOpReqs, NEW ops \in BatOpLists, Bat!ExecuteBatch(r, ops) PROVE OpKnown'
  <1> DEFINE row == [status |-> "processing", ops |-> ops, hash |-> "unset", completed |-> 0, failed |-> 0]
             n == Len(batOpBatches)
  <1>1. /\ batOpBatches' = Append(batOpBatches, row) /\ Len(ops) <= BatMaxBatchSize
        /\ UNCHANGED <<batTransactions, batListings>>
    BY DEF Bat!ExecuteBatch
  <1>2. Len(ops) \in Nat
    BY BatchAssumption
  <1>3. OpRowKnown(row)
    BY <1>1, <1>2 DEF OpRowKnown
  <1> DEFINE S == OpRow
  <1>4. batOpBatches \in Seq(S)
    BY DEF OpInv, OpTyped
  <1>5. row \in S
    BY DEF OpRow
  <1> HIDE DEF S, row
  <1>6. /\ n \in Nat /\ DOMAIN batOpBatches = 1..n /\ DOMAIN Append(batOpBatches, row) = 1..(n + 1)
        /\ Append(batOpBatches, row)[n + 1] = row /\ \A c \in 1..n : Append(batOpBatches, row)[c] = batOpBatches[c]
    BY <1>4, <1>5
  <1>7. \A c \in DOMAIN batOpBatches' : OpRowKnown(batOpBatches'[c])
    <2>1. ASSUME NEW c \in 1..(n + 1) PROVE OpRowKnown(Append(batOpBatches, row)[c])
      <3>1. c \in 1..n \/ c = n + 1
        BY <1>6
      <3> QED BY <1>3, <1>6, <3>1 DEF OpKnown
    <2> QED BY <1>1, <1>6, <2>1
  <1>8. batTransactions' \subseteq (DOMAIN batOpBatches') \X (1..BatMaxBatchSize)
    BY <1>1, <1>6 DEF OpKnown
  <1> QED BY <1>1, <1>7, <1>8 DEF OpKnown

LEMMA OpKnownRun ==
    ASSUME OpInv, OpKnown, NEW r \in BatOpReqs, NEW o \in {"done", "refused", "failed"}, Bat!RunOperation(r, o) PROVE OpKnown'
  <1> DEFINE p == batOpReq[r]
             b == p.batch
             old == batOpBatches[b]
             ok == IF o = "done" THEN p.ok \cup {p.next} ELSE p.ok
             done == Bat!Cardinality(ok)
             row == [old EXCEPT !.completed = done, !.failed = p.next - done]
  <1>1. /\ p.pc = "run" /\ p.next <= Len(old.ops) /\ UNCHANGED <<batTransactions, batListings>>
        /\ batOpBatches' = [batOpBatches EXCEPT ![b].completed = done, ![b].failed = p.next - done]
    BY DEF Bat!RunOperation
  <1>2. OpTyped /\ b \in DOMAIN batOpBatches
        /\ OpAsks(p, batOpBatches, batSucceeded, batAborted, batTransactions, batListings)
    BY <1>1, OpAlone
  <1>3. old \in OpRow /\ Len(old.ops) \in Nat
    BY <1>2, OpRead
  <1>4. p.next \in Nat /\ p.ok \subseteq 1..(p.next - 1)
    BY <1>1, <1>2, <1>3 DEF OpAsks
  <1>5. ok \in SUBSET (1..p.next)
    BY <1>1, <1>2, <1>3, <1>4 DEF OpAsks
  <1> HIDE DEF ok
  <1>6. done \in Nat
    BY <1>4, <1>5, OpFinite
  <1> HIDE DEF done, p
  <1>7. row \in OpRow /\ row.ops = old.ops /\ row.completed = done /\ row.failed = p.next - done
    <2> DEFINE rest == p.next - done
               part == [old EXCEPT !.completed = done]
    <2>1. rest \in Int
      BY <1>4, <1>6
    <2> HIDE DEF rest, old
    <2>2. part \in OpRow /\ part.ops = old.ops /\ part.completed = done
      BY <1>3, <1>6 DEF OpRow
    <2> HIDE DEF part
    <2>3. [part EXCEPT !.failed = rest] \in OpRow /\ [part EXCEPT !.failed = rest].ops = part.ops
          /\ [part EXCEPT !.failed = rest].completed = part.completed /\ [part EXCEPT !.failed = rest].failed = rest
      BY <2>1, <2>2 DEF OpRow
    <2> QED BY <2>2, <2>3 DEF part, rest
  <1>8. OpRowKnown(row)
    <2>1. OpRowKnown(old)
      BY <1>2 DEF OpKnown
    <2>2. done + (p.next - done) = p.next
      BY <1>4, <1>6
    <2> HIDE DEF row
    <2> QED BY <1>1, <1>7, <2>1, <2>2 DEF OpRowKnown
  <1>9. batOpBatches' = [batOpBatches EXCEPT ![b] = row]
    BY <1>1, <1>2
  <1> HIDE DEF row
  <1> QED BY <1>1, <1>2, <1>7, <1>8, <1>9, OpKnownSaved DEF OpKnown

LEMMA OpKnownFinish == ASSUME OpInv, OpKnown, NEW r \in BatOpReqs, NEW withdrawn, Bat!OpFinish(r, withdrawn) PROVE OpKnown'
  <1> DEFINE p == batOpReq[r]
             b == p.batch
             ops == batOpBatches[b].ops
             sent == Bat!OpsOf(b, "transfer", p.ok)
             offered == Bat!OpsOf(b, "list", p.ok)
  <1>1. /\ p.pc = "run" /\ p.next > Len(ops) /\ UNCHANGED batOpBatches
        /\ \/ batTransactions' = batTransactions \cup sent /\ batListings' = Bat!Committed(p, withdrawn)
           \/ UNCHANGED <<batTransactions, batListings>>
    BY DEF Bat!OpFinish
  <1>2. OpTyped /\ b \in DOMAIN batOpBatches
        /\ OpAsks(p, batOpBatches, batSucceeded, batAborted, batTransactions, batListings)
    BY <1>1, OpAlone
  <1>3. Len(ops) \in Nat /\ Len(ops) <= BatMaxBatchSize
    BY <1>2, OpRead DEF OpKnown, OpRowKnown
  <1>4. p.ok \subseteq 1..BatMaxBatchSize
    <2>1. p.next \in 1..(Len(ops) + 1) /\ p.ok \subseteq 1..(p.next - 1)
      BY <1>1, <1>2 DEF OpAsks
    <2> QED BY <1>3, <2>1, BoundsAssumption
  <1>5. sent \subseteq (DOMAIN batOpBatches) \X (1..BatMaxBatchSize)
    BY <1>2, <1>4 DEF Bat!OpsOf
  <1>6. \A l \in DOMAIN Bat!Committed(p, withdrawn) : Bat!Committed(p, withdrawn)[l] \in BOOLEAN
    <2>1. \A l \in DOMAIN batListings : Bat!Deactivated(withdrawn)[l] \in BOOLEAN
      BY DEF Bat!Deactivated, OpKnown
    <2>2. Bat!Committed(p, withdrawn) =
            [l \in DOMAIN batListings \cup offered |-> IF l \in offered THEN TRUE ELSE Bat!Deactivated(withdrawn)[l]]
      BY DEF Bat!Committed
    <2> HIDE DEF offered
    <2> QED BY <2>1, <2>2
  <1>7. batTransactions' \subseteq (DOMAIN batOpBatches) \X (1..BatMaxBatchSize)
    BY <1>1, <1>5 DEF OpKnown
  <1>8. \A l \in DOMAIN batListings' : batListings'[l] \in BOOLEAN
    BY <1>1, <1>6 DEF OpKnown
  <1> QED BY <1>1, <1>7, <1>8 DEF OpKnown

LEMMA OpKnownNext == OpInv /\ OpKnown /\ [Bat!OpNext]_(Bat!opVars) => OpKnown'
  <1> SUFFICES ASSUME OpInv, OpKnown, [Bat!OpNext]_(Bat!opVars) PROVE OpKnown'
    OBVIOUS
  <1>1. ASSUME UNCHANGED <<batOpBatches, batTransactions, batListings>> PROVE OpKnown'
    BY <1>1 DEF OpKnown
  <1>2. ASSUME NEW r \in BatOpReqs, Bat!SaveBatch(r) PROVE OpKnown'
    <2> DEFINE p == batOpReq[r]
               b == p.batch
               old == batOpBatches[b]
               hash == IF p.status = "failed" THEN "unset" ELSE "batch_tx"
               row == [old EXCEPT !.status = p.status, !.hash = hash]
    <2>1. /\ p.pc = "save" /\ UNCHANGED <<batTransactions, batListings>>
          /\ batOpBatches' = [batOpBatches EXCEPT ![b].status = p.status, ![b].hash = hash]
      BY <1>2 DEF Bat!SaveBatch
    <2>2. OpTyped /\ b \in DOMAIN batOpBatches /\ p.status \in {"failed", "completed", "completed_with_errors"}
      BY <2>1, OpAlone DEF OpAsks
    <2>3. old \in OpRow /\ hash \in {"unset", "batch_tx"}
      BY <2>2, OpRead
    <2> HIDE DEF hash, p
    <2>4. row \in OpRow /\ row.ops = old.ops /\ row.completed = old.completed /\ row.failed = old.failed
      BY <2>2, <2>3 DEF OpRow
    <2>5. OpRowKnown(row)
      BY <2>2, <2>4 DEF OpKnown, OpRowKnown
    <2>6. batOpBatches' = [batOpBatches EXCEPT ![b] = row]
      BY <2>1, <2>2
    <2> HIDE DEF row
    <2> QED BY <2>1, <2>2, <2>4, <2>5, <2>6, OpKnownSaved DEF OpKnown
  <1>3. ASSUME NEW r \in BatOpReqs, Bat!RollbackBatch(r) PROVE OpKnown'
    <2> DEFINE b == batOpReq[r].batch
               old == batOpBatches[b]
               row == [old EXCEPT !.status = "rolled_back"]
    <2>1. /\ batOpReq[r].pc = "rollback" /\ batTransactions' \subseteq batTransactions
          /\ batListings' = Bat!Deactivated(Bat!Undone(b))
          /\ batOpBatches' = [batOpBatches EXCEPT ![b].status = "rolled_back"]
      BY <1>3 DEF Bat!RollbackBatch
    <2>2. OpTyped /\ b \in DOMAIN batOpBatches
      BY <2>1, OpPlaces DEF OpInv
    <2>3. old \in OpRow
      BY <2>2, OpRead
    <2>4. row \in OpRow /\ row.ops = old.ops /\ row.completed = old.completed /\ row.failed = old.failed
      BY <2>3 DEF OpRow
    <2>5. OpRowKnown(row)
      BY <2>2, <2>4 DEF OpKnown, OpRowKnown
    <2>6. batOpBatches' = [batOpBatches EXCEPT ![b] = row]
      BY <2>1, <2>2
    <2>7. \A l \in DOMAIN batListings' : batListings'[l] \in BOOLEAN
      BY <2>1 DEF Bat!Deactivated, OpKnown
    <2> HIDE DEF row
    <2> QED BY <2>1, <2>2, <2>4, <2>5, <2>6, <2>7, OpKnownSaved
  <1>4. ASSUME NEW r \in BatOpReqs, NEW b, Bat!RollbackRead(r, b) PROVE OpKnown'
    BY <1>1, <1>4 DEF Bat!RollbackRead
  <1>5. CASE Bat!OpCrash \/ UNCHANGED Bat!opVars
    BY <1>1, <1>5 DEF Bat!OpCrash, Bat!opVars
  <1> QED BY <1>2, <1>3, <1>4, <1>5, OpKnownExecute, OpKnownRun, OpKnownFinish DEF Bat!OpNext

LEMMA OpTypes == OpInv /\ OpKnown => Bat!OpTypeOK
  <1> SUFFICES ASSUME OpInv, OpKnown PROVE Bat!OpTypeOK
    OBVIOUS
  <1>1. \A b \in DOMAIN batOpBatches : batOpBatches[b] \in OpRow
    BY OpRead DEF OpInv
  <1> QED BY <1>1 DEF OpKnown, OpRowKnown, OpRow, Bat!OpTypeOK, Bat!OpIds

\* Every schedule keeps its reports for a time that is accepted, and so does
\* the row a request is about to save; a stopped scheduler has no request
\* under way; a run that was lost is on record.
RepAccepted(row) == row.retention \in 1..RepMaxRetention

RepAskKnown(q, running) == (q = Rep!Done \/ running) /\ (q.pc = "save" => RepAccepted(q.row))

RepKnown ==
    /\ \A i \in DOMAIN repRows : RepAccepted(repRows[i])
    /\ \A r \in RepReqs : RepAskKnown(repReq[r], repUp)
    /\ repLost \subseteq DOMAIN repHistory

LEMMA RepNormalized == ASSUME NEW s \in RepInputs, Rep!ValidSchedule(s) PROVE RepAccepted(Rep!normalizeSchedule(s))
  <1>1. s.retention \in Int /\ RepMaxRetention \in Nat /\ RepDefaultRetention \in 1..RepMaxRetention
    BY BoundsAssumption
  <1>2. s.retention <= RepMaxRetention
    BY DEF Rep!ValidSchedule
  <1> QED BY <1>1, <1>2 DEF RepAccepted, Rep!normalizeSchedule

\* A step of one request of a scheduler that runs.
LEMMA RepStep ==
    ASSUME RepTyped, RepKnown, NEW r \in RepReqs, repReq[r] # Rep!Done, UNCHANGED repUp,
           NEW q, repReq' = [repReq EXCEPT ![r] = q], q.pc = "save" => RepAccepted(q.row),
           \A i \in DOMAIN repRows' : RepAccepted(repRows'[i]),
           UNCHANGED repLost, DOMAIN repHistory \subseteq DOMAIN repHistory'
    PROVE  RepKnown'
  <1>1. repUp
    BY DEF RepKnown, RepAskKnown
  <1>2. repReq'[r] = q /\ \A p \in RepReqs : p # r => repReq'[p] = repReq[p]
    BY RepReqSaved
  <1>3. \A p \in RepReqs : RepAskKnown(repReq'[p], repUp')
    <2>1. ASSUME NEW p \in RepReqs PROVE RepAskKnown(repReq'[p], repUp')
      <3>1. CASE p = r
        BY <1>1, <1>2, <3>1 DEF RepAskKnown
      <3>2. CASE p # r
        BY <1>2, <3>2 DEF RepKnown
      <3> QED BY <3>1, <3>2
    <2> QED BY <2>1
  <1> QED BY <1>3 DEF RepKnown

\* A step of a request that leaves the tables alone, or adds to the history.
LEMMA RepQuiet ==
    ASSUME RepTyped, RepKnown, NEW r \in RepReqs, repReq[r] # Rep!Done, UNCHANGED <<repUp, repRows, repLost>>,
           NEW q, repReq' = [repReq EXCEPT ![r] = q], q.pc = "save" => RepAccepted(q.row),
           DOMAIN repHistory \subseteq DOMAIN repHistory'
    PROVE  RepKnown'
  BY RepStep DEF RepKnown

LEMMA RepKnownSaved ==
    ASSUME RepInv, RepKnown, NEW r \in RepReqs,
           \/ \E s \in RepInputs : Rep!CreateSchedule(r, s)
           \/ Rep!UpdateSave(r)
           \/ \E i \in DOMAIN repRows : Rep!DeleteSchedule(r, i)
    PROVE  RepKnown'
  <1> DEFINE S == RepRow
  <1>0. RepTyped /\ repRows \in Seq(S) /\ Rep!New # Rep!Done
    BY DEF RepInv, RepTyped, Rep!New, Rep!Done
  <1> HIDE DEF S
  <1>1. ASSUME NEW s \in RepInputs, Rep!CreateSchedule(r, s) PROVE RepKnown'
    <2> DEFINE row == Rep!normalizeSchedule(s)
               q == IF s.status = "active" THEN [pc |-> "register", id |-> Len(repRows) + 1, cron |-> s.cron] ELSE Rep!Done
    <2>1. /\ repReq[r] = Rep!New /\ repRows' = Append(repRows, row) /\ repReq' = [repReq EXCEPT ![r] = q]
          /\ UNCHANGED <<repHistory, repUp, repLost>> /\ Rep!ValidSchedule(s)
      BY <1>1 DEF Rep!CreateSchedule
    <2>2. RepAccepted(row)
      BY <2>1, RepNormalized
    <2>3. q.pc # "save"
      BY DEF Rep!Done
    <2> HIDE DEF row, q
    <2>4. \A i \in DOMAIN repRows' : RepAccepted(repRows'[i])
      <3>1. /\ Len(repRows) \in Nat /\ DOMAIN repRows = 1..Len(repRows)
            /\ DOMAIN Append(repRows, row) = 1..(Len(repRows) + 1) /\ Append(repRows, row)[Len(repRows) + 1] = row
            /\ \A i \in 1..Len(repRows) : Append(repRows, row)[i] = repRows[i]
        BY <1>0, AppendProperties
      <3>2. ASSUME NEW i \in 1..(Len(repRows) + 1) PROVE RepAccepted(Append(repRows, row)[i])
        <4>1. i \in 1..Len(repRows) \/ i = Len(repRows) + 1
          BY <3>1
        <4> QED BY <2>2, <3>1, <4>1 DEF RepKnown
      <3> QED BY <2>1, <3>1, <3>2
    <2> QED BY <1>0, <2>1, <2>3, <2>4, RepStep
  <1>2. CASE Rep!UpdateSave(r)
    <2> DEFINE q == repReq[r]
               next == [pc |-> "unregister", id |-> q.id, cron |-> q.row.cron, again |-> q.row.status = "active"]
    <2>1. /\ q.pc = "save" /\ repRows' = [repRows EXCEPT ![q.id] = q.row] /\ repReq' = [repReq EXCEPT ![r] = next]
          /\ UNCHANGED <<repHistory, repUp, repLost>>
      BY <1>2 DEF Rep!UpdateSave
    <2>2. RepAccepted(q.row) /\ q # Rep!Done
      BY <2>1 DEF RepKnown, RepAskKnown, Rep!Done
    <2>3. next.pc # "save"
      OBVIOUS
    <2> HIDE DEF next
    <2>4. \A i \in DOMAIN repRows' : RepAccepted(repRows'[i])
      BY <2>1, <2>2 DEF RepKnown
    <2> QED BY <1>0, <2>1, <2>2, <2>3, <2>4, RepStep
  <1>3. ASSUME NEW i \in DOMAIN repRows, Rep!DeleteSchedule(r, i) PROVE RepKnown'
    <2> DEFINE q == [pc |-> "unregister", id |-> i, cron |-> None, again |-> FALSE]
               row == [repRows[i] EXCEPT !.deleted = TRUE]
    <2>1. /\ repReq[r] = Rep!New /\ repRows' = [repRows EXCEPT ![i] = row] /\ repReq' = [repReq EXCEPT ![r] = q]
          /\ UNCHANGED <<repHistory, repUp, repLost>>
      BY <1>3 DEF Rep!DeleteSchedule
    <2>2. row.retention = repRows[i].retention
      BY RepRead DEF RepInv, RepRow
    <2>3. RepAccepted(row) /\ q.pc # "save"
      BY <2>2 DEF RepKnown, RepAccepted
    <2> HIDE DEF row, q
    <2>4. \A j \in DOMAIN repRows' : RepAccepted(repRows'[j])
      BY <2>1, <2>3 DEF RepKnown
    <2> QED BY <1>0, <2>1, <2>3, <2>4, RepStep
  <1> QED BY <1>1, <1>2, <1>3

LEMMA RepKnownRun ==
    ASSUME RepInv, RepKnown, NEW r \in RepReqs,
           \/ \E i \in DOMAIN repRows : Rep!CronJob(r, i) \/ Rep!RunScheduleNow(r, i)
           \/ \E ok \in BOOLEAN : Rep!deliver(r, ok)
           \/ Rep!RecordRun(r)
    PROVE  RepKnown'
  <1> DEFINE S == RepEntry
  <1>0. RepTyped /\ repHistory \in Seq(S) /\ Rep!New # Rep!Done
    BY DEF RepInv, RepTyped, Rep!New, Rep!Done
  <1> HIDE DEF S
  <1>1. ASSUME NEW i, Rep!Started(r, i) PROVE RepKnown'
    <2> DEFINE entry == [schedule |-> i, status |-> "pending", at |-> repNow]
               q == [pc |-> "deliver", id |-> i, row |-> repRows[i], run |-> Len(repHistory) + 1]
    <2>1. /\ repReq[r] = Rep!New /\ repHistory' = Append(repHistory, entry) /\ repReq' = [repReq EXCEPT ![r] = q]
          /\ UNCHANGED <<repRows, repUp, repLost>>
      BY <1>1 DEF Rep!Started
    <2>2. q.pc # "save"
      OBVIOUS
    <2> HIDE DEF entry, q
    <2>3. DOMAIN repHistory \subseteq DOMAIN repHistory'
      <3>1. /\ Len(repHistory) \in Nat /\ DOMAIN repHistory = 1..Len(repHistory)
            /\ DOMAIN Append(repHistory, entry) = 1..(Len(repHistory) + 1)
        BY <1>0, AppendProperties
      <3> QED BY <2>1, <3>1
    <2> QED BY <1>0, <2>1, <2>2, <2>3, RepQuiet
  <1>2. ASSUME NEW ok \in BOOLEAN, Rep!deliver(r, ok) PROVE RepKnown'
    <2> DEFINE old == repReq[r]
               pc == IF ok THEN "delivered" ELSE "refused"
               q == [old EXCEPT !.pc = pc]
    <2>1. /\ old.pc = "deliver" /\ repReq' = [repReq EXCEPT ![r] = q]
          /\ UNCHANGED <<repRows, repHistory, repUp, repLost>>
      BY <1>2 DEF Rep!deliver
    <2>2. old \in RepRun(Len(repHistory))
      BY <1>0, <2>1 DEF RepTyped, RepAsked, RepRunning
    <2>3. q.pc = pc /\ pc # "save"
      BY <2>2 DEF RepRun
    <2>4. old # Rep!Done
      BY <2>1 DEF Rep!Done
    <2> HIDE DEF q
    <2> QED BY <1>0, <2>1, <2>3, <2>4, RepQuiet
  <1>3. CASE Rep!RecordRun(r)
    <2> DEFINE old == repReq[r]
               q == Rep!Done
    <2>1. /\ old.pc \in {"delivered", "refused"} /\ repReq' = [repReq EXCEPT ![r] = q]
          /\ DOMAIN repHistory' = DOMAIN repHistory /\ UNCHANGED <<repRows, repUp, repLost>>
      BY <1>3 DEF Rep!RecordRun, Rep!cleanupHistory
    <2>2. old # Rep!Done /\ q.pc # "save"
      BY <2>1 DEF Rep!Done
    <2> HIDE DEF q
    <2> QED BY <1>0, <2>1, <2>2, RepQuiet
  <1> QED BY <1>1, <1>2, <1>3 DEF Rep!CronJob, Rep!RunScheduleNow

LEMMA RepKnownAsk ==
    ASSUME RepInv, RepKnown, NEW r \in RepReqs,
           \/ \E i \in DOMAIN repRows, s \in RepInputs : Rep!UpdateRead(r, i, s)
           \/ Rep!UnregisterSchedule(r) \/ Rep!RegisterSchedule(r)
    PROVE  RepKnown'
  <1>0. RepTyped /\ Rep!New # Rep!Done
    BY DEF RepInv, Rep!New, Rep!Done
  <1>1. ASSUME NEW i, NEW s \in RepInputs, Rep!UpdateRead(r, i, s) PROVE RepKnown'
    <2> DEFINE row == Rep!normalizeSchedule(s)
               q == [pc |-> "save", id |-> i, row |-> row]
    <2>1. /\ repReq[r] = Rep!New /\ repReq' = [repReq EXCEPT ![r] = q] /\ Rep!ValidSchedule(s)
          /\ UNCHANGED <<repRows, repHistory, repUp, repLost>>
      BY <1>1 DEF Rep!UpdateRead
    <2>2. RepAccepted(row)
      BY <2>1, RepNormalized
    <2> HIDE DEF row
    <2>3. RepAccepted(q.row)
      BY <2>2
    <2> HIDE DEF q
    <2> QED BY <1>0, <2>1, <2>3, RepQuiet
  <1>2. CASE Rep!UnregisterSchedule(r)
    <2> DEFINE old == repReq[r]
               q == IF old.again THEN [pc |-> "register", id |-> old.id, cron |-> old.cron] ELSE Rep!Done
    <2>1. /\ old.pc = "unregister" /\ repReq' = [repReq EXCEPT ![r] = q]
          /\ UNCHANGED <<repRows, repHistory, repUp, repLost>>
      BY <1>2 DEF Rep!UnregisterSchedule
    <2>2. old # Rep!Done /\ q.pc # "save"
      BY <2>1 DEF Rep!Done
    <2> HIDE DEF q
    <2> QED BY <1>0, <2>1, <2>2, RepQuiet
  <1>3. CASE Rep!RegisterSchedule(r)
    <2> DEFINE old == repReq[r]
               q == Rep!Done
    <2>1. /\ old.pc = "register" /\ repReq' = [repReq EXCEPT ![r] = q]
          /\ UNCHANGED <<repRows, repHistory, repUp, repLost>>
      BY <1>3 DEF Rep!RegisterSchedule
    <2>2. old # Rep!Done /\ q.pc # "save"
      BY <2>1 DEF Rep!Done
    <2> HIDE DEF q
    <2> QED BY <1>0, <2>1, <2>2, RepQuiet
  <1> QED BY <1>1, <1>2, <1>3

LEMMA RepKnownNext == RepInv /\ RepKnown /\ [Rep!Next]_(Rep!vars) => RepKnown'
  <1> SUFFICES ASSUME RepInv, RepKnown, [Rep!Next]_(Rep!vars) PROVE RepKnown'
    OBVIOUS
  <1>1. CASE Rep!Crash
    <2> DEFINE running == {p \in RepReqs : repReq[p].pc \in {"deliver", "delivered", "refused"}}
    <2>1. /\ repReq' = [r \in RepReqs |-> Rep!Done] /\ UNCHANGED <<repRows, repHistory>>
          /\ repLost' = repLost \cup {repReq[r].run : r \in running}
      BY <1>1 DEF Rep!Crash
    <2>2. \A r \in running : repReq[r].run \in DOMAIN repHistory
      <3> SUFFICES ASSUME NEW r \in running PROVE repReq[r].run \in DOMAIN repHistory
        OBVIOUS
      <3>1. repReq[r] \in RepRun(Len(repHistory))
        BY DEF RepInv, RepTyped, RepAsked, RepRunning
      <3>2. repReq[r].run \in 1..Len(repHistory)
        BY <3>1 DEF RepRun
      <3> DEFINE S == RepEntry
      <3>3. repHistory \in Seq(S)
        BY DEF RepInv, RepTyped
      <3> HIDE DEF S
      <3> QED BY <3>2, <3>3
    <2>3. \A r \in RepReqs : RepAskKnown(repReq'[r], repUp')
      BY <2>1 DEF RepAskKnown, Rep!Done
    <2>4. repLost' \subseteq DOMAIN repHistory'
      BY <2>1, <2>2 DEF RepKnown
    <2> QED BY <2>1, <2>3, <2>4 DEF RepKnown
  <1>2. CASE Rep!Start
    <2>1. /\ repReq' = [r \in RepReqs |-> Rep!New] /\ repUp' /\ UNCHANGED <<repRows, repHistory, repLost>>
      BY <1>2 DEF Rep!Start
    <2>2. \A r \in RepReqs : RepAskKnown(repReq'[r], repUp')
      BY <2>1 DEF RepAskKnown, Rep!New
    <2> QED BY <2>1, <2>2 DEF RepKnown
  <1>3. CASE Rep!Tick \/ UNCHANGED Rep!vars
    BY <1>3 DEF Rep!Tick, Rep!vars, RepKnown
  <1> QED BY <1>1, <1>2, <1>3, RepKnownSaved, RepKnownRun, RepKnownAsk DEF Rep!Next, Rep!Ids

LEMMA RepTypes == RepInv /\ RepKnown => Rep!TypeOK
  <1> SUFFICES ASSUME RepInv, RepKnown PROVE Rep!TypeOK
    OBVIOUS
  <1> DEFINE S == RepEntry
  <1>1. repHistory \in Seq(S) /\ repSent \subseteq DOMAIN repHistory
    BY DEF RepInv, RepTyped
  <1> HIDE DEF S
  <1>2. \A h \in DOMAIN repHistory : repHistory[h] \in S
    BY <1>1
  <1>3. \A h \in DOMAIN repHistory : repHistory[h].status \in RepStatuses
    BY <1>2 DEF S, RepEntry
  <1> QED BY <1>1, <1>3 DEF RepStatuses, RepKnown, RepAccepted, RepAskKnown, Rep!TypeOK, Rep!Ids, Rep!Runs

\* The queue of mails keeps to its buffer, every provider has a health.
MailHealthy(h) == /\ h = [p \in Mail!Providers |-> h[p]]
                  /\ \A p \in Mail!Providers : h[p].status \in {"healthy", "degraded", "unhealthy"}

MailKnown == Len(mailQueue) <= MailQueueBuffer /\ MailHealthy(mailHealth)

LEMMA MailHealthKept ==
    ASSUME NEW p, NEW ok \in BOOLEAN, MailHealthy(mailHealth)
    PROVE  MailHealthy(IF ok THEN Mail!RecordSuccess(p) ELSE Mail!RecordFailure(p))
  <1> DEFINE bad == Mail!StatusAfter(mailHealth[p].failures + 1)
             n == mailHealth[p].failures + 1
             sick == [status |-> bad, failures |-> n]
  <1>1. bad \in {"degraded", "unhealthy"}
    BY DEF Mail!StatusAfter
  <1> HIDE DEF bad, n
  <1>2. sick.status = bad
    OBVIOUS
  <1> HIDE DEF sick
  <1>3. \A new : new.status \in {"healthy", "degraded", "unhealthy"} => MailHealthy([mailHealth EXCEPT ![p] = new])
    BY DEF MailHealthy
  <1>4. Mail!RecordFailure(p) = [mailHealth EXCEPT ![p] = sick]
    BY DEF Mail!RecordFailure, sick, bad, n
  <1>5. MailHealthy([mailHealth EXCEPT ![p] = sick])
    BY <1>1, <1>2, <1>3
  <1>6. MailHealthy(Mail!RecordSuccess(p))
    <2>1. Mail!Healthy.status = "healthy"
      BY DEF Mail!Healthy
    <2> QED BY <1>3, <2>1 DEF Mail!RecordSuccess
  <1> QED BY <1>4, <1>5, <1>6

LEMMA MailKnownNext == MailInv /\ MailKnown /\ [Mail!Next]_(Mail!vars) => MailKnown'
  <1> SUFFICES ASSUME MailInv, MailKnown, [Mail!Next]_(Mail!vars) PROVE MailKnown'
    OBVIOUS
  <1>0. mailQueue \in Seq(Nat) /\ MailQueueBuffer \in Nat /\ Len(mailQueue) \in Nat
    BY BoundsAssumption DEF MailInv, MailTyped
  <1>1. CASE Mail!queueEmail
    <2>1. /\ Len(mailQueue) < MailQueueBuffer /\ mailQueue' = Append(mailQueue, mailAccepted + 1)
          /\ UNCHANGED mailHealth
      BY <1>1 DEF Mail!queueEmail
    <2>2. Len(mailQueue') = Len(mailQueue) + 1
      BY <1>0, <2>1
    <2> QED BY <1>0, <2>1, <2>2 DEF MailKnown
  <1>2. CASE Mail!worker
    <2>1. mailQueue # <<>> /\ mailQueue' = Tail(mailQueue) /\ UNCHANGED mailHealth
      BY <1>2 DEF Mail!worker
    <2>2. Len(mailQueue') = Len(mailQueue) - 1
      BY <1>0, <2>1
    <2> QED BY <1>0, <2>1, <2>2 DEF MailKnown
  <1>3. ASSUME NEW ok \in BOOLEAN, Mail!dispatch(ok) PROVE MailKnown'
    <2>1. /\ UNCHANGED mailQueue
          /\ \E p : mailHealth' = IF ok THEN Mail!RecordSuccess(p) ELSE Mail!RecordFailure(p)
      BY <1>3 DEF Mail!dispatch
    <2> QED BY <2>1, MailHealthKept DEF MailKnown
  <1>4. ASSUME NEW p, NEW ok \in BOOLEAN, Mail!CheckHealth(p, ok) PROVE MailKnown'
    <2>1. UNCHANGED mailQueue /\ mailHealth' = IF ok THEN Mail!RecordSuccess(p) ELSE Mail!RecordFailure(p)
      BY <1>4 DEF Mail!CheckHealth
    <2> QED BY <2>1, MailHealthKept DEF MailKnown
  <1>5. ASSUME NEW p, Mail!Reset(p) PROVE MailKnown'
    <2>1. UNCHANGED mailQueue /\ mailHealth' = Mail!RecordSuccess(p)
      BY <1>5 DEF Mail!Reset, Mail!RecordSuccess
    <2>2. MailHealthy(IF TRUE THEN Mail!RecordSuccess(p) ELSE Mail!RecordFailure(p))
      BY MailHealthKept DEF MailKnown
    <2> QED BY <2>1, <2>2 DEF MailKnown
  <1>6. CASE UNCHANGED Mail!vars
    BY <1>6 DEF Mail!vars, MailKnown
  <1> QED BY <1>1, <1>2, <1>3, <1>4, <1>5, <1>6 DEF Mail!Next

LEMMA MailTypes == MailInv /\ MailKnown => Mail!TypeOK
  BY DEF MailInv, MailTyped, MailWork, MailKnown, MailHealthy, Mail!TypeOK

\* The rows of deliveries keep to their bound; recipients are suppressed.
EvKnown == Len(mailRows) <= MailMaxRows /\ mailSuppressed \subseteq MailRecipients

LEMMA EvKnownNext == EvInv /\ EvKnown /\ [Mail!EventNext]_(Mail!eventVars) => EvKnown'
  <1> SUFFICES ASSUME EvInv, EvKnown, [Mail!EventNext]_(Mail!eventVars) PROVE EvKnown'
    OBVIOUS
  <1> DEFINE S == EvRow
  <1>0. mailRows \in Seq(S) /\ MailMaxRows \in Nat /\ Len(mailRows) \in Nat /\ EvTyped
    BY BoundsAssumption, EvRead DEF EvInv, EvTyped
  <1> HIDE DEF S
  <1>1. \A row : Len(mailRows) < MailMaxRows => Len(Append(mailRows, row)) <= MailMaxRows
    BY <1>0
  <1>2. ASSUME NEW m, NEW to, Mail!RecordSent(m, to) PROVE EvKnown'
    BY <1>1, <1>2 DEF Mail!RecordSent, EvKnown
  <1>3. ASSUME NEW r, NEW k, NEW m, NEW to, Mail!Read(r, k, m, to) PROVE EvKnown'
    BY <1>3 DEF Mail!Read, EvKnown
  <1>4. ASSUME NEW r \in MailReqs, Mail!Save(r) PROVE EvKnown'
    <2> DEFINE q == mailReqs[r]
               row == Mail!Stamped(q.row, q.kind)
    <2>1. /\ UNCHANGED mailSuppressed
          /\ \/ Len(mailRows) < MailMaxRows /\ mailRows' = Append(mailRows, Mail!Created(q))
             \/ mailRows' = [mailRows EXCEPT ![q.at] = row]
      BY <1>4 DEF Mail!Save
    <2>2. mailRows' = [mailRows EXCEPT ![q.at] = row] => Len(mailRows') = Len(mailRows)
      <3> HIDE DEF q, row
      <3> QED BY <1>0
    <2> HIDE DEF q, row
    <2> QED BY <1>1, <2>1, <2>2 DEF EvKnown
  <1>5. ASSUME NEW r, Mail!SuppressRecipient(r) PROVE EvKnown'
    BY <1>5 DEF Mail!SuppressRecipient, EvKnown
  <1>6. ASSUME NEW r \in MailReqs, Mail!CreateSuppression(r) PROVE EvKnown'
    <2>1. /\ mailReqs[r].pc = "create" /\ mailSuppressed' = mailSuppressed \cup {mailReqs[r].to}
          /\ UNCHANGED mailRows
      BY <1>6 DEF Mail!CreateSuppression
    <2>2. mailReqs[r] \in EvReq
      BY <1>0, <2>1 DEF EvTyped, Mail!New
    <2> QED BY <2>1, <2>2 DEF EvReq, EvKnown
  <1>7. CASE UNCHANGED Mail!eventVars
    BY <1>7 DEF Mail!eventVars, EvKnown
  <1> QED BY <1>2, <1>3, <1>4, <1>5, <1>6, <1>7 DEF Mail!EventNext

LEMMA EventTypes == EvInv /\ EvKnown => Mail!EventTypeOK
  <1> SUFFICES ASSUME EvInv, EvKnown PROVE Mail!EventTypeOK
    OBVIOUS
  <1>1. \A i \in DOMAIN mailRows : mailRows[i] \in EvRow
    BY EvRead DEF EvInv
  <1>2. \A i \in DOMAIN mailRows : mailRows[i].status \in Mail!Stamps /\ mailRows[i].stamps \subseteq Mail!Stamps
    BY <1>1 DEF EvRow, EvStamps, Mail!Stamps
  <1>3. \A r \in MailReqs : mailReqs[r].pc \in {"new", "save", "suppress", "create", "done"}
    BY DEF EvInv, EvTyped, EvReq, Mail!New
  <1> QED BY <1>2, <1>3 DEF EvKnown, Mail!EventTypeOK

\* No template beyond the bound, and no snapshot, nor a row to be saved,
\* beyond the last version.
TplAskKnown(q) ==
    /\ q.pc \in {"new", "create", "save", "activate", "done"}
    /\ q.pc = "save" => q.row.version <= MailMaxVersion

TplKnown ==
    /\ DOMAIN mailTemplates \subseteq 1..MailMaxTemplates
    /\ \A v \in mailVersions : v.version <= MailMaxVersion
    /\ \A r \in Addr \cup {3} : TplAskKnown(mailEdits[r])

LEMMA TplKnownStep ==
    ASSUME TplInv, TplKnown, NEW r \in Addr \cup {3}, NEW q, mailEdits' = [mailEdits EXCEPT ![r] = q], TplAskKnown(q),
           DOMAIN mailTemplates' \subseteq 1..MailMaxTemplates,
           \A v \in mailVersions' : v.version <= MailMaxVersion
    PROVE  TplKnown'
  <1>1. mailEdits'[r] = q /\ \A s \in Addr \cup {3} : s # r => mailEdits'[s] = mailEdits[s]
    BY DEF TplInv
  <1>2. \A s \in Addr \cup {3} : TplAskKnown(mailEdits'[s])
    BY <1>1 DEF TplKnown
  <1> QED BY <1>2 DEF TplKnown

LEMMA TplKnownEdit ==
    ASSUME TplInv, TplKnown, NEW r \in Addr \cup {3}, NEW i, NEW c \in MailContents, Mail!Edit(r, i, c)
    PROVE  TplKnown'
  <1> DEFINE row == Mail!Edited(mailTemplates[i], c)
             q == [pc |-> "save", template |-> i, row |-> row]
  <1>1. /\ i \in DOMAIN mailTemplates /\ mailTemplates[i].version < MailMaxVersion
        /\ mailEdits' = [mailEdits EXCEPT ![r] = q] /\ UNCHANGED <<mailTemplates, mailVersions>>
    BY DEF Mail!Edit, Mail!Live
  <1>2. mailTemplates[i] \in TplRow
    <2> DEFINE S == TplRow
    <2>1. mailTemplates \in Seq(S)
      BY DEF TplInv, TplHistory, TplTyped
    <2> HIDE DEF S
    <2>2. mailTemplates[i] \in S
      BY <1>1, <2>1
    <2> QED BY <2>2 DEF S
  <1>3. row.version = mailTemplates[i].version + 1
    BY <1>2, TplEdited
  <1> HIDE DEF row
  <1>4. mailTemplates[i].version \in Nat /\ MailMaxVersion \in Nat
    BY <1>2, BoundsAssumption DEF TplRow
  <1>5. q.pc = "save" /\ q.row.version <= MailMaxVersion
    BY <1>1, <1>3, <1>4
  <1>6. TplAskKnown(q)
    BY <1>5 DEF TplAskKnown
  <1> HIDE DEF q
  <1> QED BY <1>1, <1>6, TplKnownStep DEF TplKnown

LEMMA TplKnownCommit ==
    ASSUME TplInv, TplKnown, NEW r \in Addr \cup {3}, Mail!CreateCommit(r) \/ Mail!SaveCommit(r) \/ Mail!ActivateCommit(r)
    PROVE  TplKnown'
  <1> DEFINE old == mailEdits[r]
             q == Mail!Done
             S == TplRow
  <1>0. TplAskKnown(q)
    BY DEF TplAskKnown, Mail!Done
  <1>1. CASE Mail!CreateCommit(r)
    <2> DEFINE rows == Mail!Saved(mailTemplates, Mail!Deactivated(old.others))
               v == [template |-> Len(mailTemplates) + 1, version |-> 1, content |-> old.row.content]
    <2>1. /\ Len(mailTemplates) < MailMaxTemplates /\ mailTemplates' = Append(rows, old.row)
          /\ mailVersions' = mailVersions \cup {v} /\ mailEdits' = [mailEdits EXCEPT ![r] = q]
      BY <1>1 DEF Mail!CreateCommit
    <2>2. rows \in Seq(S) /\ mailTemplates \in Seq(S) /\ DOMAIN rows = DOMAIN mailTemplates
      BY TplDeactivated DEF TplSame, TplInv, TplHistory, TplTyped
    <2>3. v.version = 1
      OBVIOUS
    <2> HIDE DEF rows, S, v, q
    <2>4. /\ Len(rows) = Len(mailTemplates) /\ Len(rows) \in Nat
          /\ DOMAIN Append(rows, old.row) = 1..(Len(rows) + 1)
      <3>1. Len(rows) \in Nat /\ Len(mailTemplates) \in Nat
            /\ DOMAIN rows = 1..Len(rows) /\ DOMAIN mailTemplates = 1..Len(mailTemplates)
            /\ DOMAIN Append(rows, old.row) = 1..(Len(rows) + 1)
        <4>1. Len(rows) \in Nat /\ Len(mailTemplates) \in Nat
              /\ DOMAIN rows = 1..Len(rows) /\ DOMAIN mailTemplates = 1..Len(mailTemplates)
          BY <2>2
        <4>2. DOMAIN Append(rows, old.row) = 1..(Len(rows) + 1)
          <5> DEFINE x == old.row
          <5> HIDE DEF x
          <5>1. DOMAIN Append(rows, x) = 1..(Len(rows) + 1)
            BY <2>2
          <5> QED BY <5>1 DEF x
        <4> QED BY <4>1, <4>2
      <3>2. Len(rows) = Len(mailTemplates)
        <4>1. \A n, m \in Nat : 1..n = 1..m => n = m
          <5> SUFFICES ASSUME NEW n \in Nat, NEW m \in Nat, 1..n = 1..m PROVE n = m
            OBVIOUS
          <5>1. (n \in 1..n <=> n \in 1..m) /\ (m \in 1..m <=> m \in 1..n)
            OBVIOUS
          <5> QED BY <5>1
        <4> QED BY <2>2, <3>1, <4>1
      <3> QED BY <3>1, <3>2
    <2>5. DOMAIN mailTemplates' \subseteq 1..MailMaxTemplates
      BY <2>1, <2>4, BoundsAssumption
    <2>6. \A w \in mailVersions' : w.version <= MailMaxVersion
      BY <2>1, <2>3, BoundsAssumption DEF TplKnown
    <2> QED BY <1>0, <2>1, <2>5, <2>6, TplKnownStep
  <1>2. CASE Mail!SaveCommit(r)
    <2> DEFINE v == [template |-> old.template, version |-> old.row.version, content |-> old.row.content]
    <2>1. /\ old.pc = "save" /\ mailEdits' = [mailEdits EXCEPT ![r] = q]
          /\ DOMAIN mailTemplates' = DOMAIN mailTemplates
          /\ mailVersions' = mailVersions \/ mailVersions' = mailVersions \cup {v}
      BY <1>2 DEF Mail!SaveCommit
    <2>2. v.version <= MailMaxVersion
      BY <2>1 DEF TplKnown, TplAskKnown
    <2> HIDE DEF v, q
    <2>3. \A w \in mailVersions' : w.version <= MailMaxVersion
      BY <2>1, <2>2 DEF TplKnown
    <2> QED BY <1>0, <2>1, <2>3, TplKnownStep DEF TplKnown
  <1>3. CASE Mail!ActivateCommit(r)
    <2>1. /\ mailEdits' = [mailEdits EXCEPT ![r] = q] /\ UNCHANGED mailVersions
          /\ DOMAIN mailTemplates' = DOMAIN mailTemplates
      BY <1>3 DEF Mail!ActivateCommit, Mail!Saved
    <2> HIDE DEF q
    <2> QED BY <1>0, <2>1, TplKnownStep DEF TplKnown
  <1> QED BY <1>1, <1>2, <1>3

LEMMA TplKnownNext == TplInv /\ TplKnown /\ [Mail!TemplateNext]_(Mail!templateVars) => TplKnown'
  <1> SUFFICES ASSUME TplInv, TplKnown, [Mail!TemplateNext]_(Mail!templateVars) PROVE TplKnown'
    OBVIOUS
  <1>1. ASSUME UNCHANGED <<mailVersions, mailEdits>>, DOMAIN mailTemplates' = DOMAIN mailTemplates PROVE TplKnown'
    BY <1>1 DEF TplKnown
  <1>2. ASSUME NEW r \in Addr \cup {3}, NEW l, NEW c, NEW b, Mail!CreateTemplate(r, l, c, b) PROVE TplKnown'
    <2> DEFINE q == [pc |-> "create", others |-> IF b THEN Mail!Others(l, 0) ELSE {},
                     row |-> [language |-> l, content |-> c, version |-> 1, active |-> b, deleted |-> FALSE]]
    <2>1. mailEdits' = [mailEdits EXCEPT ![r] = q] /\ UNCHANGED <<mailTemplates, mailVersions>>
      BY <1>2 DEF Mail!CreateTemplate
    <2>2. TplAskKnown(q)
      BY DEF TplAskKnown
    <2> HIDE DEF q
    <2> QED BY <2>1, <2>2, TplKnownStep DEF TplKnown
  <1>3. ASSUME NEW r \in Addr \cup {3}, NEW i, Mail!ActivateTemplate(r, i) PROVE TplKnown'
    <2> DEFINE q == [pc |-> "activate", template |-> i, others |-> Mail!Others(mailTemplates[i].language, i)]
    <2>1. mailEdits' = [mailEdits EXCEPT ![r] = q] /\ UNCHANGED <<mailTemplates, mailVersions>>
      BY <1>3 DEF Mail!ActivateTemplate
    <2>2. TplAskKnown(q)
      BY DEF TplAskKnown
    <2> HIDE DEF q
    <2> QED BY <2>1, <2>2, TplKnownStep DEF TplKnown
  <1>4. ASSUME NEW r \in Addr \cup {3}, NEW i, NEW c \in MailContents, Mail!UpdateTemplate(r, i, c) PROVE TplKnown'
    BY <1>4, TplKnownEdit DEF Mail!UpdateTemplate
  <1>5. ASSUME NEW r \in Addr \cup {3}, NEW v \in mailVersions, Mail!RollbackToVersion(r, v) PROVE TplKnown'
    <2>1. v.content \in MailContents
      BY DEF TplInv, TplHistory, TplTyped, TplSnapshot
    <2> QED BY <1>5, <2>1, TplKnownEdit DEF Mail!RollbackToVersion
  <1>6. ASSUME NEW i, Mail!DeleteTemplate(i) PROVE TplKnown'
    BY <1>1, <1>6 DEF Mail!DeleteTemplate
  <1>7. ASSUME NEW i, NEW u, Mail!CreateVariant(i, u) PROVE TplKnown'
    BY <1>1, <1>7 DEF Mail!CreateVariant
  <1>8. ASSUME NEW l, NEW g, Mail!Render(l, g) PROVE TplKnown'
    BY <1>1, <1>8 DEF Mail!Render
  <1>9. CASE UNCHANGED Mail!templateVars
    BY <1>1, <1>9 DEF Mail!templateVars
  <1> QED BY <1>2, <1>3, <1>4, <1>5, <1>6, <1>7, <1>8, <1>9, TplKnownCommit DEF Mail!TemplateNext

LEMMA TemplateTypes == TplInv /\ TplKnown => Mail!TemplateTypeOK
  <1> SUFFICES ASSUME TplInv, TplKnown PROVE Mail!TemplateTypeOK
    OBVIOUS
  <1> DEFINE S == TplRow
  <1>1. mailTemplates \in Seq(S) /\ mailVersions \subseteq TplSnapshot
        /\ \A v \in mailVersions : v.template \in DOMAIN mailTemplates
    BY DEF TplInv, TplHistory, TplTyped
  <1> HIDE DEF S
  <1>2. Len(mailTemplates) <= MailMaxTemplates
    <2>1. Len(mailTemplates) \in Nat /\ DOMAIN mailTemplates = 1..Len(mailTemplates)
      BY <1>1
    <2>2. Len(mailTemplates) \in DOMAIN mailTemplates \/ Len(mailTemplates) = 0
      BY <2>1
    <2> QED BY <2>1, <2>2, BoundsAssumption DEF TplKnown
  <1>3. ASSUME NEW i \in DOMAIN mailTemplates
        PROVE  mailTemplates[i].content \in MailContents /\ mailTemplates[i].version \in 1..MailMaxVersion
    <2> DEFINE v == [template |-> i, version |-> mailTemplates[i].version, content |-> mailTemplates[i].content]
    <2>1. mailTemplates[i] \in S
      BY <1>1
    <2>2. mailTemplates[i].content \in MailContents /\ mailTemplates[i].version \in Nat \ {0}
      BY <2>1 DEF S, TplRow
    <2>3. v \in mailVersions
      BY DEF TplInv, TplHistory, TplOf
    <2>4. v.version <= MailMaxVersion /\ v.version = mailTemplates[i].version
      BY <2>3 DEF TplKnown
    <2> HIDE DEF v
    <2> QED BY <2>2, <2>4, BoundsAssumption
  <1>4. \A v \in mailVersions : v.content \in MailContents
    BY <1>1 DEF TplSnapshot
  <1> QED BY <1>1, <1>2, <1>3, <1>4 DEF TplKnown, TplAskKnown, Mail!TemplateTypeOK

(***************************************************************************)
(* The storage of every component keeps its type, whatever requests,       *)
(* workers, crashes and restarts interleave: statuses are those of the     *)
(* code, queues keep to their bounds, a wallet can be met by its owners, a *)
(* batch counts no more operations than it has, every schedule keeps its   *)
(* reports for a time that is accepted, and versions refer to templates.   *)
(***************************************************************************)
THEOREM WorkflowTypes ==
    /\ Spec /\ App!Spec /\ App!WalletSpec /\ App!DisputeSpec
    /\ Bat!Spec /\ Bat!OpSpec /\ Rep!Spec /\ Mail!TemplateSpec
    /\ Rep!ExportSpec /\ Hook!Spec /\ Mail!Spec /\ Mail!EventSpec
    => []WorkflowsTypeOK
  <1>1. App!Spec => []App!TypeOK
    <2>1. App!Init => AppSweepKnown
      BY DEF App!Init, AppSweepKnown
    <2> QED BY <2>1, AppInvInit, AppNextInv, AppSweepNext, AppTypes, PTL DEF App!Spec
  <1>2. App!WalletSpec => []App!WalletTypeOK
    <2>1. App!WalletInit => WalletReachable
      BY DEF App!WalletInit, WalletReachable
    <2> QED BY <2>1, WalInvInit, WalNextInv, WalletReachableNext, WalletTypes, PTL DEF App!WalletSpec
  <1>3. App!DisputeSpec => []App!DisputeTypeOK
    BY DisInvInit, DisNextInv, DisputeTypes, PTL DEF App!DisputeSpec
  <1>4. Bat!Spec => []Bat!TypeOK
    <2>1. Bat!Init => BatQueueBounded
      BY BoundsAssumption DEF Bat!Init, BatQueueBounded
    <2> QED BY <2>1, BatInvInit, BatNextInv, BatQueueNext, BatTypes, PTL DEF Bat!Spec
  <1>5. Bat!OpSpec => []Bat!OpTypeOK
    <2>1. Bat!OpInit => OpKnown
      BY DEF Bat!OpInit, OpKnown
    <2> QED BY <2>1, OpInvInit, OpNextInv, OpKnownNext, OpTypes, PTL DEF Bat!OpSpec
  <1>6. Rep!Spec => []Rep!TypeOK
    <2>1. Rep!Init => RepKnown
      BY DEF Rep!Init, RepKnown, RepAskKnown, Rep!New
    <2> QED BY <2>1, RepInvInit, RepNextInv, RepKnownNext, RepTypes, PTL DEF Rep!Spec
  <1>7. Rep!ExportSpec => []Rep!ExportTypeOK
    BY ExInvInit, ExNextInv, ExportTypes, PTL DEF Rep!ExportSpec
  <1>8. Hook!Spec => []Hook!TypeOK
    BY HookInvInit, HookNextInv, HookTypes, PTL DEF Hook!Spec
  <1>9. Mail!Spec => []Mail!TypeOK
    <2>1. Mail!Init => MailKnown
      BY BoundsAssumption DEF Mail!Init, MailKnown, MailHealthy, Mail!Healthy
    <2> QED BY <2>1, MailInvInit, MailNextInv, MailKnownNext, MailTypes, PTL DEF Mail!Spec
  <1>10. Mail!EventSpec => []Mail!EventTypeOK
    <2>1. Mail!EventInit => EvKnown
      BY BoundsAssumption DEF Mail!EventInit, EvKnown
    <2> QED BY <2>1, EvInvInit, EvNextInv, EvKnownNext, EventTypes, PTL DEF Mail!EventSpec
  <1>11. Mail!TemplateSpec => []Mail!TemplateTypeOK
    <2>1. Mail!TemplateInit => TplKnown
      BY DEF Mail!TemplateInit, TplKnown, TplAskKnown, Mail!New
    <2> QED BY <2>1, TplInvInit, TplNextInv, TplKnownNext, TemplateTypes, PTL DEF Mail!TemplateSpec
  <1>12. /\ TypeOK /\ App!TypeOK /\ App!WalletTypeOK /\ App!DisputeTypeOK /\ Bat!TypeOK /\ Bat!OpTypeOK
         /\ Rep!TypeOK /\ Hook!TypeOK /\ Mail!TypeOK /\ Mail!EventTypeOK /\ Mail!TemplateTypeOK /\ Rep!ExportTypeOK
         => WorkflowsTypeOK
    BY DEF WorkflowsTypeOK
  <1> QED BY <1>1, <1>2, <1>3, <1>4, <1>5, <1>6, <1>7, <1>8, <1>9, <1>10, <1>11, <1>12, GovernanceTypeOK, PTL

-----------------------------------------------------------------------------
(* The run                                                                 *)

\* A component that does not move keeps its variables.
LEMMA WorkflowsAlone ==
    ASSUME NEW k, Alone(k)
    PROVE  /\ k # "governance" => UNCHANGED vars
           /\ k # "approvals" => UNCHANGED App!vars
           /\ k # "multisig_handler" => UNCHANGED App!walletVars
           /\ k # "disputes" => UNCHANGED App!disputeVars
           /\ k # "batches" => UNCHANGED Bat!vars
           /\ k # "asset_batches" => UNCHANGED Bat!opVars
           /\ k # "reports" => UNCHANGED Rep!vars
           /\ k # "templates" => UNCHANGED Mail!templateVars
           /\ k # "exports" => UNCHANGED Rep!exportVars
           /\ k # "webhooks" => UNCHANGED Hook!vars
           /\ k # "mail" => UNCHANGED Mail!vars
           /\ k # "mail_events" => UNCHANGED Mail!eventVars
  <1>1. k # "governance" => UNCHANGED vars
    BY DEF Alone
  <1>2. k # "disputes" => UNCHANGED appDisputeVars
    BY DEF Alone
  <1>3. k # "templates" => UNCHANGED mailTemplateVars
    BY DEF Alone
  <1>4. k # "approvals" => UNCHANGED appVars
    BY DEF Alone
  <1>5. k # "multisig_handler" => UNCHANGED appWalletVars
    BY DEF Alone
  <1>6. k # "batches" => UNCHANGED batVars
    BY DEF Alone
  <1>7. k # "asset_batches" => UNCHANGED batOpVars
    BY DEF Alone
  <1>8. /\ k # "batches" => UNCHANGED Bat!vars
        /\ k # "asset_batches" => UNCHANGED Bat!opVars
    BY <1>6, <1>7 DEF batVars, Bat!vars, batOpVars, Bat!opVars
  <1>9. k # "reports" => UNCHANGED repVars
    BY DEF Alone
  <1>10. k # "reports" => UNCHANGED Rep!vars
    BY <1>9 DEF repVars, Rep!vars
  <1>11. k # "exports" => UNCHANGED repExportVars
    BY DEF Alone
  <1>12. k # "webhooks" => UNCHANGED hookVars
    BY DEF Alone
  <1>13. k # "mail" => UNCHANGED mailVars
    BY DEF Alone
  <1>14. k # "mail_events" => UNCHANGED mailEventVars
    BY DEF Alone
  <1>15. k # "exports" => UNCHANGED Rep!exportVars
    BY <1>11 DEF repExportVars, Rep!exportVars
  <1>16. k # "webhooks" => UNCHANGED Hook!vars
    BY <1>12 DEF hookVars, Hook!vars
  <1>17. k # "mail" => UNCHANGED Mail!vars
    BY <1>13 DEF mailVars, Mail!vars
  <1>18. k # "mail_events" => UNCHANGED Mail!eventVars
    BY <1>14 DEF mailEventVars, Mail!eventVars
  <1> QED BY <1>1, <1>2, <1>3, <1>4, <1>5, <1>8, <1>10, <1>15, <1>16, <1>17, <1>18
      DEF appVars, App!vars, appWalletVars, App!walletVars, appDisputeVars, App!disputeVars, mailTemplateVars, Mail!templateVars

\* No component touches another's storage, so that a behaviour of all is one
\* of each.
LEMMA WorkflowsAreApart ==
    WorkflowsSpec => /\ Spec /\ App!Spec /\ App!WalletSpec /\ App!DisputeSpec
                     /\ Bat!Spec /\ Bat!OpSpec /\ Rep!Spec /\ Mail!TemplateSpec
                     /\ Rep!ExportSpec /\ Hook!Spec /\ Mail!Spec /\ Mail!EventSpec
  <1>1. WorkflowsInit => /\ Init /\ App!Init /\ App!WalletInit /\ App!DisputeInit
                         /\ Bat!Init /\ Bat!OpInit /\ Rep!Init /\ Mail!TemplateInit
                         /\ Rep!ExportInit /\ Hook!Init /\ Mail!Init /\ Mail!EventInit
    BY DEF WorkflowsInit
  <1>2. UNCHANGED all => /\ UNCHANGED vars /\ UNCHANGED App!vars /\ UNCHANGED App!walletVars
                         /\ UNCHANGED App!disputeVars /\ UNCHANGED Mail!templateVars
    BY DEF all, appVars, App!vars, appWalletVars, App!walletVars, appDisputeVars, App!disputeVars, mailTemplateVars, Mail!templateVars
  <1>3. UNCHANGED all => UNCHANGED Bat!vars /\ UNCHANGED Bat!opVars
    BY DEF all, batVars, Bat!vars, batOpVars, Bat!opVars
  <1>4. [WorkflowsNext]_all => [Next]_vars
    BY <1>2, WorkflowsAlone DEF WorkflowsNext
  <1>5. [WorkflowsNext]_all => [App!DisputeNext]_(App!disputeVars)
    BY <1>2, WorkflowsAlone DEF WorkflowsNext
  <1>6. [WorkflowsNext]_all => [Mail!TemplateNext]_(Mail!templateVars)
    BY <1>2, WorkflowsAlone DEF WorkflowsNext
  <1>7. [WorkflowsNext]_all => [App!Next]_(App!vars)
    BY <1>2, WorkflowsAlone DEF WorkflowsNext
  <1>8. [WorkflowsNext]_all => [App!WalletNext]_(App!walletVars)
    BY <1>2, WorkflowsAlone DEF WorkflowsNext
  <1>9. [WorkflowsNext]_all => [Bat!Next]_(Bat!vars)
    BY <1>3, WorkflowsAlone DEF WorkflowsNext
  <1>10. [WorkflowsNext]_all => [Bat!OpNext]_(Bat!opVars)
    BY <1>3, WorkflowsAlone DEF WorkflowsNext
  <1>11. UNCHANGED all => UNCHANGED Rep!vars
    BY DEF all, repVars, Rep!vars
  <1>12. [WorkflowsNext]_all => [Rep!Next]_(Rep!vars)
    BY <1>11, WorkflowsAlone DEF WorkflowsNext
  <1>13. UNCHANGED all => UNCHANGED Rep!exportVars /\ UNCHANGED Hook!vars
    BY DEF all, repExportVars, Rep!exportVars, hookVars, Hook!vars
  <1>14. UNCHANGED all => UNCHANGED Mail!vars /\ UNCHANGED Mail!eventVars
    BY DEF all, mailVars, Mail!vars, mailEventVars, Mail!eventVars
  <1>15. [WorkflowsNext]_all => [Rep!ExportNext]_(Rep!exportVars)
    BY <1>13, WorkflowsAlone DEF WorkflowsNext
  <1>16. [WorkflowsNext]_all => [Hook!Next]_(Hook!vars)
    BY <1>13, WorkflowsAlone DEF WorkflowsNext
  <1>17. [WorkflowsNext]_all => [Mail!Next]_(Mail!vars)
    BY <1>14, WorkflowsAlone DEF WorkflowsNext
  <1>18. [WorkflowsNext]_all => [Mail!EventNext]_(Mail!eventVars)
    BY <1>14, WorkflowsAlone DEF WorkflowsNext
  <1> QED BY <1>1, <1>4, <1>5, <1>6, <1>7, <1>8, <1>9, <1>10, <1>12, <1>15, <1>16, <1>17, <1>18, PTL
      DEF WorkflowsSpec, Spec, App!Spec, App!WalletSpec, App!DisputeSpec, Bat!Spec, Bat!OpSpec, Rep!Spec, Mail!TemplateSpec,
          Rep!ExportSpec, Hook!Spec, Mail!Spec, Mail!EventSpec

(***************************************************************************)
(* What is proved of each part holds of all of them together, as they are  *)
(* explored: storage keeps its types, delegations and tallies are sound,   *)
(* an approval has its votes, a transfer its chain, an escrow follows its  *)
(* dispute, batches run once and tell what they left, the scheduler        *)
(* follows its rows, deliveries are recorded as they happened, and         *)
(* templates keep their versions.                                          *)
(***************************************************************************)
THEOREM WorkflowsTogether ==
    WorkflowsSpec => [](/\ WorkflowsTypeOK /\ NoDelegationCycles /\ ApprovalBackedByVote
                        /\ TallyIsRecordedWeights /\ ApprovalsAreBacked /\ EscrowFollowsDispute
                        /\ BatchesAreTold /\ SchedulesAreKept /\ DeliveriesAreTold
                        /\ TemplatesAreKept)
  <1> QED BY WorkflowsAreApart, WorkflowTypes, GovernanceNoCycles, GovernanceApprovalBacked,
             GovernanceTally, ApprovalsBacked, EscrowFollows, BatchesTold, SchedulesKept,
             DeliveriesTold, TemplatesKept, PTL
=============================================================================
