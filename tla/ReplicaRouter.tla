---------------------------- MODULE ReplicaRouter ----------------------------
(***************************************************************************)
(* Read replicas (backend/database/connection.go, router.go): reads go     *)
(* round robin to the replicas known to be healthy and not too far behind, *)
(* everything else to the primary.  What is known about a replica is what  *)
(* the last health check saw; replication goes on meanwhile.               *)
(***************************************************************************)
EXTENDS Integers, Sequences, FiniteSets, Functions

CONSTANTS
    None,
    Replicas,          \* a sequence
    lagThreshold,
    MaxTime, MaxWrites, MaxReads

Nodes == Range(Replicas)

VARIABLES
    log,               \* the times of the primary's transactions
    replica,           \* node -> [applied, replayed]: what it has replayed
    node,              \* node -> [healthy, lag]: Node
    next,              \* the round-robin counter
    now,
    measured,          \* history: node -> time of the last lag measured, or None
    read               \* history: the last read routed [to, stale], or None

vars == <<log, replica, node, next, now, measured, read>>

TypeOK ==
    /\ \A n \in Nodes : replica[n].applied \in 1..Len(log) /\ node[n].lag \in 0..now
    /\ next \in 0..MaxReads

\* NewCluster takes every replica as healthy; the replicas start as copies
\* of the primary.
Init ==
    /\ log = <<0>>
    /\ replica = [n \in Nodes |-> [applied |-> 1, replayed |-> TRUE]]
    /\ node = [n \in Nodes |-> [healthy |-> TRUE, lag |-> 0]]
    /\ next = 0 /\ now = 0
    /\ measured = [n \in Nodes |-> None] /\ read = None

-----------------------------------------------------------------------------
\* PostgreSQL: the primary commits, replicas replay and restart.
Commit ==
    /\ Len(log) <= MaxWrites
    /\ log' = Append(log, now)
    /\ UNCHANGED <<replica, node, next, now, measured, read>>

Replay(n) ==
    /\ replica[n].applied < Len(log)
    /\ replica' = [replica EXCEPT ![n] = [applied |-> @.applied + 1, replayed |-> TRUE]]
    /\ UNCHANGED <<log, node, next, now, measured, read>>

Restart(n) ==
    /\ replica[n].replayed
    /\ replica' = [replica EXCEPT ![n].replayed = FALSE]
    /\ UNCHANGED <<log, node, next, now, measured, read>>

\* postgresReplicaLag: the age of the last transaction replayed, zero when
\* nothing was since the replica started; an idle primary makes it grow.
postgresReplicaLag(n) == IF replica[n].replayed THEN now - log[replica[n].applied] ELSE 0

\* RecordLag, and CheckReplicaHealth for one replica whose lag is known
RecordLag(n) ==
    LET lag == postgresReplicaLag(n) IN
    /\ node' = [node EXCEPT ![n] = [healthy |-> lag <= lagThreshold, lag |-> lag]]
    /\ measured' = [measured EXCEPT ![n] = IF replica[n].replayed THEN now ELSE None]
    /\ UNCHANGED <<log, replica, next, now, read>>

\* CheckReplicaHealth when the ping fails, or only the lag query does; and
\* SetReplicaHealth
SetReplicaHealth(n, healthy) ==
    /\ node' = [node EXCEPT ![n].healthy = healthy]
    /\ UNCHANGED <<log, replica, next, now, measured, read>>

-----------------------------------------------------------------------------
replicaUsable_HealthOnly(n) == node[n].healthy

replicaUsable(n) == node[n].healthy /\ node[n].lag <= lagThreshold

\* nextUsableReplica: from the next in turn on, None when there is none
nextUsableReplica ==
    LET At(i) == Replicas[((next + i) % Len(Replicas)) + 1]
        usable == {i \in 0..(Len(Replicas) - 1) : replicaUsable(At(i))}
    IN  IF usable = {} THEN None ELSE At(CHOOSE i \in usable : \A j \in usable : i <= j)

\* How old what a replica has not replayed is
Behind(n) == IF replica[n].applied < Len(log) THEN now - log[replica[n].applied + 1] ELSE 0

\* routeToReplica; the primary when no replica is usable
routeRead ==
    /\ next < MaxReads
    /\ next' = next + 1
    /\ read' = IF nextUsableReplica = None THEN [to |-> None, behind |-> 0, since |-> None]
               ELSE [to |-> nextUsableReplica, behind |-> Behind(nextUsableReplica),
                     since |-> IF measured[nextUsableReplica] = None THEN None
                               ELSE now - measured[nextUsableReplica]]
    /\ UNCHANGED <<log, replica, node, now, measured>>

\* shouldRoute: statements of a transaction, pinned ones and those that are
\* not reads stay on the primary and do not take a turn.
routePrimary ==
    /\ read # None
    /\ read' = [to |-> None, behind |-> 0, since |-> None]
    /\ UNCHANGED <<log, replica, node, next, now, measured>>

Tick == now < MaxTime /\ now' = now + 1 /\ UNCHANGED <<log, replica, node, next, measured, read>>

Next ==
    \/ Commit
    \/ \E n \in Nodes : Replay(n) \/ Restart(n) \/ RecordLag(n) \/ \E h \in BOOLEAN : SetReplicaHealth(n, h)
    \/ routeRead \/ routePrimary
    \/ Tick

Spec == Init /\ [][Next]_vars

-----------------------------------------------------------------------------
\* A read routed to a replica misses no write older than lagThreshold and
\* the time since the replica's lag was last measured, whatever pings failed
\* or succeeded and whoever set its health in between (a replica that has
\* replayed nothing since it restarted reports no lag, and has no bound).
ReadsAreFresh ==
    read # None /\ read.to # None /\ read.since # None => read.behind <= lagThreshold + read.since
=============================================================================
