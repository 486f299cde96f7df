--------------------------- MODULE Backend_proofs ---------------------------
(***************************************************************************)
(* Proofs about the event indexer, for any chain of events, any number of  *)
(* workers and any size of page, channel and retry budget; and about the   *)
(* two-level cache, for any instances, requests and workloads.             *)
(***************************************************************************)
EXTENDS MCBackend, Sums, SequenceTheorems

-----------------------------------------------------------------------------
\* The event indexer.  The places where an event may be on its way.
InHand(e) == poller.pc = "enqueue" /\ Head(poller.page) = e
InQueue(e) == \E i \in DOMAIN queue : queue[i] = e
AtWorker(e) == \E w \in Workers : workers[w].ev = e

\* An event is in one place at most, and what is in a place is pending and not
\* orphaned; the goroutines of a process that is down hold nothing.
Placed ==
    /\ poller.pc = "enqueue" => poller.page # <<>>
    /\ \A i, j \in DOMAIN queue : queue[i] = queue[j] => i = j
    /\ \A v, w \in Workers : workers[v].ev = workers[w].ev /\ workers[v].ev # None => v = w
    /\ \A e \in Events :
          /\ ~(InHand(e) /\ InQueue(e)) /\ ~(InHand(e) /\ AtWorker(e))
          /\ ~(InQueue(e) /\ AtWorker(e))
          /\ rows[e] = "pending" /\ e \notin orphans <=> InHand(e) \/ InQueue(e) \/ AtWorker(e)
    /\ \A e \in orphans : rows[e] = "pending"
    /\ phase = "down" => poller.pc = "off" /\ queue = <<>> /\ workers = [w \in Workers |-> Idle]

\* How often the handler of an event has succeeded, by where the event is.
Outcomes ==
    /\ \A e \in Events :
          /\ handled[e] <= 1
          /\ e \notin Handlers => handled[e] = 0
          /\ rows[e] \in {"absent", "failed"} => handled[e] = 0
          /\ InHand(e) \/ InQueue(e) => handled[e] = 0
          /\ e \in Handlers /\ rows[e] = "processed" => handled[e] = 1
    /\ \A w \in Workers : workers[w].ev # None =>
          IF workers[w].outcome = "ok" THEN workers[w].ev \in Handlers => handled[workers[w].ev] = 1
          ELSE workers[w].ev \in Handlers /\ handled[workers[w].ev] = 0

\* An event that is in the database or has a reason not to be.
Explained(e) == rows[e] # "absent" \/ e \in cut \cup dropped

\* What the poller has left of its page is all that is missing between the
\* checkpoint it started from and the latest ledger its answer named.
PageCovers ==
    poller.pc \in {"save", "enqueue"} =>
        /\ poller.from = checkpoint
        /\ poller.last <= Larger(poller.from, poller.latest)
        /\ \A i \in DOMAIN poller.page : Chain[poller.page[i]] <= poller.latest
        /\ \A e \in Events : Chain[e] >= poller.from /\ Chain[e] <= poller.latest =>
              Explained(e) \/ \E i \in DOMAIN poller.page : poller.page[i] = e

IndexerInv == TypeOK /\ Placed /\ Outcomes /\ GapsAreExplained /\ PageCovers

\* The chain, its events and the ledger of each.
LEMMA ChainType ==
    /\ Len(Chain) \in Nat /\ Events = 1..Len(Chain)
    /\ \A e \in Events : e \in Nat \ {0} /\ Chain[e] \in Nat \ {0}
    /\ \A e, f \in Events : e < f => Chain[e] <= Chain[f]
    /\ Handlers \subseteq Events /\ None \notin Events
<1>1. Chain \in Seq(Nat \ {0})
  BY IndexerAssumption
<1>2. Len(Chain) \in Nat /\ DOMAIN Chain = 1..Len(Chain)
  BY <1>1, LenProperties
<1>3. \A e \in 1..Len(Chain) : Chain[e] \in Nat \ {0}
  BY <1>1, ElementOfSeq
<1>4. QED
  BY <1>2, <1>3, IndexerAssumption DEF Events

\* A non-empty set of events has a first and a last element.
LEMMA EventBounds ==
    ASSUME NEW V \in SUBSET Events, V # {}
    PROVE  /\ Min(V) \in V /\ \A e \in V : Min(V) <= e
           /\ \E h \in V : \A e \in V : e <= h
<1>0. Len(Chain) \in Nat /\ Events = 1..Len(Chain)
  BY ChainType
<1> DEFINE n == Len(Chain)
           W == {n - e : e \in V}
<1>1. \A e \in V : e \in 1..n /\ n - e \in 0..n
  BY <1>0
<1>11. V \in SUBSET (0..n) /\ W \in SUBSET (0..n) /\ W # {}
  <2>1. V \subseteq 0..n
    BY <1>0, <1>1
  <2>2. W \subseteq 0..n
    BY <1>1
  <2>3. QED
    BY <2>1, <2>2
<1>2. PICK l \in V : \A e \in V : l <= e
  BY <1>0, <1>11, LeastNumber
<1>3. PICK m \in W : \A j \in W : m <= j
  BY <1>0, <1>11, LeastNumber
<1>4. PICK h \in V : m = n - h
  BY <1>3
<1>5. \A e \in V : n - h <= n - e
  BY <1>3, <1>4
<1>6. \A e \in V : e <= h
  BY <1>0, <1>5
<1>7. Min(V) \in V /\ \A e \in V : Min(V) <= e
  BY <1>2 DEF Min
<1>8. QED
  BY <1>6, <1>7

\* fetchEvents: an answer holds events of closed ledgers, and all that are
\* visible unless it is full.
LEMMA FetchCovers ==
    ASSUME TypeOK, NEW from \in Nat
    PROVE  /\ FetchEvents(from) \in Seq(Events)
           /\ \A i \in DOMAIN FetchEvents(from) : Chain[FetchEvents(from)[i]] <= tip
           /\ Len(FetchEvents(from)) # Limit =>
                 \A e \in Visible(from) : \E i \in DOMAIN FetchEvents(from) : FetchEvents(from)[i] = e
<1> DEFINE V == Visible(from)
           n == IF Cardinality(V) > Limit THEN Limit ELSE Cardinality(V)
           lo == Min(V)
           page == [k \in 1..n |-> lo + k - 1]
<1>1. V \in SUBSET Events /\ tip \in Nat /\ FetchEvents(from) = page
  BY DEF Visible, FetchEvents, TypeOK
<1>2. CASE V = {}
  <2>1. Cardinality(V) = 0 /\ Limit \in Nat \ {0}
    BY <1>2, FS_EmptySet, IndexerAssumption
  <2>2. n = 0
    BY <2>1
  <2>3. DOMAIN page = {} /\ page = <<>>
    BY <2>2
  <2>4. QED
    BY <1>1, <1>2, <2>3, EmptySeq
<1>3. CASE V # {}
  <2>1. PICK hi \in V : \A e \in V : e <= hi
    BY <1>1, <1>3, EventBounds
  <2>2. lo \in V /\ \A e \in V : lo <= e
    BY <1>1, <1>3, EventBounds
  <2>3. lo \in Nat \ {0} /\ hi \in Nat /\ lo <= hi /\ hi <= Len(Chain) /\ Len(Chain) \in Nat
    BY <1>1, <2>1, <2>2, ChainType
  <2> HIDE DEF lo
  <2>4. \A e \in lo..hi : e \in V
    <3>1. TAKE e \in lo..hi
    <3>2. e \in Events /\ lo \in Events /\ hi \in Events
      BY <1>1, <2>1, <2>2, <2>3, ChainType
    <3>3. Chain[lo] >= from /\ Chain[hi] <= tip
      BY <2>1, <2>2 DEF Visible
    <3>4. Chain[lo] <= Chain[e] /\ Chain[e] <= Chain[hi]
      BY <3>2, <2>3, ChainType
    <3>5. Chain[e] >= from /\ Chain[e] <= tip
      BY <3>2, <3>3, <3>4, <1>1, ChainType
    <3>6. QED
      BY <3>2, <3>5 DEF Visible
  <2>14. \A e \in V : e \in Nat /\ lo <= e /\ e <= hi
    BY <1>1, <2>1, <2>2, ChainType
  <2> HIDE DEF V
  <2>5. V = lo..hi
    <3>1. V \subseteq lo..hi
      BY <2>14, <2>3
    <3>2. QED
      BY <3>1, <2>4
  <2>6. Cardinality(V) = hi - lo + 1
    BY <2>3, <2>5, FS_Interval
  <2>7. n \in Nat /\ n <= hi - lo + 1 /\ (n # Limit => n = hi - lo + 1) /\ Limit \in Nat
    BY <2>3, <2>6, IndexerAssumption
  <2> HIDE DEF n
  <2>8. \A k \in 1..n : lo + k - 1 \in V
    BY <2>3, <2>5, <2>7
  <2>9. \A k \in 1..n : lo + k - 1 \in Events /\ Chain[lo + k - 1] <= tip
    BY <2>8, <1>1 DEF V, Visible
  <2>10. page \in Seq(Events)
    BY <2>7, <2>9, IsASeq
  <2>11. DOMAIN page = 1..n /\ Len(page) = n
    BY <2>7
  <2>16. \A i \in DOMAIN page : Chain[page[i]] <= tip
    BY <2>9, <2>11
  <2>12. ASSUME Len(page) # Limit, NEW e \in V PROVE \E i \in DOMAIN page : page[i] = e
    <3>1. e - lo + 1 \in 1..n /\ lo + (e - lo + 1) - 1 = e
      BY <2>12, <2>11, <2>7, <2>5, <2>3
    <3>2. page[e - lo + 1] = e
      BY <3>1
    <3>3. QED
      BY <3>1, <3>2, <2>11
  <2>15. FetchEvents(from) = page /\ Visible(from) = V
    BY <1>1 DEF V
  <2> HIDE DEF page
  <2>13. QED
    BY <2>9, <2>10, <2>11, <2>12, <2>15, <2>16
<1>4. QED
  BY <1>2, <1>3

\* The first element of a sequence of events and the rest of it.
LEMMA TailOf ==
    ASSUME NEW q \in Seq(Events), q # <<>>
    PROVE  /\ Head(q) = q[1] /\ 1 \in DOMAIN q /\ Head(q) \in Events
           /\ Tail(q) \in Seq(Events)
           /\ \A i \in DOMAIN Tail(q) : Tail(q)[i] = q[i + 1] /\ i + 1 \in DOMAIN q /\ i + 1 # 1
           /\ \A j \in DOMAIN q : j = 1 \/ \E i \in DOMAIN Tail(q) : j = i + 1
<1>1. Len(q) \in Nat \ {0} /\ DOMAIN q = 1..Len(q)
  BY EmptySeq, LenProperties
<1>2. Head(q) = q[1] /\ Head(q) \in Events /\ Tail(q) \in Seq(Events) /\ Len(Tail(q)) = Len(q) - 1
  BY HeadTailProperties
<1>3. DOMAIN Tail(q) = 1..(Len(q) - 1)
  BY <1>1, <1>2, LenProperties
<1>4. \A i \in 1..(Len(q) - 1) : Tail(q)[i] = q[i + 1]
  BY <1>1
<1>5. \A j \in 1..Len(q) : j = 1 \/ (j - 1 \in 1..(Len(q) - 1) /\ j = (j - 1) + 1)
  BY <1>1
<1>6. \A i \in 1..(Len(q) - 1) : i + 1 \in 1..Len(q) /\ i + 1 # 1
  BY <1>1
<1>7. \A j \in DOMAIN q : j = 1 \/ \E i \in DOMAIN Tail(q) : j = i + 1
  BY <1>1, <1>3, <1>5
<1>8. \A i \in DOMAIN Tail(q) : Tail(q)[i] = q[i + 1] /\ i + 1 \in DOMAIN q /\ i + 1 # 1
  BY <1>1, <1>3, <1>4, <1>6
<1>9. 1 \in DOMAIN q
  BY <1>1
<1>10. QED
  BY <1>2, <1>7, <1>8, <1>9

LEMMA AppendOf ==
    ASSUME NEW q \in Seq(Events), NEW e \in Events
    PROVE  /\ Append(q, e) \in Seq(Events)
           /\ DOMAIN Append(q, e) = DOMAIN q \cup {Len(q) + 1}
           /\ Len(q) + 1 \notin DOMAIN q /\ Append(q, e)[Len(q) + 1] = e
           /\ \A i \in DOMAIN q : Append(q, e)[i] = q[i]
<1>1. Len(q) \in Nat /\ DOMAIN q = 1..Len(q)
  BY LenProperties
<1>2. Append(q, e) \in Seq(Events) /\ Len(Append(q, e)) = Len(q) + 1
  OBVIOUS
<1>3. DOMAIN Append(q, e) = 1..(Len(q) + 1)
  BY <1>2, LenProperties
<1>4. QED
  BY <1>1, <1>2, <1>3

\* The ledger of a target is a number.
LEMMA LargerType ==
    ASSUME NEW x \in Nat, NEW y \in Nat
    PROVE  Larger(x, y) \in Nat /\ x <= Larger(x, y) /\ y <= Larger(x, y) /\ Larger(x, y) \in {x, y}
BY DEF Larger

\* What a worker holds.
HeldType == [ev : Events \cup {None}, tries : 0..MaxRetries, outcome : {"run", "ok", "err"}]

LEMMA IdleType == Idle \in HeldType /\ Idle.ev = None /\ Idle.outcome = "run"
BY IndexerAssumption DEF Idle, HeldType

LEMMA PollerAtType ==
    ASSUME NEW pc \in {"off", "wait"}
    PROVE  PollerAt(pc) \in [pc : {"off", "wait", "save", "enqueue"}, page : Seq(Events),
                             from : Nat, last : Nat, latest : Nat]
           /\ PollerAt(pc).pc = pc /\ PollerAt(pc).page = <<>>
BY EmptySeq DEF PollerAt

\* The poller's steps keep the types.
LEMMA PollerTyped ==
    ASSUME IndexerInv, Poll \/ PollerStep
    PROVE  TypeOK'
<1> DEFINE P == [pc : {"off", "wait", "save", "enqueue"}, page : Seq(Events),
                 from : Nat, last : Nat, latest : Nat]
<1>0. TypeOK /\ poller \in P /\ (poller.pc = "enqueue" => poller.page # <<>>) /\ checkpoint \in Nat
      /\ tip \in Nat
  BY IndexerAssumption DEF IndexerInv, TypeOK, Placed
<1>1. poller.page # <<>> => Tail(poller.page) \in Seq(Events) /\ Head(poller.page) \in Events
  BY <1>0, TailOf
<1>2. CASE Poll
  <2>1. FetchEvents(checkpoint) \in Seq(Events)
    BY <1>0, FetchCovers
  <2>2. poller' \in P
    BY <1>2, <1>0, <2>1 DEF Poll
  <2>3. cut' \subseteq Events
    BY <1>2, <1>0 DEF Poll, Visible, TypeOK
  <2>4. QED
    BY <1>2, <1>0, <2>2, <2>3 DEF Poll, TypeOK, dbVars
<1>3. CASE SkipDuplicate
  <2>1. poller' \in P
    BY <1>3, <1>0, <1>1 DEF SkipDuplicate, NextOfPage
  <2>2. QED
    BY <1>3, <1>0, <2>1 DEF SkipDuplicate, TypeOK, dbVars, histVars
<1>4. CASE CreateFails
  <2>1. poller' \in P
    BY <1>4, <1>0, <1>1 DEF CreateFails, NextOfPage
  <2>2. dropped' \subseteq Events
    BY <1>4, <1>0, <1>1 DEF CreateFails, TypeOK
  <2>3. faults' \in 0..MaxFaults
    BY <1>4, <1>0, IndexerAssumption DEF CreateFails, Fault, TypeOK
  <2>4. QED
    BY <1>4, <1>0, <2>1, <2>2, <2>3 DEF CreateFails, TypeOK, dbVars
<1>5. CASE Create
  <2>1. poller' \in P
    BY <1>5, <1>0 DEF Create
  <2>2. rows' \in [Events -> {"absent", "pending", "processed", "failed"}]
    BY <1>5, <1>0, <1>1 DEF Create, TypeOK
  <2>3. QED
    BY <1>5, <1>0, <2>1, <2>2 DEF Create, TypeOK, histVars
<1>6. CASE Enqueue
  <2>1. Head(poller.page) \in Events /\ Chain[Head(poller.page)] \in Nat
    BY <1>6, <1>0, <1>1, ChainType DEF Enqueue
  <2>2. Larger(poller.last, Chain[Head(poller.page)]) \in Nat
    BY <2>1, <1>0, LargerType
  <2>3. poller' \in P
    BY <1>6, <1>0, <1>1, <2>2 DEF Enqueue
  <2>4. queue' \in Seq(Events)
    BY <1>6, <1>0, <2>1, AppendOf DEF Enqueue, TypeOK
  <2>5. QED
    BY <1>6, <1>0, <2>3, <2>4 DEF Enqueue, TypeOK, dbVars, histVars
<1>7. CASE PollerReturns
  <2>1. poller' \in P
    BY <1>7, PollerAtType DEF PollerReturns
  <2>2. orphans' \subseteq Events
    BY <1>7, <1>0, <1>1 DEF PollerReturns, TypeOK
  <2>3. QED
    BY <1>7, <1>0, <2>1, <2>2 DEF PollerReturns, TypeOK, dbVars
<1>8. ASSUME NEW ok \in BOOLEAN, UpdateCheckpoint(ok) PROVE TypeOK'
  <2>1. poller' \in P
    BY <1>8, PollerAtType DEF UpdateCheckpoint
  <2>2. checkpoint' \in Nat
    BY <1>8, <1>0, LargerType DEF UpdateCheckpoint, TargetLedger
  <2>3. faults' \in 0..MaxFaults
    BY <1>8, <1>0, IndexerAssumption DEF UpdateCheckpoint, Fault, TypeOK
  <2>4. QED
    BY <1>8, <1>0, <2>1, <2>2, <2>3 DEF UpdateCheckpoint, TypeOK
<1>9. QED
  BY <1>2, <1>3, <1>4, <1>5, <1>6, <1>7, <1>8 DEF PollerStep

\* So do the workers'.
LEMMA WorkerTyped ==
    ASSUME IndexerInv, NEW w \in Workers, WorkerStep(w)
    PROVE  TypeOK'
<1>0. TypeOK /\ workers \in [Workers -> HeldType] /\ queue \in Seq(Events)
  BY DEF IndexerInv, TypeOK, HeldType
<1>1. workers[w] \in HeldType /\ MaxRetries \in Nat
  BY <1>0, IndexerAssumption
<1>2. CASE Receive(w)
  <2>1. Head(queue) \in Events /\ Tail(queue) \in Seq(Events)
    BY <1>0, <1>2, TailOf DEF Receive
  <2>2. workers' \in [Workers -> HeldType]
    BY <1>0, <1>1, <1>2, <2>1 DEF Receive, HeldType
  <2>3. QED
    BY <1>0, <1>2, <2>1, <2>2 DEF Receive, TypeOK, dbVars, histVars, HeldType
<1>3. CASE HandlerSucceeds(w)
  <2>1. workers' \in [Workers -> HeldType]
    BY <1>0, <1>1, <1>3 DEF HandlerSucceeds, HeldType
  <2>2. workers[w].ev \in Events
    BY <1>1, <1>3 DEF HandlerSucceeds, HeldType
  <2>3. handled' \in [Events -> Nat]
    BY <1>0, <1>3, <2>2 DEF HandlerSucceeds, TypeOK
  <2>4. QED
    BY <1>0, <1>3, <2>1, <2>3 DEF HandlerSucceeds, TypeOK, dbVars, HeldType
<1>4. CASE HandlerFails(w)
  <2>1. workers' \in [Workers -> HeldType]
    BY <1>0, <1>1, <1>4 DEF HandlerFails, RetriesLeft, HeldType
  <2>2. QED
    BY <1>0, <1>4, <2>1 DEF HandlerFails, TypeOK, dbVars, histVars, HeldType
<1>5. ASSUME NEW ok \in BOOLEAN, Mark(w, ok) PROVE TypeOK'
  <2>1. workers' \in [Workers -> HeldType]
    BY <1>0, <1>5, IdleType DEF Mark
  <2>2. workers[w].ev \in Events
    BY <1>1, <1>5 DEF Mark, HeldType
  <2>3. rows' \in [Events -> {"absent", "pending", "processed", "failed"}]
    BY <1>0, <1>5, <2>2 DEF Mark, TypeOK, StatusFor
  <2>4. orphans' \subseteq Events
    BY <1>0, <1>5, <2>2 DEF Mark, TypeOK
  <2>5. faults' \in 0..MaxFaults
    BY <1>0, <1>5, IndexerAssumption DEF Mark, Fault, TypeOK
  <2>6. QED
    BY <1>0, <1>5, <2>1, <2>3, <2>4, <2>5 DEF Mark, TypeOK, HeldType
<1>6. QED
  BY <1>2, <1>3, <1>4, <1>5 DEF WorkerStep

\* What is left: ledgers, and the process's life.
LifeStep == CloseLedger \/ StopCancels \/ StopCloses \/ SendOnClosedChannel \/ Crash \/ Start

LEMMA LifeTyped ==
    ASSUME IndexerInv, LifeStep
    PROVE  TypeOK'
<1>0. TypeOK /\ MaxLedger \in Nat /\ MaxFaults \in Nat
  BY IndexerAssumption DEF IndexerInv
<1>1. CASE CloseLedger
  BY <1>0, <1>1 DEF CloseLedger, TypeOK, dbVars, memVars, histVars
<1>2. CASE StopCancels
  BY <1>0, <1>2 DEF StopCancels, TypeOK, dbVars, histVars
<1>3. CASE StopCloses
  BY <1>0, <1>3 DEF StopCloses, TypeOK, dbVars, histVars
<1>4. CASE SendOnClosedChannel \/ Crash
  <2>1. ProcessDies /\ faults' \in 0..MaxFaults
    BY <1>0, <1>4 DEF SendOnClosedChannel, Crash, Fault, TypeOK
  <2>2. poller' \in [pc : {"off", "wait", "save", "enqueue"}, page : Seq(Events),
                    from : Nat, last : Nat, latest : Nat]
    BY <2>1, PollerAtType DEF ProcessDies
  <2>3. workers' \in [Workers -> HeldType] /\ queue' \in Seq(Events) /\ orphans' \subseteq Events
    BY <2>1, <1>0, IdleType, EmptySeq DEF ProcessDies, TypeOK
  <2>4. QED
    BY <1>0, <2>1, <2>2, <2>3 DEF ProcessDies, TypeOK, dbVars, HeldType
<1>5. CASE Start
  BY <1>0, <1>5, PollerAtType DEF Start, TypeOK, dbVars, histVars
<1>6. QED
  BY <1>1, <1>2, <1>3, <1>4, <1>5 DEF LifeStep

\* Places change only as far as the variables they are made of.
LEMMA SamePlaces ==
    ASSUME Placed, rows' = rows, orphans' = orphans, queue' = queue,
           \A w \in Workers : workers'[w].ev = workers[w].ev,
           \A e : InHand(e)' <=> InHand(e),
           poller'.pc = "enqueue" => poller'.page # <<>>,
           phase' = "down" => phase = "down" /\ poller'.pc = "off" /\ workers' = workers
    PROVE  Placed'
<1>1. \A e : (InQueue(e)' <=> InQueue(e)) /\ (AtWorker(e)' <=> AtWorker(e))
  BY DEF InQueue, AtWorker
<1>2. QED
  BY <1>1 DEF Placed

\* The poller's steps move an event from the database to its hand, from there
\* to the channel, or leave it behind.
LEMMA PollerPlaced ==
    ASSUME IndexerInv, Poll \/ PollerStep
    PROVE  Placed'
<1>0. /\ TypeOK /\ Placed /\ queue \in Seq(Events) /\ poller.page \in Seq(Events)
      /\ (poller.pc = "enqueue" => poller.page # <<>>)
      /\ (poller.page # <<>> => Head(poller.page) \in Events)
  <2>1. TypeOK /\ Placed
    BY DEF IndexerInv
  <2>2. queue \in Seq(Events) /\ poller.page \in Seq(Events)
    BY <2>1 DEF TypeOK
  <2>3. poller.page # <<>> => Head(poller.page) \in Events
    BY <2>2, TailOf
  <2>4. poller.pc = "enqueue" => poller.page # <<>>
    BY <2>1 DEF Placed
  <2>5. QED
    BY <2>1, <2>2, <2>3, <2>4
<1> DEFINE h == Head(poller.page)
<1>1. CASE Poll \/ SkipDuplicate \/ CreateFails \/ (\E ok \in BOOLEAN : UpdateCheckpoint(ok))
  <2>1. /\ rows' = rows /\ orphans' = orphans /\ queue' = queue /\ workers' = workers /\ phase' = phase
        /\ poller.pc \in {"wait", "save"} /\ poller'.pc \in {"wait", "save"}
    BY <1>1, <1>0 DEF Poll, SkipDuplicate, CreateFails, UpdateCheckpoint, PollerAt, NextOfPage, dbVars, histVars, TypeOK
  <2>2. phase # "down"
    BY <2>1, <1>0 DEF Placed
  <2>3. \A e : ~InHand(e)' /\ ~InHand(e)
    BY <2>1 DEF InHand
  <2>4. QED
    BY <1>0, <2>1, <2>2, <2>3, SamePlaces
<1>2. CASE Create
  <2>1. /\ h \in Events /\ rows[h] = "absent" /\ rows' = [rows EXCEPT ![h] = "pending"]
        /\ orphans' = orphans /\ queue' = queue /\ workers' = workers /\ phase' = phase
        /\ poller.pc = "save" /\ poller.page # <<>>
    BY <1>2, <1>0 DEF Create, IsDuplicate, histVars
  <2>2. poller'.pc = "enqueue" /\ poller'.page = poller.page
    BY <1>2, <1>0 DEF Create, TypeOK
  <2>3. /\ rows'[h] = "pending" /\ h \notin orphans
        /\ \A e \in Events : e # h => rows'[e] = rows[e]
        /\ \A e \in orphans : rows'[e] = "pending"
    BY <2>1, <1>0 DEF Placed, TypeOK
  <2>4. \A e : ~InHand(e) /\ (InHand(e)' <=> e = h)
    BY <2>1, <2>2 DEF InHand
  <2>5. \A e : (InQueue(e)' <=> InQueue(e)) /\ (AtWorker(e)' <=> AtWorker(e))
    BY <2>1 DEF InQueue, AtWorker
  <2>6. ~InQueue(h) /\ ~AtWorker(h)
    BY <2>1, <1>0 DEF Placed
  <2>7. phase # "down"
    BY <2>1, <1>0 DEF Placed
  <2> HIDE DEF h
  <2>8. QED
    BY <1>0, <2>1, <2>2, <2>3, <2>4, <2>5, <2>6, <2>7 DEF Placed
<1>3. CASE Enqueue
  <2>1. /\ h \in Events /\ queue' = Append(queue, h) /\ InHand(h)
        /\ rows' = rows /\ orphans' = orphans /\ workers' = workers /\ phase' = phase
        /\ poller.pc = "enqueue"
    BY <1>3, <1>0 DEF Enqueue, dbVars, histVars, InHand
  <2>2. poller'.pc = "save"
    BY <1>3, <1>0 DEF Enqueue, TypeOK
  <2>3. phase # "down"
    BY <2>1, <1>0 DEF Placed
  <2>4. \A e : ~InHand(e)' /\ (InHand(e) <=> e = h)
    BY <2>1, <2>2 DEF InHand
  <2> HIDE DEF h
  <2>5. /\ DOMAIN queue' = DOMAIN queue \cup {Len(queue) + 1}
        /\ Len(queue) + 1 \notin DOMAIN queue /\ queue'[Len(queue) + 1] = h
        /\ \A i \in DOMAIN queue : queue'[i] = queue[i]
    BY <2>1, <1>0, AppendOf
  <2>6. \A e : (InQueue(e)' <=> InQueue(e) \/ e = h) /\ (AtWorker(e)' <=> AtWorker(e))
    BY <2>1, <2>5 DEF InQueue, AtWorker
  <2>7. ~InQueue(h) /\ ~AtWorker(h)
    BY <2>1, <1>0 DEF Placed
  <2>8. \A i, j \in DOMAIN queue' : queue'[i] = queue'[j] => i = j
    BY <2>5, <2>7, <1>0 DEF Placed, InQueue
  <2>9. QED
    BY <1>0, <2>1, <2>2, <2>3, <2>4, <2>6, <2>7, <2>8 DEF Placed
<1>4. CASE PollerReturns
  <2>1. /\ queue' = queue /\ workers' = workers /\ rows' = rows /\ phase' = phase /\ phase # "down"
        /\ orphans' = orphans \cup {e \in Events : InHand(e)}
    BY <1>4, <1>0 DEF PollerReturns, dbVars, InHand
  <2>2. poller'.pc = "off"
    BY <1>4, PollerAtType DEF PollerReturns
  <2>3. \A e : ~InHand(e)' /\ (InQueue(e)' <=> InQueue(e)) /\ (AtWorker(e)' <=> AtWorker(e))
    BY <2>1, <2>2 DEF InQueue, AtWorker, InHand
  <2>4. QED
    BY <1>0, <2>1, <2>2, <2>3 DEF Placed
<1>5. QED
  BY <1>1, <1>2, <1>3, <1>4 DEF PollerStep

LEMMA WorkerPlaced ==
    ASSUME IndexerInv, NEW w \in Workers, WorkerStep(w)
    PROVE  Placed'
<1>0. TypeOK /\ Placed /\ workers \in [Workers -> HeldType] /\ queue \in Seq(Events)
  BY DEF IndexerInv, TypeOK, HeldType
<1>1. CASE Receive(w)
  <2> DEFINE h == Head(queue)
             q == Tail(queue)
  <2>1. /\ queue # <<>> /\ workers[w].ev = None /\ poller' = poller /\ phase' = phase
        /\ rows' = rows /\ orphans' = orphans /\ queue' = q
    BY <1>1 DEF Receive, dbVars, histVars
  <2>2. workers'[w].ev = h /\ \A v \in Workers : v # w => workers'[v] = workers[v]
    BY <1>1, <1>0 DEF Receive
  <2>3. phase # "down"
    BY <2>1, <1>0 DEF Placed
  <2>4. /\ h = queue[1] /\ 1 \in DOMAIN queue /\ h \in Events
        /\ \A i \in DOMAIN q : q[i] = queue[i + 1] /\ i + 1 \in DOMAIN queue /\ i + 1 # 1
        /\ \A j \in DOMAIN queue : j = 1 \/ \E i \in DOMAIN q : j = i + 1
    BY <2>1, <1>0, TailOf
  <2> HIDE DEF h
  <2>5. InQueue(h) /\ ~AtWorker(h) /\ ~InHand(h) /\ h # None
    BY <2>4, <1>0, ChainType DEF Placed, InQueue
  <2>6. \A e : InQueue(e)' <=> InQueue(e) /\ e # h
    <3>1. \A i, j \in DOMAIN queue : queue[i] = queue[j] => i = j
      BY <1>0 DEF Placed
    <3>2. \A e : (\E i \in DOMAIN q : q[i] = e) <=> (\E j \in DOMAIN queue : queue[j] = e) /\ e # h
      <4> HIDE DEF q
      <4>1. ASSUME NEW i \in DOMAIN q PROVE q[i] # h
        BY <3>1, <2>4, <4>1
      <4>2. QED
        BY <2>4, <4>1
    <3>3. QED
      BY <3>2, <2>1 DEF InQueue
  <2>7. \A e \in Events : AtWorker(e)' <=> AtWorker(e) \/ e = h
    BY <2>1, <2>2, ChainType DEF AtWorker
  <2>8. \A e : InHand(e)' <=> InHand(e)
    BY <2>1 DEF InHand
  <2>9. \A i, j \in DOMAIN queue' : queue'[i] = queue'[j] => i = j
    <3> HIDE DEF q
    <3>1. TAKE i, j \in DOMAIN queue'
    <3>2. queue[i + 1] = queue'[i] /\ queue[j + 1] = queue'[j] /\ i + 1 \in DOMAIN queue /\ j + 1 \in DOMAIN queue
      BY <2>1, <2>4
    <3>3. q \in Seq(Events) /\ DOMAIN q = 1..Len(q)
      BY <2>1, <1>0, TailOf, LenProperties DEF q
    <3>4. i \in Int /\ j \in Int
      BY <3>3, <2>1
    <3>5. QED
      BY <3>2, <3>4, <1>0 DEF Placed
  <2>10. \A u, v \in Workers : workers'[u].ev = workers'[v].ev /\ workers'[u].ev # None => u = v
    BY <2>2, <2>5, <1>0 DEF Placed, AtWorker
  <2> HIDE DEF q
  <2>11. QED
    BY <1>0, <2>1, <2>3, <2>5, <2>6, <2>7, <2>8, <2>9, <2>10 DEF Placed
<1>2. CASE HandlerSucceeds(w) \/ HandlerFails(w)
  <2>1. /\ rows' = rows /\ orphans' = orphans /\ queue' = queue /\ poller' = poller /\ phase' = phase
        /\ workers[w].ev # None
    BY <1>2 DEF HandlerSucceeds, HandlerFails, dbVars, histVars
  <2>2. \A v \in Workers : workers'[v].ev = workers[v].ev
    <3>1. workers \in [Workers -> HeldType]
      BY <1>0
    <3>2. CASE workers' = [workers EXCEPT ![w].outcome = "ok"]
      BY <3>1, <3>2 DEF HeldType
    <3>3. CASE workers' = [workers EXCEPT ![w].tries = @ + 1]
      BY <3>1, <3>3 DEF HeldType
    <3>4. CASE workers' = [workers EXCEPT ![w].outcome = "err"]
      BY <3>1, <3>4 DEF HeldType
    <3> QED BY <1>2, <3>2, <3>3, <3>4 DEF HandlerSucceeds, HandlerFails
  <2>3. phase # "down"
    BY <2>1, <1>0, IdleType DEF Placed
  <2>4. \A e : InHand(e)' <=> InHand(e)
    BY <2>1 DEF InHand
  <2>5. poller'.pc = "enqueue" => poller'.page # <<>>
    BY <2>1, <1>0 DEF Placed
  <2>6. QED
    BY <1>0, <2>1, <2>2, <2>3, <2>4, <2>5, SamePlaces
<1>3. ASSUME NEW ok \in BOOLEAN, Mark(w, ok) PROVE Placed'
  <2> DEFINE h == workers[w].ev
  <2>1. /\ h # None /\ queue' = queue /\ poller' = poller /\ phase' = phase
        /\ workers' = [workers EXCEPT ![w] = Idle]
    BY <1>3 DEF Mark
  <2>2. h \in Events /\ AtWorker(h)
    BY <2>1, <1>0 DEF HeldType, AtWorker
  <2>3. rows[h] = "pending" /\ h \notin orphans
    BY <2>2, <1>0 DEF Placed
  <2>4. \/ orphans' = orphans /\ rows'[h] # "pending" /\ \A e \in Events : e # h => rows'[e] = rows[e]
        \/ orphans' = orphans \cup {h} /\ rows' = rows
    BY <1>3, <2>2, <1>0 DEF Mark, StatusFor, TypeOK
  <2>5. workers'[w] = Idle /\ workers'[w].ev = None /\ \A v \in Workers : v # w => workers'[v] = workers[v]
    BY <2>1, <1>0, IdleType
  <2>6. phase # "down"
    BY <2>1, <1>0, IdleType DEF Placed
  <2>7. \A e \in Events : AtWorker(e)' <=> AtWorker(e) /\ e # h
    <3>1. \A v \in Workers : v # w => workers[v].ev # h
      BY <2>1, <1>0 DEF Placed
    <3>2. QED
      BY <3>1, <2>5, ChainType DEF AtWorker
  <2>8. \A e : (InQueue(e)' <=> InQueue(e)) /\ (InHand(e)' <=> InHand(e))
    BY <2>1 DEF InQueue, InHand
  <2>9. \A u, v \in Workers : workers'[u].ev = workers'[v].ev /\ workers'[u].ev # None => u = v
    BY <2>5, <1>0 DEF Placed
  <2> HIDE DEF h
  <2>10. \A e \in Events : rows'[e] = "pending" /\ e \notin orphans'
                            <=> rows[e] = "pending" /\ e \notin orphans /\ e # h
    BY <2>3, <2>4
  <2>11. \A e \in orphans' : rows'[e] = "pending"
    BY <2>2, <2>3, <2>4, <1>0 DEF Placed, TypeOK
  <2>12. QED
    BY <1>0, <2>1, <2>2, <2>6, <2>7, <2>8, <2>9, <2>10, <2>11 DEF Placed
<1>4. QED
  BY <1>1, <1>2, <1>3 DEF WorkerStep

LEMMA LifePlaced ==
    ASSUME IndexerInv, LifeStep
    PROVE  Placed'
<1>0. TypeOK /\ Placed
  BY DEF IndexerInv
<1>1. CASE CloseLedger \/ StopCancels \/ StopCloses
  <2>1. /\ rows' = rows /\ orphans' = orphans /\ queue' = queue /\ workers' = workers /\ poller' = poller
        /\ (phase' = phase \/ phase' \in {"cancelled", "closed"})
    BY <1>1 DEF CloseLedger, StopCancels, StopCloses, dbVars, memVars, histVars
  <2>2. /\ phase' = "down" => phase = "down" /\ poller'.pc = "off" /\ workers' = workers
        /\ poller'.pc = "enqueue" => poller'.page # <<>>
    BY <2>1, <1>0 DEF Placed
  <2>3. \A e : InHand(e)' <=> InHand(e)
    BY <2>1 DEF InHand
  <2>4. QED
    BY <1>0, <2>1, <2>2, <2>3, SamePlaces
<1>2. CASE SendOnClosedChannel \/ Crash
  <2>1. /\ rows' = rows /\ queue' = <<>> /\ workers' = [w \in Workers |-> Idle]
        /\ orphans' = orphans \cup {e \in Events : rows[e] = "pending"}
        /\ poller' = PollerAt("off")
    BY <1>2 DEF SendOnClosedChannel, Crash, ProcessDies, dbVars
  <2>2. poller'.pc = "off" /\ DOMAIN queue' = {}
    BY <2>1, PollerAtType
  <2>3. \A e : ~InHand(e)' /\ ~InQueue(e)'
    BY <2>2 DEF InHand, InQueue
  <2>4. \A w \in Workers : workers'[w].ev = None
    BY <2>1, IdleType
  <2>5. \A e \in Events : ~AtWorker(e)'
    BY <2>4, ChainType DEF AtWorker
  <2>6. QED
    BY <1>0, <2>1, <2>2, <2>3, <2>4, <2>5 DEF Placed
<1>3. CASE Start
  <2>1. /\ rows' = rows /\ orphans' = orphans /\ queue' = queue /\ workers' = workers
        /\ phase' = "running" /\ phase = "down" /\ poller' = PollerAt("wait")
    BY <1>3 DEF Start, dbVars, histVars
  <2>2. poller'.pc = "wait" /\ poller.pc = "off"
    BY <2>1, <1>0, PollerAtType DEF Placed
  <2>3. \A e : ~InHand(e)' /\ ~InHand(e)
    BY <2>2 DEF InHand
  <2>4. QED
    BY <1>0, <2>1, <2>2, <2>3, SamePlaces
<1>4. QED
  BY <1>1, <1>2, <1>3 DEF LifeStep

\* A handler's success is counted when the event has none yet.
LEMMA PollerOutcomes ==
    ASSUME IndexerInv, Poll \/ PollerStep
    PROVE  Outcomes'
<1>0. TypeOK /\ Placed /\ Outcomes /\ queue \in Seq(Events) /\ poller.page \in Seq(Events)
  BY DEF IndexerInv, TypeOK
<1>1. handled' = handled /\ workers' = workers
  BY DEF Poll, PollerStep, SkipDuplicate, CreateFails, Create, Enqueue, PollerReturns, UpdateCheckpoint,
         histVars
<1>2. \A w \in Workers : workers'[w].ev # None =>
          IF workers'[w].outcome = "ok" THEN workers'[w].ev \in Handlers => handled'[workers'[w].ev] = 1
          ELSE workers'[w].ev \in Handlers /\ handled'[workers'[w].ev] = 0
  BY <1>0, <1>1 DEF Outcomes
<1>3. CASE Create
  <2> DEFINE h == Head(poller.page)
  <2>1. /\ h \in Events /\ rows[h] = "absent" /\ rows' = [rows EXCEPT ![h] = "pending"] /\ queue' = queue
        /\ poller.pc = "save"
    BY <1>3, <1>0, TailOf DEF Create, IsDuplicate, histVars
  <2>2. poller'.page = poller.page
    BY <1>3, <1>0 DEF Create, TypeOK
  <2>3. \A e : (InHand(e)' => e = h) /\ (InQueue(e)' <=> InQueue(e))
    BY <2>1, <2>2 DEF InHand, InQueue
  <2>4. \A e \in Events : rows'[e] = IF e = h THEN "pending" ELSE rows[e]
    BY <2>1, <1>0 DEF TypeOK
  <2> HIDE DEF h
  <2>5. QED
    BY <1>0, <1>1, <1>2, <2>1, <2>3, <2>4 DEF Outcomes
<1>4. CASE Enqueue
  <2> DEFINE h == Head(poller.page)
  <2>1. poller.page # <<>> /\ poller.pc = "enqueue"
    BY <1>4, <1>0 DEF Enqueue, Placed
  <2>2. h \in Events /\ InHand(h) /\ rows' = rows /\ queue' = Append(queue, h)
    BY <2>1, <1>4, <1>0, TailOf DEF Enqueue, dbVars, InHand
  <2>3. poller'.pc = "save"
    BY <1>4, <1>0 DEF Enqueue, TypeOK
  <2> HIDE DEF h
  <2>4. /\ DOMAIN queue' = DOMAIN queue \cup {Len(queue) + 1}
        /\ queue'[Len(queue) + 1] = h /\ \A i \in DOMAIN queue : queue'[i] = queue[i]
    BY <2>2, <1>0, AppendOf
  <2>5. \A e : ~InHand(e)' /\ (InQueue(e)' => InQueue(e) \/ e = h)
    BY <2>3, <2>4 DEF InHand, InQueue
  <2>6. QED
    BY <1>0, <1>1, <1>2, <2>2, <2>5 DEF Outcomes
<1>5. CASE Poll \/ SkipDuplicate \/ CreateFails \/ PollerReturns \/ \E ok \in BOOLEAN : UpdateCheckpoint(ok)
  <2>1. rows' = rows /\ queue' = queue /\ poller'.pc # "enqueue"
    BY <1>5, <1>0 DEF Poll, SkipDuplicate, CreateFails, PollerReturns, UpdateCheckpoint, NextOfPage,
       PollerAt, dbVars, histVars, TypeOK
  <2>2. \A e : ~InHand(e)' /\ (InQueue(e)' <=> InQueue(e))
    BY <2>1 DEF InHand, InQueue
  <2>3. QED
    BY <1>0, <1>1, <1>2, <2>1, <2>2 DEF Outcomes
<1>6. QED
  BY <1>3, <1>4, <1>5 DEF PollerStep

LEMMA WorkerOutcomes ==
    ASSUME IndexerInv, NEW w \in Workers, WorkerStep(w)
    PROVE  Outcomes'
<1>0. /\ TypeOK /\ Placed /\ Outcomes /\ workers \in [Workers -> HeldType] /\ queue \in Seq(Events)
      /\ rows \in [Events -> {"absent", "pending", "processed", "failed"}] /\ handled \in [Events -> Nat]
  BY DEF IndexerInv, TypeOK, HeldType
<1>1. poller' = poller
  BY DEF WorkerStep, Receive, HandlerSucceeds, HandlerFails, Mark
<1>2. \A e : InHand(e)' <=> InHand(e)
  BY <1>1 DEF InHand
<1>3. CASE Receive(w)
  <2> DEFINE h == Head(queue)
  <2>1. /\ queue # <<>> /\ handled' = handled /\ rows' = rows /\ queue' = Tail(queue)
        /\ workers' = [workers EXCEPT ![w] =
              [ev |-> h, tries |-> 0, outcome |-> IF h \in Handlers THEN "run" ELSE "ok"]]
    BY <1>3 DEF Receive, dbVars, histVars
  <2>2. /\ workers'[w].ev = h /\ workers'[w].outcome = (IF h \in Handlers THEN "run" ELSE "ok")
        /\ \A v \in Workers : v # w => workers'[v] = workers[v]
    BY <2>1, <1>0
  <2>3. /\ h \in Events /\ InQueue(h)
        /\ \A i \in DOMAIN Tail(queue) : Tail(queue)[i] = queue[i + 1] /\ i + 1 \in DOMAIN queue
    BY <2>1, <1>0, TailOf DEF InQueue
  <2> HIDE DEF h
  <2>4. \A e : InQueue(e)' => InQueue(e)
    BY <2>1, <2>3 DEF InQueue
  <2>5. handled[h] = 0
    BY <2>3, <1>0 DEF Outcomes
  <2>6. QED
    BY <1>0, <1>2, <2>1, <2>2, <2>4, <2>5 DEF Outcomes
<1>4. CASE HandlerSucceeds(w)
  <2> DEFINE h == workers[w].ev
  <2>1. /\ h # None /\ workers[w].outcome = "run" /\ rows' = rows /\ queue' = queue
        /\ handled' = [handled EXCEPT ![h] = handled[h] + 1]
        /\ workers' = [workers EXCEPT ![w].outcome = "ok"]
    BY <1>4 DEF HandlerSucceeds, dbVars
  <2>2. h \in Events /\ AtWorker(h) /\ h \in Handlers /\ handled[h] = 0
    BY <2>1, <1>0 DEF HeldType, AtWorker, Outcomes
  <2>3. /\ workers'[w].ev = h /\ workers'[w].outcome = "ok"
        /\ \A v \in Workers : v # w => workers'[v] = workers[v]
    BY <2>1, <1>0 DEF HeldType
  <2>4. \A e : InQueue(e)' <=> InQueue(e)
    BY <2>1 DEF InQueue
  <2>5. ~InQueue(h) /\ ~InHand(h) /\ rows[h] = "pending" /\ \A v \in Workers : v # w => workers[v].ev # h
    BY <2>1, <2>2, <1>0 DEF Placed
  <2> HIDE DEF h
  <2>6. handled'[h] = 1 /\ \A e \in Events : e # h => handled'[e] = handled[e]
    BY <2>1, <2>2, <1>0
  <2>7. \A v \in Workers : v # w /\ workers[v].ev # None => workers[v].ev \in Events /\ workers[v].ev # h
    BY <2>5, <1>0 DEF HeldType
  <2>8. \A v \in Workers : workers'[v].ev # None =>
          IF workers'[v].outcome = "ok" THEN workers'[v].ev \in Handlers => handled'[workers'[v].ev] = 1
          ELSE workers'[v].ev \in Handlers /\ handled'[workers'[v].ev] = 0
    BY <1>0, <2>3, <2>6, <2>7 DEF Outcomes
  <2>9. QED
    BY <1>0, <1>2, <2>1, <2>2, <2>4, <2>5, <2>6, <2>8 DEF Outcomes
<1>5. CASE HandlerFails(w)
  <2>1. /\ rows' = rows /\ queue' = queue /\ handled' = handled
        /\ workers[w].ev # None /\ workers[w].outcome = "run"
    BY <1>5 DEF HandlerFails, dbVars, histVars
  <2>2. /\ workers'[w].ev = workers[w].ev /\ workers'[w].outcome \in {"run", "err"}
        /\ \A v \in Workers : v # w => workers'[v] = workers[v]
    BY <1>5, <1>0 DEF HandlerFails, HeldType
  <2>3. \A e : InQueue(e)' <=> InQueue(e)
    BY <2>1 DEF InQueue
  <2>4. QED
    BY <1>0, <1>2, <2>1, <2>2, <2>3, SMTT(30) DEF Outcomes
<1>6. ASSUME NEW ok \in BOOLEAN, Mark(w, ok) PROVE Outcomes'
  <2> DEFINE h == workers[w].ev
  <2>1. /\ h # None /\ queue' = queue /\ handled' = handled /\ workers[w].outcome # "run"
        /\ workers' = [workers EXCEPT ![w] = Idle]
        /\ rows' = rows \/ rows' = [rows EXCEPT ![h] = StatusFor(workers[w].outcome)]
    BY <1>6 DEF Mark
  <2>2. h \in Events /\ workers[w].outcome \in {"ok", "err"}
    BY <2>1, <1>0 DEF HeldType
  <2>3. workers'[w].ev = None /\ \A v \in Workers : v # w => workers'[v] = workers[v]
    BY <2>1, <1>0, IdleType
  <2>4. \A e : InQueue(e)' <=> InQueue(e)
    BY <2>1 DEF InQueue
  <2>5. \A e \in Events : rows'[e] = rows[e] \/ (e = h /\ rows'[e] = StatusFor(workers[w].outcome))
    <3> DEFINE st == StatusFor(workers[w].outcome)
    <3>1. rows' = rows \/ rows' = [rows EXCEPT ![h] = st]
      BY <2>1
    <3> HIDE DEF st, h
    <3>2. CASE rows' = [rows EXCEPT ![h] = st]
      BY <3>2, <1>0 DEF st
    <3>4. CASE rows' = rows
      BY <3>4
    <3>3. QED
      BY <3>1, <3>2, <3>4 DEF st
  <2>6. /\ StatusFor(workers[w].outcome) = "failed" => handled[h] = 0
        /\ StatusFor(workers[w].outcome) = "processed" /\ h \in Handlers => handled[h] = 1
        /\ StatusFor(workers[w].outcome) # "absent"
    BY <2>1, <2>2, <1>0 DEF StatusFor, Outcomes
  <2> HIDE DEF h
  <2>7. QED
    BY <1>0, <1>2, <2>1, <2>3, <2>4, <2>5, <2>6 DEF Outcomes
<1>7. QED
  BY <1>3, <1>4, <1>5, <1>6 DEF WorkerStep

LEMMA LifeOutcomes ==
    ASSUME IndexerInv, LifeStep
    PROVE  Outcomes'
<1>0. TypeOK /\ Placed /\ Outcomes
  BY DEF IndexerInv
<1>1. rows' = rows /\ handled' = handled
  BY DEF LifeStep, CloseLedger, StopCancels, StopCloses, SendOnClosedChannel, Crash, Start, ProcessDies,
         dbVars, histVars
<1>2. CASE CloseLedger \/ StopCancels \/ StopCloses
  <2>1. queue' = queue /\ workers' = workers /\ poller' = poller
    BY <1>2 DEF CloseLedger, StopCancels, StopCloses, memVars
  <2>2. \A e : (InHand(e)' <=> InHand(e)) /\ (InQueue(e)' <=> InQueue(e))
    BY <2>1 DEF InHand, InQueue
  <2>3. QED
    BY <1>0, <1>1, <2>1, <2>2 DEF Outcomes
<1>3. CASE SendOnClosedChannel \/ Crash \/ Start
  <2>1. poller' \in {PollerAt("off"), PollerAt("wait")} /\ queue' = <<>> /\ workers' = [v \in Workers |-> Idle]
    BY <1>3, <1>0 DEF SendOnClosedChannel, Crash, Start, ProcessDies, Placed
  <2>2. poller'.pc \in {"off", "wait"} /\ DOMAIN queue' = {} /\ \A v \in Workers : workers'[v].ev = None
    BY <2>1, PollerAtType, IdleType
  <2>3. \A e : ~InHand(e)' /\ ~InQueue(e)'
    BY <2>2 DEF InHand, InQueue
  <2>4. QED
    BY <1>0, <1>1, <2>2, <2>3 DEF Outcomes
<1>4. QED
  BY <1>2, <1>3 DEF LifeStep

\* The checkpoint moves to a ledger up to which the page was complete.
LEMMA PollerCovers ==
    ASSUME IndexerInv, Poll \/ PollerStep
    PROVE  PageCovers' /\ GapsAreExplained'
<1>0. /\ TypeOK /\ Placed /\ GapsAreExplained /\ PageCovers
      /\ tip \in Nat /\ checkpoint \in Nat /\ poller.page \in Seq(Events)
      /\ poller.from \in Nat /\ poller.last \in Nat /\ poller.latest \in Nat
      /\ rows \in [Events -> {"absent", "pending", "processed", "failed"}]
      /\ poller.pc \in {"off", "wait", "save", "enqueue"}
  BY IndexerAssumption DEF IndexerInv, TypeOK
<1> DEFINE h == Head(poller.page)
           rest == Tail(poller.page)
<1>01. ASSUME poller.page # <<>>
       PROVE  /\ h \in Events /\ h = poller.page[1] /\ 1 \in DOMAIN poller.page
              /\ \A i \in DOMAIN rest : rest[i] = poller.page[i + 1] /\ i + 1 \in DOMAIN poller.page
              /\ \A j \in DOMAIN poller.page : j = 1 \/ \E i \in DOMAIN rest : j = i + 1
  BY <1>0, <1>01, TailOf
<1>02. ASSUME NEW e, \E j \in DOMAIN poller.page : poller.page[j] = e, poller.page # <<>>, e # h
       PROVE  \E i \in DOMAIN rest : rest[i] = e
  BY <1>01, <1>02
<1>1. CASE Poll
  <2> DEFINE page == FetchEvents(checkpoint)
  <2>1. /\ poller' = [pc |-> "save", page |-> page, from |-> checkpoint, last |-> checkpoint, latest |-> tip]
        /\ rows' = rows /\ checkpoint' = checkpoint /\ dropped' = dropped
        /\ cut' = IF Len(page) = Limit THEN cut \cup (Visible(checkpoint) \ ToSet(page)) ELSE cut
    BY <1>1 DEF Poll, dbVars
  <2>2. /\ page \in Seq(Events) /\ \A i \in DOMAIN page : Chain[page[i]] <= tip
        /\ Len(page) # Limit => \A e \in Visible(checkpoint) : \E i \in DOMAIN page : page[i] = e
    BY <1>0, FetchCovers
  <2>3. ToSet(page) = {page[i] : i \in DOMAIN page}
    BY DEF ToSet
  <2> HIDE DEF page
  <2>4. cut \subseteq cut'
    BY <2>1
  <2>5. GapsAreExplained'
    BY <2>1, <2>4, <1>0 DEF GapsAreExplained
  <2>6. ASSUME NEW e \in Events, Chain[e] >= checkpoint, Chain[e] <= tip
        PROVE  e \in cut' \/ \E i \in DOMAIN page : page[i] = e
    <3>1. e \in Visible(checkpoint)
      BY <2>6 DEF Visible
    <3>2. QED
      BY <3>1, <2>1, <2>2, <2>3
  <2>7. checkpoint <= Larger(checkpoint, tip)
    BY <1>0, LargerType
  <2>8. /\ poller'.from = checkpoint' /\ poller'.last = checkpoint /\ poller'.latest = tip
        /\ poller'.page = page /\ poller'.from = checkpoint
    BY <2>1
  <2>9. QED
    BY <2>2, <2>5, <2>6, <2>7, <2>8 DEF PageCovers, Explained
<1>2. CASE SkipDuplicate \/ CreateFails
  <2>1. /\ poller.pc = "save" /\ poller.page # <<>> /\ poller' = [poller EXCEPT !.page = rest]
        /\ rows' = rows /\ checkpoint' = checkpoint /\ cut' = cut
        /\ dropped \subseteq dropped' /\ (rows[h] # "absent" \/ h \in dropped')
    BY <1>2 DEF SkipDuplicate, CreateFails, NextOfPage, IsDuplicate, dbVars, histVars
  <2>2. /\ poller'.pc = "save" /\ poller'.page = rest /\ poller'.from = poller.from
        /\ poller'.last = poller.last /\ poller'.latest = poller.latest
    BY <2>1, <1>0 DEF TypeOK
  <2>3. \A e : Explained(e) \/ e = h => Explained(e)'
    <3>1. TAKE e
    <3>2. rows'[e] = rows[e] /\ (e \in cut \cup dropped => e \in cut' \cup dropped')
      BY <2>1
    <3>3. e = h => rows[e] # "absent" \/ e \in dropped'
      BY <2>1
    <3>4. QED
      BY <3>2, <3>3 DEF Explained
  <2>4. GapsAreExplained'
    BY <2>1, <1>0 DEF GapsAreExplained
  <2>5. \A i \in DOMAIN rest : Chain[rest[i]] <= poller.latest
    BY <2>1, <1>0, <1>01 DEF PageCovers
  <2>6. \A e \in Events : Chain[e] >= poller.from /\ Chain[e] <= poller.latest =>
              Explained(e)' \/ \E i \in DOMAIN rest : rest[i] = e
    BY <2>1, <2>3, <1>0, <1>02 DEF PageCovers
  <2> HIDE DEF rest
  <2>7. QED
    BY <2>1, <2>2, <2>4, <2>5, <2>6, <1>0 DEF PageCovers
<1>3. CASE Create
  <2>1. /\ poller.pc = "save" /\ poller.page # <<>> /\ poller' = [poller EXCEPT !.pc = "enqueue"]
        /\ rows' = [rows EXCEPT ![h] = "pending"]
        /\ checkpoint' = checkpoint /\ cut' = cut /\ dropped' = dropped
    BY <1>3 DEF Create, histVars
  <2>2. /\ poller'.pc = "enqueue" /\ poller'.page = poller.page /\ poller'.from = poller.from
        /\ poller'.last = poller.last /\ poller'.latest = poller.latest
    BY <2>1, <1>0 DEF TypeOK
  <2>3. \A e \in Events : rows'[e] = "absent" => rows[e] = "absent"
    BY <2>1, <1>0
  <2>4. GapsAreExplained'
    BY <2>1, <2>3, <1>0 DEF GapsAreExplained
  <2>5. \A e \in Events : Explained(e) => Explained(e)'
    BY <2>1, <2>3 DEF Explained
  <2>6. QED
    BY <2>1, <2>2, <2>4, <2>5, <1>0 DEF PageCovers
<1>4. CASE Enqueue
  <2>1. /\ poller.pc = "enqueue" /\ poller.page # <<>>
        /\ poller' = [poller EXCEPT !.pc = "save", !.page = rest, !.last = Larger(poller.last, Chain[h])]
        /\ rows' = rows /\ checkpoint' = checkpoint /\ cut' = cut /\ dropped' = dropped
    BY <1>4, <1>0 DEF Enqueue, Placed, dbVars, histVars
  <2>2. /\ poller'.pc = "save" /\ poller'.page = rest /\ poller'.from = poller.from
        /\ poller'.last = Larger(poller.last, Chain[h]) /\ poller'.latest = poller.latest
    BY <2>1, <1>0 DEF TypeOK
  <2>3. \A e : Explained(e) <=> Explained(e)'
    BY <2>1 DEF Explained
  <2>4. GapsAreExplained'
    BY <2>1, <1>0 DEF GapsAreExplained
  <2>5. \A i \in DOMAIN rest : Chain[rest[i]] <= poller.latest
    BY <2>1, <1>0, <1>01 DEF PageCovers
  <2>6. rows[h] = "pending"
    BY <2>1, <1>0, <1>01 DEF Placed, InHand
  <2>7. Explained(h)
    BY <2>6 DEF Explained
  <2>8. \A e \in Events : Chain[e] >= poller.from /\ Chain[e] <= poller.latest =>
              Explained(e)' \/ \E i \in DOMAIN rest : rest[i] = e
    BY <2>1, <2>3, <2>7, <1>0, <1>02 DEF PageCovers
  <2>9. Chain[h] <= poller.latest /\ Chain[h] \in Nat /\ poller.last <= Larger(poller.from, poller.latest)
    BY <2>1, <1>0, <1>01, ChainType DEF PageCovers
  <2>10. Larger(poller.last, Chain[h]) <= Larger(poller.from, poller.latest)
    BY <2>9, <1>0 DEF Larger
  <2> HIDE DEF rest, h
  <2>11. QED
    BY <2>1, <2>2, <2>4, <2>5, <2>8, <2>10, <1>0 DEF PageCovers
<1>5. CASE PollerReturns
  <2>1. rows' = rows /\ checkpoint' = checkpoint /\ cut' = cut /\ dropped' = dropped /\ poller'.pc = "off"
    BY <1>5, PollerAtType DEF PollerReturns, dbVars
  <2>2. QED
    BY <2>1, <1>0 DEF PageCovers, GapsAreExplained
<1>6. ASSUME NEW ok \in BOOLEAN, UpdateCheckpoint(ok) PROVE PageCovers' /\ GapsAreExplained'
  <2>1. /\ rows' = rows /\ cut' = cut /\ dropped' = dropped /\ poller'.pc = "wait"
        /\ poller.pc = "save" /\ poller.page = <<>>
        /\ checkpoint' = checkpoint \/ (checkpoint' = Larger(poller.last, poller.latest) /\ checkpoint' > poller.from)
    <3>1. poller'.pc = "wait"
      BY <1>6, PollerAtType DEF UpdateCheckpoint
    <3>2. checkpoint' = IF TargetLedger > poller.from /\ ok THEN TargetLedger ELSE checkpoint
      BY <1>6 DEF UpdateCheckpoint
    <3>3. checkpoint' = checkpoint \/ (checkpoint' = TargetLedger /\ TargetLedger > poller.from)
      BY <3>2
    <3>4. TargetLedger = Larger(poller.last, poller.latest)
      BY DEF TargetLedger
    <3>5. rows' = rows /\ cut' = cut /\ dropped' = dropped /\ poller.pc = "save" /\ poller.page = <<>>
      BY <1>6 DEF UpdateCheckpoint
    <3>6. QED
      BY <3>1, <3>3, <3>4, <3>5
  <2>2. ASSUME NEW e \in Events, Chain[e] < checkpoint', rows[e] = "absent", checkpoint' # checkpoint
        PROVE  e \in cut \cup dropped
    <3>1. /\ checkpoint' = Larger(poller.last, poller.latest) /\ checkpoint' > poller.from
          /\ poller.from = checkpoint /\ poller.last <= Larger(poller.from, poller.latest)
      BY <2>1, <2>2, <1>0 DEF PageCovers
    <3>2. Chain[e] \in Nat
      BY <2>2, ChainType
    <3>3. Chain[e] < checkpoint \/ (Chain[e] >= poller.from /\ Chain[e] <= poller.latest)
      BY <3>1, <3>2, <2>2, <1>0 DEF Larger
    <3>4. DOMAIN poller.page = {}
      BY <2>1
    <3>5. QED
      BY <3>3, <3>4, <2>1, <2>2, <1>0 DEF PageCovers, GapsAreExplained, Explained
  <2>3. QED
    BY <2>1, <2>2, <1>0 DEF PageCovers, GapsAreExplained
<1>7. QED
  BY <1>1, <1>2, <1>3, <1>4, <1>5, <1>6 DEF PollerStep

\* Nobody else removes a row, moves the checkpoint or touches the page.
LEMMA OthersCover ==
    ASSUME IndexerInv, LifeStep \/ \E w \in Workers : WorkerStep(w)
    PROVE  PageCovers' /\ GapsAreExplained'
<1>0. TypeOK /\ Placed /\ GapsAreExplained /\ PageCovers /\ workers \in [Workers -> HeldType]
      /\ rows \in [Events -> {"absent", "pending", "processed", "failed"}]
  BY DEF IndexerInv, TypeOK, HeldType
<1>1. checkpoint' = checkpoint /\ cut' = cut /\ dropped' = dropped
  BY DEF LifeStep, WorkerStep, CloseLedger, StopCancels, StopCloses, SendOnClosedChannel, Crash, Start,
         ProcessDies, Receive, HandlerSucceeds, HandlerFails, Mark, dbVars, histVars
<1>2. \A e \in Events : rows'[e] = "absent" => rows[e] = "absent"
  <2>1. ASSUME NEW w \in Workers, NEW ok \in BOOLEAN, Mark(w, ok)
        PROVE  \A e \in Events : rows'[e] = "absent" => rows[e] = "absent"
    <3>1. rows' = rows \/ rows' = [rows EXCEPT ![workers[w].ev] = StatusFor(workers[w].outcome)]
      BY <2>1 DEF Mark
    <3>2. StatusFor(workers[w].outcome) # "absent"
      BY DEF StatusFor
    <3>3. QED
      BY <3>1, <3>2, <1>0
  <2>2. ASSUME NEW w \in Workers, Receive(w) \/ HandlerSucceeds(w) \/ HandlerFails(w) PROVE rows' = rows
    BY <2>2 DEF Receive, HandlerSucceeds, HandlerFails, dbVars
  <2>3. LifeStep => rows' = rows
    BY DEF LifeStep, CloseLedger, StopCancels, StopCloses, SendOnClosedChannel, Crash, Start, ProcessDies, dbVars
  <2>4. QED
    BY <2>1, <2>2, <2>3 DEF WorkerStep
<1>3. poller' = poller \/ poller'.pc \in {"off", "wait"}
  BY PollerAtType DEF LifeStep, WorkerStep, CloseLedger, StopCancels, StopCloses, SendOnClosedChannel, Crash,
         Start, ProcessDies, Receive, HandlerSucceeds, HandlerFails, Mark, memVars
<1>4. GapsAreExplained'
  BY <1>0, <1>1, <1>2 DEF GapsAreExplained
<1>5. \A e \in Events : Explained(e) => Explained(e)'
  BY <1>1, <1>2 DEF Explained
<1>6. QED
  BY <1>0, <1>1, <1>3, <1>4, <1>5 DEF PageCovers

LEMMA IndexerStarts == Init => IndexerInv
<1> SUFFICES ASSUME Init PROVE IndexerInv
  OBVIOUS
<1>1. TypeOK
  BY IdleType, PollerAtType, EmptySeq, IndexerAssumption DEF Init, TypeOK, HeldType
<1>2. /\ poller.pc = "wait" /\ DOMAIN queue = {} /\ \A w \in Workers : workers[w].ev = None
      /\ \A e \in Events : rows[e] = "absent" /\ handled[e] = 0
      /\ orphans = {} /\ phase = "running"
  BY IdleType, PollerAtType DEF Init
<1>3. \A e \in Events : ~InHand(e) /\ ~InQueue(e) /\ ~AtWorker(e)
  BY <1>2, ChainType DEF InHand, InQueue, AtWorker
<1>4. Placed /\ Outcomes /\ PageCovers
  BY <1>2, <1>3 DEF Placed, Outcomes, PageCovers
<1>5. GapsAreExplained
  <2>1. \A e \in Events : Chain[e] >= 1 /\ checkpoint = 1
    BY ChainType DEF Init
  <2>2. QED
    BY <2>1, ChainType DEF GapsAreExplained
<1>6. QED
  BY <1>1, <1>4, <1>5 DEF IndexerInv

LEMMA IndexerStutters == IndexerInv /\ UNCHANGED vars => IndexerInv'
<1> SUFFICES ASSUME IndexerInv, UNCHANGED vars PROVE IndexerInv'
  OBVIOUS
<1>1. /\ tip' = tip /\ rows' = rows /\ checkpoint' = checkpoint /\ phase' = phase /\ poller' = poller
      /\ queue' = queue /\ workers' = workers /\ handled' = handled /\ orphans' = orphans
      /\ cut' = cut /\ dropped' = dropped /\ faults' = faults
  BY DEF vars, dbVars, memVars, histVars
<1>2. \A e : (InHand(e)' <=> InHand(e)) /\ (InQueue(e)' <=> InQueue(e)) /\ (AtWorker(e)' <=> AtWorker(e))
             /\ (Explained(e)' <=> Explained(e))
  BY <1>1 DEF InHand, InQueue, AtWorker, Explained
<1>3. TypeOK'
  BY <1>1 DEF IndexerInv, TypeOK
<1>4. Placed' /\ Outcomes'
  BY <1>1, <1>2 DEF IndexerInv, Placed, Outcomes
<1>5. GapsAreExplained' /\ PageCovers'
  BY <1>1, <1>2 DEF IndexerInv, GapsAreExplained, PageCovers
<1>6. QED
  BY <1>3, <1>4, <1>5 DEF IndexerInv

LEMMA IndexerSteps == IndexerInv /\ [Next]_vars => IndexerInv'
<1> SUFFICES ASSUME IndexerInv, [Next]_vars PROVE IndexerInv'
  OBVIOUS
<1>1. CASE Poll \/ PollerStep
  BY <1>1, PollerTyped, PollerPlaced, PollerOutcomes, PollerCovers DEF IndexerInv
<1>2. ASSUME NEW w \in Workers, WorkerStep(w) PROVE IndexerInv'
  BY <1>2, WorkerTyped, WorkerPlaced, WorkerOutcomes, OthersCover DEF IndexerInv
<1>3. CASE LifeStep
  BY <1>3, LifeTyped, LifePlaced, LifeOutcomes, OthersCover DEF IndexerInv
<1>4. CASE UNCHANGED vars
  BY <1>4, IndexerStutters
<1>5. QED
  BY <1>1, <1>2, <1>3, <1>4 DEF Next, LifeStep

\* A set with at most one element counts whether it has it.
LEMMA CountOne ==
    ASSUME NEW S, \A x, y \in S : x = y
    PROVE  Cardinality(S) = IF S = {} THEN 0 ELSE 1
<1>1. CASE S = {}
  BY <1>1, FS_EmptySet
<1>2. CASE S # {}
  <2>1. PICK x \in S : TRUE
    BY <1>2
  <2>2. S = {x}
    BY <2>1
  <2>3. Cardinality({x}) = 1
    BY FS_Singleton
  <2>4. QED
    BY <1>2, <2>2, <2>3
<1>3. QED
  BY <1>1, <1>2

\* Being in one place at most, an event has one holder or none.
LEMMA IndexerAccounts == IndexerInv => EventsAreAccountedFor
<1> SUFFICES ASSUME IndexerInv PROVE EventsAreAccountedFor
  OBVIOUS
<1>0. TypeOK /\ Placed /\ Outcomes /\ GapsAreExplained /\ handled \in [Events -> Nat]
  BY DEF IndexerInv, TypeOK
<1>1. HandledAtMostOnce /\ StatusTellsOutcome
  BY <1>0, ChainType DEF Outcomes, HandledAtMostOnce, StatusTellsOutcome
<1>2. ASSUME NEW e \in Events
      PROVE  Holders(e) = IF rows[e] = "pending" /\ e \notin orphans THEN 1 ELSE 0
  <2> DEFINE Q == {i \in DOMAIN queue : queue[i] = e}
             W == {w \in Workers : workers[w].ev = e}
             q == Cardinality(Q)
             n == Cardinality(W)
             h == IF poller.pc = "enqueue" /\ Head(poller.page) = e THEN 1 ELSE 0
  <2>1. e # None
    BY ChainType
  <2>2. (\A i, j \in Q : i = j) /\ (Q # {} <=> InQueue(e))
    BY <1>0 DEF Placed, InQueue
  <2>3. (\A v, w \in W : v = w) /\ (W # {} <=> AtWorker(e))
    BY <1>0, <2>1 DEF Placed, AtWorker
  <2>4. q = (IF InQueue(e) THEN 1 ELSE 0) /\ n = (IF AtWorker(e) THEN 1 ELSE 0)
        /\ h = (IF InHand(e) THEN 1 ELSE 0)
    BY <2>2, <2>3, CountOne DEF InHand
  <2>5. Holders(e) = q + n + h
    BY DEF Holders
  <2> HIDE DEF q, n, h
  <2>6. q + n + h = IF InHand(e) \/ InQueue(e) \/ AtWorker(e) THEN 1 ELSE 0
    BY <2>4, <1>0 DEF Placed
  <2>7. rows[e] = "pending" /\ e \notin orphans <=> InHand(e) \/ InQueue(e) \/ AtWorker(e)
    BY <1>0 DEF Placed
  <2>8. QED
    BY <2>5, <2>6, <2>7
<1>3. PendingIsHeldOnce
  BY <1>2 DEF PendingIsHeldOnce
<1>4. QED
  BY <1>0, <1>1, <1>3 DEF EventsAreAccountedFor

\* The indexer: whatever the polls, retries, failing writes, crashes and
\* restarts, the handler of an event succeeds at most once and its row says
\* what came of it; a pending event is in one place or orphaned; and the
\* checkpoint passes over no event but those with a known reason.
THEOREM EventsAccounted == Spec => []EventsAreAccountedFor
<1>1. Init => IndexerInv
  BY IndexerStarts
<1>2. IndexerInv /\ [Next]_vars => IndexerInv'
  BY IndexerSteps
<1>3. IndexerInv => EventsAreAccountedFor
  BY IndexerAccounts
<1>4. QED
  BY <1>1, <1>2, <1>3, PTL DEF Spec

-----------------------------------------------------------------------------
\* The cache.  Where a request may be, by what it does.
LoadPlaces == {"new", "get1", "get2", "fill", "do", "join", "setnx", "poll", "load", "set1", "set2",
               "relget", "reldel", "unmap", "panicked", "done"}
PagePlaces == {"new", "get1", "get2", "fill", "handler", "set1", "set2", "sadd", "done"}
TagPlaces == {"new", "commit", "smembers", "del1", "del2", "deltag", "done"}
PatternPlaces == {"new", "commit", "del1", "del2", "done"}

CacheOps == {"load", "page", "tag", "pattern"}

ReqRow == [pc : LoadPlaces \cup PagePlaces \cup TagPlaces, op : CacheOps, val : C!Versions \cup {None},
           under : {"no", "held", "expired"}, leader : Reqs \cup {None}, stale : BOOLEAN, late : BOOLEAN]

\* A request is where its kind goes, a waiter has a leader, what is about to
\* be stored is a version, and nobody has the lock before asking for it.
RowOk(w) ==
    /\ w.op = "load" => w.pc \in LoadPlaces
    /\ w.op = "page" => w.pc \in PagePlaces
    /\ w.op = "tag" => w.pc \in TagPlaces
    /\ w.op = "pattern" => w.pc \in PatternPlaces
    /\ w.pc = "join" => w.leader \in Reqs
    /\ w.pc \in {"fill", "set1", "set2"} => w.val \in C!Versions
    /\ w.pc \in {"new", "get1", "get2", "do", "setnx"} \/ w.op # "load" => w.under = "no"

\* A writer that has committed.
Wrote(w) == w.op \in {"tag", "pattern"} /\ w.pc \notin {"new", "commit"}
Committed == {r \in Reqs : Wrote(req[r])}

FlightRow(w) ==
    w.op = "load" /\ w.pc \in {"setnx", "poll", "load", "set1", "set2", "relget", "reldel", "unmap"}
HoldsRow(w) == w.under = "held" /\ w.pc \in {"load", "set1", "set2", "relget"}

Clearing(pcs) == \E r \in Reqs : req[r].op = "pattern" /\ req[r].pc \in pcs

RowsInv ==
    /\ C!TypeOK /\ req \in [Reqs -> ReqRow]
    /\ \A r \in Reqs : RowOk(req[r])
    /\ db = Cardinality(Committed)

\* The entry of the map is the request that does the work.
FlightInv == \A r \in Reqs : FlightRow(req[r]) => flight[InstOf[r]] = r

\* While no call failed and no lock was torn from its release, a request that
\* thinks it holds the lock does, and so does one about to delete it.
LockInv == cFaults = 0 /\ ~torn =>
    \A r \in Reqs : HoldsRow(req[r]) \/ req[r].pc = "reldel" => lock = r

\* What is older than the last write is about to be deleted.
ClearInv == (\A r \in Reqs : req[r].op # "tag") /\ cFaults = 0 /\ ~staleSet =>
    /\ l2 \in {None, db} \/ Clearing({"del1", "del2"})
    /\ \A i \in Inst : (\A r \in Reqs : req[r].op = "pattern" => InstOf[r] = i) =>
          l1[i].val \in {None, db} \/ Clearing({"del1"})

CacheInv == RowsInv /\ FlightInv /\ LockInv /\ ClearInv

LEMMA CacheCardinality == \A S : C!Cardinality(S) = Cardinality(S)
  BY DEF C!Cardinality, Cardinality

LEMMA VersionsType ==
    /\ IsFiniteSet(Reqs) /\ Cardinality(Reqs) \in Nat /\ None \notin Reqs
    /\ C!Versions = 0..Cardinality(Reqs) /\ C!Versions \subseteq Nat
    /\ \A r \in Reqs : InstOf[r] \in Inst
<1>1. IsFiniteSet(Reqs) /\ None \notin Reqs /\ \A r \in Reqs : InstOf[r] \in Inst
  BY CacheAssumption
<1>2. Cardinality(Reqs) \in Nat
  BY <1>1, FS_CardinalityType
<1>3. C!Versions = 0..Cardinality(Reqs)
  BY CacheCardinality DEF C!Versions
<1>4. QED
  BY <1>1, <1>2, <1>3

\* What a step does to the request that takes it.
RowMove(r) ==
    /\ req' \in [Reqs -> ReqRow]
    /\ \A s \in Reqs : s # r => req'[s] = req[s]
    /\ RowOk(req'[r]) /\ req'[r].op = req[r].op
    /\ FlightRow(req'[r]) => FlightRow(req[r]) \/ C!Lead(r)
    /\ HoldsRow(req'[r]) => HoldsRow(req[r]) \/ lock' = r
    /\ req'[r].pc = "reldel" => lock = r \/ req[r].pc = "reldel"
    /\ Wrote(req[r]) => Wrote(req'[r])
    /\ Wrote(req'[r]) => Wrote(req[r]) \/ C!Commit(r)

LEMMA GotoMoves ==
    ASSUME req \in [Reqs -> ReqRow], NEW r \in Reqs,
           NEW pc \in LoadPlaces \cup PagePlaces \cup TagPlaces, C!Goto(r, pc)
    PROVE  /\ req' \in [Reqs -> ReqRow] /\ \A s \in Reqs : s # r => req'[s] = req[s]
           /\ req'[r].pc = pc /\ req'[r].op = req[r].op /\ req'[r].val = req[r].val
           /\ req'[r].under = req[r].under /\ req'[r].leader = req[r].leader
<1> DEFINE w == [req[r] EXCEPT !.pc = pc]
<1>1. req' = [req EXCEPT ![r] = w]
  BY DEF C!Goto
<1>2. w \in ReqRow /\ w.pc = pc /\ w.op = req[r].op /\ w.val = req[r].val /\ w.under = req[r].under
      /\ w.leader = req[r].leader
  BY DEF ReqRow
<1> HIDE DEF w
<1>3. QED
  BY <1>1, <1>2

LEMMA ReturnMoves ==
    ASSUME req \in [Reqs -> ReqRow], NEW r \in Reqs, NEW v \in C!Versions \cup {None}, C!Return(r, v)
    PROVE  /\ req' \in [Reqs -> ReqRow] /\ \A s \in Reqs : s # r => req'[s] = req[s]
           /\ req'[r].pc = "done" /\ req'[r].op = req[r].op /\ req'[r].val = v /\ req'[r].under = "no"
<1> DEFINE w == [req[r] EXCEPT !.pc = "done", !.val = v, !.under = "no", !.leader = None, !.stale = FALSE,
                               !.late = FALSE]
<1>1. req' = [req EXCEPT ![r] = w]
  BY DEF C!Return
<1>2. w \in ReqRow /\ w.pc = "done" /\ w.op = req[r].op /\ w.val = v /\ w.under = "no"
  BY ZenonT(60) DEF ReqRow, LoadPlaces
<1> HIDE DEF w
<1>3. QED
  BY <1>1, <1>2

LEMMA PutMoves ==
    ASSUME req \in [Reqs -> ReqRow], NEW r \in Reqs, NEW pc \in LoadPlaces \cup PagePlaces \cup TagPlaces,
           NEW v \in C!Versions \cup {None}, req' = [req EXCEPT ![r].pc = pc, ![r].val = v]
    PROVE  /\ req' \in [Reqs -> ReqRow] /\ \A s \in Reqs : s # r => req'[s] = req[s]
           /\ req'[r].pc = pc /\ req'[r].op = req[r].op /\ req'[r].val = v /\ req'[r].under = req[r].under
<1> DEFINE w == [req[r] EXCEPT !.pc = pc, !.val = v]
<1>1. req' = [req EXCEPT ![r] = w]
  OBVIOUS
<1>2. w \in ReqRow /\ w.pc = pc /\ w.op = req[r].op /\ w.val = v /\ w.under = req[r].under
  BY DEF ReqRow
<1> HIDE DEF w
<1>3. QED
  BY <1>1, <1>2, ZenonT(60)

LEMMA LandMoves ==
    ASSUME req \in [Reqs -> ReqRow], NEW r \in Reqs, NEW v \in C!Versions \cup {None}, C!Land(r, v)
    PROVE  /\ req' \in [Reqs -> ReqRow] /\ \A s \in Reqs : s # r => req'[s] = req[s]
           /\ req'[r].pc = "unmap" /\ req'[r].op = req[r].op
<1>1. req' = [req EXCEPT ![r].pc = "unmap", ![r].val = v] /\ "unmap" \in LoadPlaces \cup PagePlaces \cup TagPlaces
  BY DEF C!Land, LoadPlaces
<1>2. QED
  BY <1>1, PutMoves

\* What the types say of the request that takes a step.
LEMMA RowType ==
    ASSUME RowsInv, NEW r \in Reqs
    PROVE  /\ req \in [Reqs -> ReqRow] /\ req[r] \in ReqRow /\ RowOk(req[r])
           /\ req[r].val \in C!Versions \cup {None} /\ req[r].op \in CacheOps
           /\ req[r].under \in {"no", "held", "expired"}
           /\ db \in C!Versions /\ l2 \in C!Versions \cup {None} /\ InstOf[r] \in Inst
           /\ l1[InstOf[r]].val \in C!Versions \cup {None}
           /\ lock \in Reqs \cup {None} /\ flight \in [Inst -> Reqs \cup {None}]
<1>1. req \in [Reqs -> ReqRow] /\ req[r] \in ReqRow /\ RowOk(req[r])
  BY DEF RowsInv
<1>2. /\ req[r].val \in C!Versions \cup {None} /\ req[r].op \in CacheOps
      /\ req[r].under \in {"no", "held", "expired"}
  BY <1>1 DEF ReqRow
<1>3. /\ db \in C!Versions /\ l2 \in C!Versions \cup {None} /\ InstOf[r] \in Inst
      /\ lock \in Reqs \cup {None} /\ flight \in [Inst -> Reqs \cup {None}]
  BY VersionsType DEF RowsInv, C!TypeOK
<1>4. l1[InstOf[r]].val \in C!Versions \cup {None}
  BY <1>3 DEF RowsInv, C!TypeOK, C!NoEntry
<1>5. QED
  BY <1>1, <1>2, <1>3, <1>4

\* A reader goes only where readers go.
LEMMA ReaderPlaces ==
    ASSUME NEW w, RowOk(w), w.op \in CacheOps
    PROVE  /\ w.pc \in {"get1", "get2", "fill", "set1", "set2"} => w.op \in {"load", "page"}
           /\ w.pc \in {"do", "join", "setnx", "poll", "load", "relget", "reldel", "unmap"} => w.op = "load"
           /\ w.pc \in {"handler", "sadd"} => w.op = "page"
           /\ w.pc \in {"commit", "del1", "del2"} => w.op \in {"tag", "pattern"}
           /\ w.pc \in {"smembers", "deltag"} => w.op = "tag"
<1>1. CASE w.op = "load"
  BY <1>1 DEF RowOk, LoadPlaces
<1>2. CASE w.op = "page"
  BY <1>2 DEF RowOk, PagePlaces
<1>3. CASE w.op = "tag"
  BY <1>3 DEF RowOk, TagPlaces
<1>4. CASE w.op = "pattern"
  BY <1>4 DEF RowOk, PatternPlaces
<1>5. QED
  BY <1>1, <1>2, <1>3, <1>4 DEF CacheOps

\* Every step of a request moves it as its kind goes.
LEMMA ReadMoves ==
    ASSUME RowsInv, NEW r \in Reqs, C!ReadStep(r)
    PROVE  RowMove(r)
<1> DEFINE w == req[r]
<1>0. /\ req \in [Reqs -> ReqRow] /\ w \in ReqRow /\ RowOk(w)
      /\ w.val \in C!Versions \cup {None} /\ w.op \in CacheOps /\ w.under \in {"no", "held", "expired"}
      /\ db \in C!Versions /\ l2 \in C!Versions \cup {None} /\ InstOf[r] \in Inst
      /\ l1[InstOf[r]].val \in C!Versions \cup {None}
      /\ lock \in Reqs \cup {None} /\ flight \in [Inst -> Reqs \cup {None}]
  BY RowType
<1> USE DEF C!Me
<1>1. CASE C!GetL1(r)
  <2>1. w.pc = "get1"
    BY <1>1 DEF C!GetL1, C!At
  <2>2. w.op \in {"load", "page"}
    BY <1>0, <2>1, ReaderPlaces
  <2>3. \/ C!Return(r, l1[InstOf[r]].val)
        \/ C!Goto(r, "get2")
    BY <1>1, <1>0, <2>2 DEF C!GetL1
  <2>4. CASE C!Return(r, l1[InstOf[r]].val)
    <3>1. /\ req' \in [Reqs -> ReqRow] /\ \A s \in Reqs : s # r => req'[s] = req[s]
          /\ req'[r].pc = "done" /\ req'[r].op = w.op /\ req'[r].val = l1[InstOf[r]].val /\ req'[r].under = "no"
      BY <1>0, <2>4, ReturnMoves DEF LoadPlaces, PagePlaces
    <3>2. RowOk(req'[r])
      BY <1>0, <2>1, <2>2, <2>4, <3>1 DEF RowOk, LoadPlaces, PagePlaces
    <3>3. QED
      BY <1>1, <2>1, <2>2, <2>4, <3>1, <3>2 DEF RowMove, FlightRow, HoldsRow, Wrote
  <2>5. CASE C!Goto(r, "get2")
    <3>1. /\ req' \in [Reqs -> ReqRow] /\ \A s \in Reqs : s # r => req'[s] = req[s]
          /\ req'[r].pc = "get2" /\ req'[r].op = w.op /\ req'[r].val = w.val /\ req'[r].under = w.under
      BY <1>0, <2>5, GotoMoves DEF LoadPlaces, PagePlaces
    <3>2. RowOk(req'[r])
      BY <1>0, <2>1, <2>2, <2>5, <3>1 DEF RowOk, LoadPlaces, PagePlaces
    <3>3. QED
      BY <1>1, <2>1, <2>2, <2>5, <3>1, <3>2 DEF RowMove, FlightRow, HoldsRow, Wrote
  <2>6. QED
    BY <2>3, <2>4, <2>5
<1>2. CASE C!GetL2(r)
  <2>1. w.pc = "get2"
    BY <1>2 DEF C!GetL2, C!At
  <2>2. w.op \in {"load", "page"}
    BY <1>0, <2>1, ReaderPlaces
  <2>3. \/ req' = [req EXCEPT ![r].pc = "fill", ![r].val = l2] /\ l2 \in C!Versions
        \/ C!Goto(r, "do") /\ w.op = "load"
        \/ C!Goto(r, "handler") /\ w.op = "page"
    BY <1>2, <1>0, <2>2 DEF C!GetL2, C!OnMiss
  <2>4. CASE req' = [req EXCEPT ![r].pc = "fill", ![r].val = l2] /\ l2 \in C!Versions
    <3>1. /\ req' \in [Reqs -> ReqRow] /\ \A s \in Reqs : s # r => req'[s] = req[s]
          /\ req'[r].pc = "fill" /\ req'[r].op = w.op /\ req'[r].val = l2 /\ req'[r].under = w.under
      BY <1>0, <2>4, PutMoves DEF LoadPlaces, PagePlaces
    <3>2. RowOk(req'[r])
      BY <1>0, <2>1, <2>2, <2>4, <3>1 DEF RowOk, LoadPlaces, PagePlaces
    <3>3. QED
      BY <1>2, <2>1, <2>2, <2>4, <3>1, <3>2 DEF RowMove, FlightRow, HoldsRow, Wrote
  <2>5. CASE C!Goto(r, "do") /\ w.op = "load"
    <3>1. /\ req' \in [Reqs -> ReqRow] /\ \A s \in Reqs : s # r => req'[s] = req[s]
          /\ req'[r].pc = "do" /\ req'[r].op = w.op /\ req'[r].val = w.val /\ req'[r].under = w.under
      BY <1>0, <2>5, GotoMoves DEF LoadPlaces, PagePlaces
    <3>2. RowOk(req'[r])
      BY <1>0, <2>1, <2>2, <2>5, <3>1 DEF RowOk, LoadPlaces, PagePlaces
    <3>3. QED
      BY <1>2, <2>1, <2>2, <2>5, <3>1, <3>2 DEF RowMove, FlightRow, HoldsRow, Wrote
  <2>6. CASE C!Goto(r, "handler") /\ w.op = "page"
    <3>1. /\ req' \in [Reqs -> ReqRow] /\ \A s \in Reqs : s # r => req'[s] = req[s]
          /\ req'[r].pc = "handler" /\ req'[r].op = w.op /\ req'[r].val = w.val /\ req'[r].under = w.under
      BY <1>0, <2>6, GotoMoves DEF LoadPlaces, PagePlaces
    <3>2. RowOk(req'[r])
      BY <1>0, <2>1, <2>2, <2>6, <3>1 DEF RowOk, LoadPlaces, PagePlaces
    <3>3. QED
      BY <1>2, <2>1, <2>2, <2>6, <3>1, <3>2 DEF RowMove, FlightRow, HoldsRow, Wrote
  <2>7. QED
    BY <2>3, <2>4, <2>5, <2>6
<1>3. CASE C!Fill(r)
  <2>1. w.pc = "fill"
    BY <1>3 DEF C!Fill, C!At
  <2>2. w.op \in {"load", "page"}
    BY <1>0, <2>1, ReaderPlaces
  <2>3. C!Goto(r, "done")
    BY <1>3, <1>0, <2>2 DEF C!Fill
  <2>4. /\ req' \in [Reqs -> ReqRow] /\ \A s \in Reqs : s # r => req'[s] = req[s]
        /\ req'[r].pc = "done" /\ req'[r].op = w.op /\ req'[r].val = w.val /\ req'[r].under = w.under
    BY <1>0, <2>3, GotoMoves DEF LoadPlaces, PagePlaces
  <2>5. RowOk(req'[r])
    BY <1>0, <2>1, <2>2, <2>3, <2>4 DEF RowOk, LoadPlaces, PagePlaces
  <2>6. QED
    BY <1>3, <2>1, <2>2, <2>3, <2>4, <2>5 DEF RowMove, FlightRow, HoldsRow, Wrote
<1>4. CASE C!Lead(r)
  <2>1. w.pc = "do"
    BY <1>4 DEF C!Lead, C!At
  <2>2. w.op = "load"
    BY <1>0, <2>1, ReaderPlaces
  <2>3. C!Goto(r, "setnx")
    BY <1>4, <1>0, <2>2 DEF C!Lead
  <2>4. /\ req' \in [Reqs -> ReqRow] /\ \A s \in Reqs : s # r => req'[s] = req[s]
        /\ req'[r].pc = "setnx" /\ req'[r].op = w.op /\ req'[r].val = w.val /\ req'[r].under = w.under
    BY <1>0, <2>3, GotoMoves DEF LoadPlaces, PagePlaces
  <2>5. RowOk(req'[r])
    BY <1>0, <2>1, <2>2, <2>3, <2>4 DEF RowOk, LoadPlaces, PagePlaces
  <2>6. QED
    BY <1>4, <2>1, <2>2, <2>3, <2>4, <2>5 DEF RowMove, FlightRow, HoldsRow, Wrote
<1>5. CASE C!Share(r)
  <2>1. w.pc = "join"
    BY <1>5 DEF C!Share, C!At
  <2>2. w.op = "load"
    BY <1>0, <2>1, ReaderPlaces
  <2>3. C!Return(r, req[w.leader].val)
    BY <1>5, <1>0, <2>2 DEF C!Share
  <2>4. req[w.leader].val \in C!Versions \cup {None}
    BY <1>0, <2>1 DEF RowOk, ReqRow
  <2>5. /\ req' \in [Reqs -> ReqRow] /\ \A s \in Reqs : s # r => req'[s] = req[s]
        /\ req'[r].pc = "done" /\ req'[r].op = w.op /\ req'[r].val = req[w.leader].val /\ req'[r].under = "no"
    BY <1>0, <2>3, <2>4, ReturnMoves DEF LoadPlaces, PagePlaces
  <2>6. RowOk(req'[r])
    BY <1>0, <2>1, <2>2, <2>3, <2>5 DEF RowOk, LoadPlaces, PagePlaces
  <2>7. QED
    BY <1>5, <2>1, <2>2, <2>3, <2>5, <2>6 DEF RowMove, FlightRow, HoldsRow, Wrote
<1>6. CASE C!Unmap(r)
  <2>1. w.pc = "unmap"
    BY <1>6 DEF C!Unmap, C!At
  <2>2. w.op = "load"
    BY <1>0, <2>1, ReaderPlaces
  <2>3. C!Return(r, w.val)
    BY <1>6, <1>0, <2>2 DEF C!Unmap
  <2>4. /\ req' \in [Reqs -> ReqRow] /\ \A s \in Reqs : s # r => req'[s] = req[s]
        /\ req'[r].pc = "done" /\ req'[r].op = w.op /\ req'[r].val = w.val /\ req'[r].under = "no"
    BY <1>0, <2>3, ReturnMoves DEF LoadPlaces, PagePlaces
  <2>5. RowOk(req'[r])
    BY <1>0, <2>1, <2>2, <2>3, <2>4 DEF RowOk, LoadPlaces, PagePlaces
  <2>6. QED
    BY <1>6, <2>1, <2>2, <2>3, <2>4, <2>5 DEF RowMove, FlightRow, HoldsRow, Wrote
<1>7. CASE C!Load(r)
  <2>1. w.pc = "load"
    BY <1>7 DEF C!Load, C!At
  <2>2. w.op = "load"
    BY <1>0, <2>1, ReaderPlaces
  <2>3. req' = [req EXCEPT ![r].pc = "set1", ![r].val = db]
    BY <1>7, <1>0, <2>2 DEF C!Load
  <2>4. /\ req' \in [Reqs -> ReqRow] /\ \A s \in Reqs : s # r => req'[s] = req[s]
        /\ req'[r].pc = "set1" /\ req'[r].op = w.op /\ req'[r].val = db /\ req'[r].under = w.under
    BY <1>0, <2>3, PutMoves DEF LoadPlaces, PagePlaces
  <2>5. RowOk(req'[r])
    BY <1>0, <2>1, <2>2, <2>3, <2>4 DEF RowOk, LoadPlaces, PagePlaces
  <2>6. QED
    BY <1>7, <2>1, <2>2, <2>3, <2>4, <2>5 DEF RowMove, FlightRow, HoldsRow, Wrote
<1>8. CASE C!LoaderFails(r)
  <2>1. w.pc = "load"
    BY <1>8 DEF C!LoaderFails, C!At
  <2>2. w.op = "load"
    BY <1>0, <2>1, ReaderPlaces
  <2>3. \/ C!Goto(r, "relget")
        \/ C!Goto(r, "unmap")
    BY <1>8, <1>0, <2>2 DEF C!LoaderFails, C!AfterLoad
  <2>4. CASE C!Goto(r, "relget")
    <3>1. /\ req' \in [Reqs -> ReqRow] /\ \A s \in Reqs : s # r => req'[s] = req[s]
          /\ req'[r].pc = "relget" /\ req'[r].op = w.op /\ req'[r].val = w.val /\ req'[r].under = w.under
      BY <1>0, <2>4, GotoMoves DEF LoadPlaces, PagePlaces
    <3>2. RowOk(req'[r])
      BY <1>0, <2>1, <2>2, <2>4, <3>1 DEF RowOk, LoadPlaces, PagePlaces
    <3>3. QED
      BY <1>8, <2>1, <2>2, <2>4, <3>1, <3>2 DEF RowMove, FlightRow, HoldsRow, Wrote
  <2>5. CASE C!Goto(r, "unmap")
    <3>1. /\ req' \in [Reqs -> ReqRow] /\ \A s \in Reqs : s # r => req'[s] = req[s]
          /\ req'[r].pc = "unmap" /\ req'[r].op = w.op /\ req'[r].val = w.val /\ req'[r].under = w.under
      BY <1>0, <2>5, GotoMoves DEF LoadPlaces, PagePlaces
    <3>2. RowOk(req'[r])
      BY <1>0, <2>1, <2>2, <2>5, <3>1 DEF RowOk, LoadPlaces, PagePlaces
    <3>3. QED
      BY <1>8, <2>1, <2>2, <2>5, <3>1, <3>2 DEF RowMove, FlightRow, HoldsRow, Wrote
  <2>6. QED
    BY <2>3, <2>4, <2>5
<1>9. CASE C!LoaderPanics(r)
  <2>1. w.pc = "load"
    BY <1>9 DEF C!LoaderPanics, C!At
  <2>2. w.op = "load"
    BY <1>0, <2>1, ReaderPlaces
  <2>3. C!Goto(r, "panicked")
    BY <1>9, <1>0, <2>2 DEF C!LoaderPanics
  <2>4. /\ req' \in [Reqs -> ReqRow] /\ \A s \in Reqs : s # r => req'[s] = req[s]
        /\ req'[r].pc = "panicked" /\ req'[r].op = w.op /\ req'[r].val = w.val /\ req'[r].under = w.under
    BY <1>0, <2>3, GotoMoves DEF LoadPlaces, PagePlaces
  <2>5. RowOk(req'[r])
    BY <1>0, <2>1, <2>2, <2>3, <2>4 DEF RowOk, LoadPlaces, PagePlaces
  <2>6. QED
    BY <1>9, <2>1, <2>2, <2>3, <2>4, <2>5 DEF RowMove, FlightRow, HoldsRow, Wrote
<1>10. CASE C!SetL1(r)
  <2>1. w.pc = "set1"
    BY <1>10 DEF C!SetL1, C!At
  <2>2. w.op \in {"load", "page"}
    BY <1>0, <2>1, ReaderPlaces
  <2>3. C!Goto(r, "set2")
    BY <1>10, <1>0, <2>2 DEF C!SetL1
  <2>4. /\ req' \in [Reqs -> ReqRow] /\ \A s \in Reqs : s # r => req'[s] = req[s]
        /\ req'[r].pc = "set2" /\ req'[r].op = w.op /\ req'[r].val = w.val /\ req'[r].under = w.under
    BY <1>0, <2>3, GotoMoves DEF LoadPlaces, PagePlaces
  <2>5. RowOk(req'[r])
    BY <1>0, <2>1, <2>2, <2>3, <2>4 DEF RowOk, LoadPlaces, PagePlaces
  <2>6. QED
    BY <1>10, <2>1, <2>2, <2>3, <2>4, <2>5 DEF RowMove, FlightRow, HoldsRow, Wrote
<1>11. CASE C!SetL2(r)
  <2>1. w.pc = "set2"
    BY <1>11 DEF C!SetL2, C!At
  <2>2. w.op \in {"load", "page"}
    BY <1>0, <2>1, ReaderPlaces
  <2>3. \/ C!Goto(r, "sadd") /\ w.op = "page"
        \/ C!Goto(r, "relget") /\ w.op = "load"
        \/ C!Goto(r, "unmap") /\ w.op = "load"
        \/ C!Return(r, None)
    BY <1>11, <1>0, <2>2 DEF C!SetL2, C!AfterLoad
  <2>4. CASE C!Goto(r, "sadd") /\ w.op = "page"
    <3>1. /\ req' \in [Reqs -> ReqRow] /\ \A s \in Reqs : s # r => req'[s] = req[s]
          /\ req'[r].pc = "sadd" /\ req'[r].op = w.op /\ req'[r].val = w.val /\ req'[r].under = w.under
      BY <1>0, <2>4, GotoMoves DEF LoadPlaces, PagePlaces
    <3>2. RowOk(req'[r])
      BY <1>0, <2>1, <2>2, <2>4, <3>1 DEF RowOk, LoadPlaces, PagePlaces
    <3>3. QED
      BY <1>11, <2>1, <2>2, <2>4, <3>1, <3>2 DEF RowMove, FlightRow, HoldsRow, Wrote
  <2>5. CASE C!Goto(r, "relget") /\ w.op = "load"
    <3>1. /\ req' \in [Reqs -> ReqRow] /\ \A s \in Reqs : s # r => req'[s] = req[s]
          /\ req'[r].pc = "relget" /\ req'[r].op = w.op /\ req'[r].val = w.val /\ req'[r].under = w.under
      BY <1>0, <2>5, GotoMoves DEF LoadPlaces, PagePlaces
    <3>2. RowOk(req'[r])
      BY <1>0, <2>1, <2>2, <2>5, <3>1 DEF RowOk, LoadPlaces, PagePlaces
    <3>3. QED
      BY <1>11, <2>1, <2>2, <2>5, <3>1, <3>2 DEF RowMove, FlightRow, HoldsRow, Wrote
  <2>6. CASE C!Goto(r, "unmap") /\ w.op = "load"
    <3>1. /\ req' \in [Reqs -> ReqRow] /\ \A s \in Reqs : s # r => req'[s] = req[s]
          /\ req'[r].pc = "unmap" /\ req'[r].op = w.op /\ req'[r].val = w.val /\ req'[r].under = w.under
      BY <1>0, <2>6, GotoMoves DEF LoadPlaces, PagePlaces
    <3>2. RowOk(req'[r])
      BY <1>0, <2>1, <2>2, <2>6, <3>1 DEF RowOk, LoadPlaces, PagePlaces
    <3>3. QED
      BY <1>11, <2>1, <2>2, <2>6, <3>1, <3>2 DEF RowMove, FlightRow, HoldsRow, Wrote
  <2>7. CASE C!Return(r, None)
    <3>1. /\ req' \in [Reqs -> ReqRow] /\ \A s \in Reqs : s # r => req'[s] = req[s]
          /\ req'[r].pc = "done" /\ req'[r].op = w.op /\ req'[r].val = None /\ req'[r].under = "no"
      BY <1>0, <2>7, ReturnMoves DEF LoadPlaces, PagePlaces
    <3>2. RowOk(req'[r])
      BY <1>0, <2>1, <2>2, <2>7, <3>1 DEF RowOk, LoadPlaces, PagePlaces
    <3>3. QED
      BY <1>11, <2>1, <2>2, <2>7, <3>1, <3>2 DEF RowMove, FlightRow, HoldsRow, Wrote
  <2>8. QED
    BY <2>3, <2>4, <2>5, <2>6, <2>7
<1>12. CASE C!ReleaseGet(r)
  <2>1. w.pc = "relget"
    BY <1>12 DEF C!ReleaseGet, C!At
  <2>2. w.op = "load"
    BY <1>0, <2>1, ReaderPlaces
  <2>3. \/ C!Goto(r, "reldel") /\ lock = r
        \/ C!Goto(r, "unmap")
    BY <1>12, <1>0, <2>2 DEF C!ReleaseGet, C!OwnToken
  <2>4. CASE C!Goto(r, "reldel") /\ lock = r
    <3>1. /\ req' \in [Reqs -> ReqRow] /\ \A s \in Reqs : s # r => req'[s] = req[s]
          /\ req'[r].pc = "reldel" /\ req'[r].op = w.op /\ req'[r].val = w.val /\ req'[r].under = w.under
      BY <1>0, <2>4, GotoMoves DEF LoadPlaces, PagePlaces
    <3>2. RowOk(req'[r])
      BY <1>0, <2>1, <2>2, <2>4, <3>1 DEF RowOk, LoadPlaces, PagePlaces
    <3>3. QED
      BY <1>12, <2>1, <2>2, <2>4, <3>1, <3>2 DEF RowMove, FlightRow, HoldsRow, Wrote
  <2>5. CASE C!Goto(r, "unmap")
    <3>1. /\ req' \in [Reqs -> ReqRow] /\ \A s \in Reqs : s # r => req'[s] = req[s]
          /\ req'[r].pc = "unmap" /\ req'[r].op = w.op /\ req'[r].val = w.val /\ req'[r].under = w.under
      BY <1>0, <2>5, GotoMoves DEF LoadPlaces, PagePlaces
    <3>2. RowOk(req'[r])
      BY <1>0, <2>1, <2>2, <2>5, <3>1 DEF RowOk, LoadPlaces, PagePlaces
    <3>3. QED
      BY <1>12, <2>1, <2>2, <2>5, <3>1, <3>2 DEF RowMove, FlightRow, HoldsRow, Wrote
  <2>6. QED
    BY <2>3, <2>4, <2>5
<1>13. CASE C!ReleaseDel(r)
  <2>1. w.pc = "reldel"
    BY <1>13 DEF C!ReleaseDel, C!At
  <2>2. w.op = "load"
    BY <1>0, <2>1, ReaderPlaces
  <2>3. C!Goto(r, "unmap")
    BY <1>13, <1>0, <2>2 DEF C!ReleaseDel
  <2>4. /\ req' \in [Reqs -> ReqRow] /\ \A s \in Reqs : s # r => req'[s] = req[s]
        /\ req'[r].pc = "unmap" /\ req'[r].op = w.op /\ req'[r].val = w.val /\ req'[r].under = w.under
    BY <1>0, <2>3, GotoMoves DEF LoadPlaces, PagePlaces
  <2>5. RowOk(req'[r])
    BY <1>0, <2>1, <2>2, <2>3, <2>4 DEF RowOk, LoadPlaces, PagePlaces
  <2>6. QED
    BY <1>13, <2>1, <2>2, <2>3, <2>4, <2>5 DEF RowMove, FlightRow, HoldsRow, Wrote
<1>14. CASE C!PollHit(r)
  <2>1. w.pc = "poll"
    BY <1>14 DEF C!PollHit, C!At
  <2>2. w.op = "load"
    BY <1>0, <2>1, ReaderPlaces
  <2> DEFINE v == IF l1[InstOf[r]].live THEN l1[InstOf[r]].val ELSE l2
  <2>3. C!Land(r, v) /\ v \in C!Versions \cup {None}
    BY <1>14, <1>0 DEF C!PollHit
  <2> HIDE DEF v
  <2>4. /\ req' \in [Reqs -> ReqRow] /\ \A s \in Reqs : s # r => req'[s] = req[s]
        /\ req'[r].pc = "unmap" /\ req'[r].op = w.op
    BY <1>0, <2>3, LandMoves
  <2>5. RowOk(req'[r])
    BY <1>0, <2>1, <2>2, <2>4 DEF RowOk, LoadPlaces
  <2>6. QED
    BY <1>14, <2>1, <2>2, <2>4, <2>5 DEF RowMove, FlightRow, HoldsRow, Wrote
<1>15. CASE C!Handler(r)
  <2>1. w.pc = "handler"
    BY <1>15 DEF C!Handler, C!At
  <2>2. w.op = "page"
    BY <1>0, <2>1, ReaderPlaces
  <2>3. \/ req' = [req EXCEPT ![r].pc = "set1", ![r].val = db]
        \/ C!Goto(r, "done")
    BY <1>15, <1>0, <2>2 DEF C!Handler
  <2>4. CASE req' = [req EXCEPT ![r].pc = "set1", ![r].val = db]
    <3>1. /\ req' \in [Reqs -> ReqRow] /\ \A s \in Reqs : s # r => req'[s] = req[s]
          /\ req'[r].pc = "set1" /\ req'[r].op = w.op /\ req'[r].val = db /\ req'[r].under = w.under
      BY <1>0, <2>4, PutMoves DEF LoadPlaces, PagePlaces
    <3>2. RowOk(req'[r])
      BY <1>0, <2>1, <2>2, <2>4, <3>1 DEF RowOk, LoadPlaces, PagePlaces
    <3>3. QED
      BY <1>15, <2>1, <2>2, <2>4, <3>1, <3>2 DEF RowMove, RowOk, FlightRow, HoldsRow, Wrote
  <2>5. CASE C!Goto(r, "done")
    <3>1. /\ req' \in [Reqs -> ReqRow] /\ \A s \in Reqs : s # r => req'[s] = req[s]
          /\ req'[r].pc = "done" /\ req'[r].op = w.op /\ req'[r].val = w.val /\ req'[r].under = w.under
      BY <1>0, <2>5, GotoMoves DEF LoadPlaces, PagePlaces
    <3>2. RowOk(req'[r])
      BY <1>0, <2>1, <2>2, <2>5, <3>1 DEF RowOk, LoadPlaces, PagePlaces
    <3>3. QED
      BY <1>15, <2>1, <2>2, <2>5, <3>1, <3>2 DEF RowMove, FlightRow, HoldsRow, Wrote
  <2>6. QED
    BY <2>3, <2>4, <2>5
<1>16. CASE C!SAdd(r)
  <2>1. w.pc = "sadd"
    BY <1>16 DEF C!SAdd, C!At
  <2>2. w.op = "page"
    BY <1>0, <2>1, ReaderPlaces
  <2>3. C!Return(r, None)
    BY <1>16, <1>0, <2>2 DEF C!SAdd
  <2>4. /\ req' \in [Reqs -> ReqRow] /\ \A s \in Reqs : s # r => req'[s] = req[s]
        /\ req'[r].pc = "done" /\ req'[r].op = w.op /\ req'[r].val = None /\ req'[r].under = "no"
    BY <1>0, <2>3, ReturnMoves DEF LoadPlaces, PagePlaces
  <2>5. RowOk(req'[r])
    BY <1>0, <2>1, <2>2, <2>3, <2>4 DEF RowOk, LoadPlaces, PagePlaces
  <2>6. QED
    BY <1>16, <2>1, <2>2, <2>3, <2>4, <2>5 DEF RowMove, FlightRow, HoldsRow, Wrote
<1>17. CASE C!Join(r)
  <2>1. w.pc = "do" /\ flight[InstOf[r]] \in Reqs
    BY <1>17, <1>0 DEF C!Join, C!At, C!NoFlight
  <2>2. w.op = "load"
    BY <1>0, <2>1, ReaderPlaces
  <2> DEFINE v == [w EXCEPT !.pc = "join", !.leader = flight[InstOf[r]]]
  <2>3. req' = [req EXCEPT ![r] = v]
    BY <1>17 DEF C!Join
  <2>4. v \in ReqRow /\ v.pc = "join" /\ v.op = "load" /\ v.leader \in Reqs
    BY <1>0, <2>1, <2>2 DEF ReqRow, LoadPlaces
  <2> HIDE DEF v
  <2>5. req' \in [Reqs -> ReqRow] /\ req'[r] = v /\ \A s \in Reqs : s # r => req'[s] = req[s]
    BY <1>0, <2>3, <2>4
  <2>6. RowOk(v)
    BY <2>4 DEF RowOk, LoadPlaces
  <2>7. QED
    BY <2>2, <2>4, <2>5, <2>6 DEF RowMove, FlightRow, HoldsRow, Wrote
<1>18. CASE C!SetNX(r)
  <2>1. w.pc = "setnx"
    BY <1>18 DEF C!SetNX, C!At
  <2>2. w.op = "load"
    BY <1>0, <2>1, ReaderPlaces
  <2>3. \/ req' = [req EXCEPT ![r].pc = "load", ![r].under = "held"] /\ lock' = r
        \/ C!Goto(r, "poll")
        \/ C!Goto(r, "load")
    BY <1>18 DEF C!SetNX
  <2>4. CASE req' = [req EXCEPT ![r].pc = "load", ![r].under = "held"] /\ lock' = r
    <3> DEFINE v == [w EXCEPT !.pc = "load", !.under = "held"]
    <3>1. req' = [req EXCEPT ![r] = v] /\ lock' = r
      BY <2>4
    <3>2. v \in ReqRow /\ v.pc = "load" /\ v.op = "load"
      BY <1>0, <2>2 DEF ReqRow, LoadPlaces
    <3> HIDE DEF v
    <3>3. req' \in [Reqs -> ReqRow] /\ req'[r] = v /\ \A s \in Reqs : s # r => req'[s] = req[s]
      BY <1>0, <3>1, <3>2
    <3>4. RowOk(v)
      BY <3>2 DEF RowOk, LoadPlaces
    <3>5. QED
      BY <2>1, <2>2, <3>1, <3>2, <3>3, <3>4 DEF RowMove, FlightRow, HoldsRow, Wrote
  <2>5. ASSUME NEW pc \in {"poll", "load"}, C!Goto(r, pc) PROVE RowMove(r)
    <3>1. pc \in LoadPlaces /\ pc # "join" /\ pc \notin {"fill", "set1", "set2"} /\ pc # "reldel"
      BY DEF LoadPlaces
    <3>2. /\ req' \in [Reqs -> ReqRow] /\ \A s \in Reqs : s # r => req'[s] = req[s]
          /\ req'[r].pc = pc /\ req'[r].op = w.op /\ req'[r].val = w.val /\ req'[r].under = w.under
      BY <1>0, <2>5, <3>1, GotoMoves
    <3>3. RowOk(req'[r])
      BY <2>2, <3>1, <3>2 DEF RowOk
    <3>4. ~HoldsRow(req'[r])
      BY <1>0, <2>1, <3>2 DEF HoldsRow, RowOk
    <3>5. QED
      BY <2>1, <2>2, <3>1, <3>2, <3>3, <3>4 DEF RowMove, FlightRow, HoldsRow, Wrote
  <2>6. QED
    BY <2>3, <2>4, <2>5
<1>19. CASE C!TimedOut(r)
  <2>1. w.pc = "poll"
    BY <1>19 DEF C!TimedOut, C!At
  <2>2. w.op = "load"
    BY <1>0, <2>1, ReaderPlaces
  <2> DEFINE v == [w EXCEPT !.pc = "unmap", !.val = l1[InstOf[r]].val, !.late = TRUE]
  <2>3. req' = [req EXCEPT ![r] = v]
    BY <1>19 DEF C!TimedOut
  <2>4. v \in ReqRow /\ v.pc = "unmap" /\ v.op = "load"
    BY <1>0, <2>2 DEF ReqRow, LoadPlaces
  <2> HIDE DEF v
  <2>5. req' \in [Reqs -> ReqRow] /\ req'[r] = v /\ \A s \in Reqs : s # r => req'[s] = req[s]
    BY <1>0, <2>3, <2>4
  <2>6. RowOk(v)
    BY <2>4 DEF RowOk, LoadPlaces
  <2>7. QED
    BY <2>1, <2>2, <2>4, <2>5, <2>6 DEF RowMove, FlightRow, HoldsRow, Wrote
<1>20. QED
  BY <1>1, <1>2, <1>3, <1>4, <1>5, <1>6, <1>7, <1>8, <1>9, <1>10, <1>11, <1>12, <1>13, <1>14, <1>15, <1>16, <1>17, <1>18, <1>19 DEF C!ReadStep

LEMMA WriteMoves ==
    ASSUME RowsInv, NEW r \in Reqs, C!WriteStep(r)
    PROVE  RowMove(r)
<1> DEFINE w == req[r]
<1>0. /\ req \in [Reqs -> ReqRow] /\ w \in ReqRow /\ RowOk(w)
      /\ w.val \in C!Versions \cup {None} /\ w.op \in CacheOps /\ w.under \in {"no", "held", "expired"}
  BY RowType
<1>1. CASE C!Commit(r)
  <2>1. w.pc = "commit"
    BY <1>1 DEF C!Commit, C!At
  <2>2. w.op \in {"tag", "pattern"}
    BY <1>0, <2>1, ReaderPlaces
  <2>3. \/ C!Goto(r, "smembers") /\ w.op = "tag"
        \/ C!Goto(r, "del1")
    BY <1>1, <1>0, <2>2 DEF C!Commit
  <2>4. CASE C!Goto(r, "smembers") /\ w.op = "tag"
    <3>1. /\ req' \in [Reqs -> ReqRow] /\ \A s \in Reqs : s # r => req'[s] = req[s]
          /\ req'[r].pc = "smembers" /\ req'[r].op = w.op /\ req'[r].val = w.val /\ req'[r].under = w.under
      BY <1>0, <2>4, GotoMoves DEF LoadPlaces, TagPlaces, PatternPlaces
    <3>2. RowOk(req'[r])
      BY <1>0, <2>1, <2>2, <2>4, <3>1 DEF RowOk, LoadPlaces, TagPlaces, PatternPlaces
    <3>3. QED
      BY <1>1, <2>1, <2>2, <2>4, <3>1, <3>2 DEF RowMove, FlightRow, HoldsRow, Wrote
  <2>5. CASE C!Goto(r, "del1")
    <3>1. /\ req' \in [Reqs -> ReqRow] /\ \A s \in Reqs : s # r => req'[s] = req[s]
          /\ req'[r].pc = "del1" /\ req'[r].op = w.op /\ req'[r].val = w.val /\ req'[r].under = w.under
      BY <1>0, <2>5, GotoMoves DEF LoadPlaces, TagPlaces, PatternPlaces
    <3>2. RowOk(req'[r])
      BY <1>0, <2>1, <2>2, <2>5, <3>1 DEF RowOk, LoadPlaces, TagPlaces, PatternPlaces
    <3>3. QED
      BY <1>1, <2>1, <2>2, <2>5, <3>1, <3>2 DEF RowMove, FlightRow, HoldsRow, Wrote
  <2>6. QED
    BY <2>3, <2>4, <2>5
<1>2. CASE C!SMembers(r)
  <2>1. w.pc = "smembers"
    BY <1>2 DEF C!SMembers, C!At
  <2>2. w.op = "tag"
    BY <1>0, <2>1, ReaderPlaces
  <2>3. \/ C!Goto(r, "del1")
        \/ C!Goto(r, "deltag")
        \/ C!Goto(r, "done")
    BY <1>2, <1>0, <2>2 DEF C!SMembers
  <2>4. CASE C!Goto(r, "del1")
    <3>1. /\ req' \in [Reqs -> ReqRow] /\ \A s \in Reqs : s # r => req'[s] = req[s]
          /\ req'[r].pc = "del1" /\ req'[r].op = w.op /\ req'[r].val = w.val /\ req'[r].under = w.under
      BY <1>0, <2>4, GotoMoves DEF LoadPlaces, TagPlaces, PatternPlaces
    <3>2. RowOk(req'[r])
      BY <1>0, <2>1, <2>2, <2>4, <3>1 DEF RowOk, LoadPlaces, TagPlaces, PatternPlaces
    <3>3. QED
      BY <1>2, <2>1, <2>2, <2>4, <3>1, <3>2 DEF RowMove, FlightRow, HoldsRow, Wrote
  <2>5. CASE C!Goto(r, "deltag")
    <3>1. /\ req' \in [Reqs -> ReqRow] /\ \A s \in Reqs : s # r => req'[s] = req[s]
          /\ req'[r].pc = "deltag" /\ req'[r].op = w.op /\ req'[r].val = w.val /\ req'[r].under = w.under
      BY <1>0, <2>5, GotoMoves DEF LoadPlaces, TagPlaces, PatternPlaces
    <3>2. RowOk(req'[r])
      BY <1>0, <2>1, <2>2, <2>5, <3>1 DEF RowOk, LoadPlaces, TagPlaces, PatternPlaces
    <3>3. QED
      BY <1>2, <2>1, <2>2, <2>5, <3>1, <3>2 DEF RowMove, FlightRow, HoldsRow, Wrote
  <2>6. CASE C!Goto(r, "done")
    <3>1. /\ req' \in [Reqs -> ReqRow] /\ \A s \in Reqs : s # r => req'[s] = req[s]
          /\ req'[r].pc = "done" /\ req'[r].op = w.op /\ req'[r].val = w.val /\ req'[r].under = w.under
      BY <1>0, <2>6, GotoMoves DEF LoadPlaces, TagPlaces, PatternPlaces
    <3>2. RowOk(req'[r])
      BY <1>0, <2>1, <2>2, <2>6, <3>1 DEF RowOk, LoadPlaces, TagPlaces, PatternPlaces
    <3>3. QED
      BY <1>2, <2>1, <2>2, <2>6, <3>1, <3>2 DEF RowMove, FlightRow, HoldsRow, Wrote
  <2>7. QED
    BY <2>3, <2>4, <2>5, <2>6
<1>3. CASE C!ClearL1(r)
  <2>1. w.pc = "del1"
    BY <1>3 DEF C!ClearL1, C!At
  <2>2. w.op \in {"tag", "pattern"}
    BY <1>0, <2>1, ReaderPlaces
  <2>3. C!Goto(r, "del2")
    BY <1>3, <1>0, <2>2 DEF C!ClearL1
  <2>4. /\ req' \in [Reqs -> ReqRow] /\ \A s \in Reqs : s # r => req'[s] = req[s]
        /\ req'[r].pc = "del2" /\ req'[r].op = w.op /\ req'[r].val = w.val /\ req'[r].under = w.under
    BY <1>0, <2>3, GotoMoves DEF LoadPlaces, TagPlaces, PatternPlaces
  <2>5. RowOk(req'[r])
    BY <1>0, <2>1, <2>2, <2>3, <2>4 DEF RowOk, LoadPlaces, TagPlaces, PatternPlaces
  <2>6. QED
    BY <1>3, <2>1, <2>2, <2>3, <2>4, <2>5 DEF RowMove, FlightRow, HoldsRow, Wrote
<1>4. CASE C!ClearL2(r)
  <2>1. w.pc = "del2"
    BY <1>4 DEF C!ClearL2, C!At
  <2>2. w.op \in {"tag", "pattern"}
    BY <1>0, <2>1, ReaderPlaces
  <2>3. \/ C!Goto(r, "deltag") /\ w.op = "tag"
        \/ C!Goto(r, "done")
    BY <1>4, <1>0, <2>2 DEF C!ClearL2
  <2>4. CASE C!Goto(r, "deltag") /\ w.op = "tag"
    <3>1. /\ req' \in [Reqs -> ReqRow] /\ \A s \in Reqs : s # r => req'[s] = req[s]
          /\ req'[r].pc = "deltag" /\ req'[r].op = w.op /\ req'[r].val = w.val /\ req'[r].under = w.under
      BY <1>0, <2>4, GotoMoves DEF LoadPlaces, TagPlaces, PatternPlaces
    <3>2. RowOk(req'[r])
      BY <1>0, <2>1, <2>2, <2>4, <3>1 DEF RowOk, LoadPlaces, TagPlaces, PatternPlaces
    <3>3. QED
      BY <1>4, <2>1, <2>2, <2>4, <3>1, <3>2 DEF RowMove, FlightRow, HoldsRow, Wrote
  <2>5. CASE C!Goto(r, "done")
    <3>1. /\ req' \in [Reqs -> ReqRow] /\ \A s \in Reqs : s # r => req'[s] = req[s]
          /\ req'[r].pc = "done" /\ req'[r].op = w.op /\ req'[r].val = w.val /\ req'[r].under = w.under
      BY <1>0, <2>5, GotoMoves DEF LoadPlaces, TagPlaces, PatternPlaces
    <3>2. RowOk(req'[r])
      BY <1>0, <2>1, <2>2, <2>5, <3>1 DEF RowOk, LoadPlaces, TagPlaces, PatternPlaces
    <3>3. QED
      BY <1>4, <2>1, <2>2, <2>5, <3>1, <3>2 DEF RowMove, FlightRow, HoldsRow, Wrote
  <2>6. QED
    BY <2>3, <2>4, <2>5
<1>5. CASE C!DelTag(r)
  <2>1. w.pc = "deltag"
    BY <1>5 DEF C!DelTag, C!At
  <2>2. w.op = "tag"
    BY <1>0, <2>1, ReaderPlaces
  <2>3. C!Goto(r, "done")
    BY <1>5, <1>0, <2>2 DEF C!DelTag
  <2>4. /\ req' \in [Reqs -> ReqRow] /\ \A s \in Reqs : s # r => req'[s] = req[s]
        /\ req'[r].pc = "done" /\ req'[r].op = w.op /\ req'[r].val = w.val /\ req'[r].under = w.under
    BY <1>0, <2>3, GotoMoves DEF LoadPlaces, TagPlaces, PatternPlaces
  <2>5. RowOk(req'[r])
    BY <1>0, <2>1, <2>2, <2>3, <2>4 DEF RowOk, LoadPlaces, TagPlaces, PatternPlaces
  <2>6. QED
    BY <1>5, <2>1, <2>2, <2>3, <2>4, <2>5 DEF RowMove, FlightRow, HoldsRow, Wrote
<1>6. QED
  BY <1>1, <1>2, <1>3, <1>4, <1>5 DEF C!WriteStep

LEMMA StartMoves ==
    ASSUME RowsInv, NEW r \in Reqs, C!Start(r)
    PROVE  RowMove(r)
<1> DEFINE w == req[r]
           pc == IF w.op \in {"load", "page"} THEN "get1" ELSE "commit"
           st == l1[InstOf[r]].val # None /\ ~l1[InstOf[r]].live
           v == [w EXCEPT !.pc = pc, !.stale = st]
<1>0. req \in [Reqs -> ReqRow] /\ w \in ReqRow /\ RowOk(w) /\ w.op \in CacheOps /\ w.under \in {"no", "held", "expired"}
  BY RowType
<1>1. w.pc = "new" /\ req' = [req EXCEPT ![r] = v]
  BY DEF C!Start, C!At, C!Me
<1>2. pc \in LoadPlaces \cup PagePlaces \cup TagPlaces /\ st \in BOOLEAN
  BY DEF LoadPlaces, TagPlaces
<1>3. v \in ReqRow /\ v.pc = pc /\ v.op = w.op /\ v.under = w.under
  <2> HIDE DEF pc, st
  <2>1. QED
    BY <1>0, <1>2 DEF ReqRow
<1> HIDE DEF v
<1>4. req' \in [Reqs -> ReqRow] /\ req'[r] = v /\ \A s \in Reqs : s # r => req'[s] = req[s]
  BY <1>0, <1>1, <1>3
<1>5. RowOk(v)
  BY <1>0, <1>1, <1>3 DEF RowOk, CacheOps, LoadPlaces, PagePlaces, TagPlaces, PatternPlaces
<1>6. QED
  BY <1>0, <1>1, <1>3, <1>4, <1>5 DEF RowMove, FlightRow, HoldsRow, Wrote

\* The stores, the lock and the flights.
L1Entry == [val : C!Versions, live : BOOLEAN] \cup {C!NoEntry}

StoreTyped ==
    /\ l1 \in [Inst -> L1Entry]
    /\ l2 \in C!Versions \cup {None}
    /\ lock \in Reqs \cup {None} /\ flight \in [Inst -> Reqs \cup {None}]
    /\ tagged \in BOOLEAN /\ torn \in BOOLEAN /\ staleSet \in BOOLEAN /\ lateTag \in BOOLEAN
    /\ poisoned \subseteq Inst /\ cFaults \in 0..MaxFaults

LEMMA EntryTypes ==
    /\ C!NoEntry \in L1Entry /\ C!NoEntry.val = None /\ C!NoEntry.live = FALSE
    /\ \A v \in C!Versions : C!Fresh(v) \in L1Entry /\ C!Fresh(v).val = v /\ C!Fresh(v).live = TRUE
    /\ \A e \in L1Entry : e.live => e.val \in C!Versions
    /\ \A e \in L1Entry : e.live => [e EXCEPT !.live = FALSE] \in L1Entry /\ [e EXCEPT !.live = FALSE].val = e.val
<1>1. C!NoEntry.live = FALSE /\ C!NoEntry \in L1Entry /\ C!NoEntry.val = None
  BY DEF L1Entry, C!NoEntry
<1>2. \A v \in C!Versions : C!Fresh(v) \in L1Entry /\ C!Fresh(v).val = v /\ C!Fresh(v).live = TRUE
  BY DEF L1Entry, C!Fresh
<1>3. \A e \in L1Entry : e.live => e \in [val : C!Versions, live : BOOLEAN]
  BY <1>1 DEF L1Entry
<1>4. ASSUME NEW e \in [val : C!Versions, live : BOOLEAN]
      PROVE  /\ e.val \in C!Versions /\ [e EXCEPT !.live = FALSE] \in [val : C!Versions, live : BOOLEAN]
             /\ [e EXCEPT !.live = FALSE].val = e.val
  BY <1>4
<1>5. QED
  BY <1>1, <1>2, <1>3, <1>4 DEF L1Entry

LEMMA StoreType == RowsInv => StoreTyped
BY DEF RowsInv, StoreTyped, C!TypeOK, L1Entry

\* Every step keeps them typed.
LEMMA StoresStay ==
    ASSUME RowsInv, NEW r \in Reqs, C!Start(r) \/ C!ReadStep(r) \/ C!PollMiss(r) \/ C!WriteStep(r)
    PROVE  StoreTyped'
<1>0. StoreTyped /\ InstOf[r] \in Inst /\ l1[InstOf[r]] \in L1Entry /\ RowOk(req[r]) /\ MaxFaults \in Nat
  BY StoreType, RowType, IndexerAssumption DEF StoreTyped
<1> USE DEF C!Me, C!At
<1>1. CASE C!Join(r) \/ C!Share(r) \/ C!Load(r) \/ C!LoaderFails(r) \/ C!TimedOut(r) \/ C!Handler(r) \/ C!Commit(r) \/ C!Start(r)
  BY <1>0, <1>1 DEF C!Join, C!Share, C!Load, C!LoaderFails, C!TimedOut, C!Handler, C!Commit, C!Start, C!storeVars, C!lockVars, C!histVars, StoreTyped
<1>2. CASE C!GetL1(r)
  <2>1. l1' \in [Inst -> L1Entry]
    BY <1>0, <1>2, EntryTypes DEF C!GetL1, StoreTyped, C!DeleteL1, RowOk
  <2>2. QED
    BY <1>0, <1>2, <2>1 DEF C!GetL1, C!storeVars, C!lockVars, C!histVars, StoreTyped, C!NoteStale
<1>3. CASE C!PollMiss(r)
  <2>1. l1' \in [Inst -> L1Entry]
    BY <1>0, <1>3, EntryTypes DEF C!PollMiss, StoreTyped, C!DeleteL1, RowOk
  <2>2. QED
    BY <1>0, <1>3, <2>1 DEF C!PollMiss, C!storeVars, C!lockVars, C!histVars, StoreTyped, C!NoteStale
<1>4. CASE C!ClearL1(r)
  <2>1. l1' \in [Inst -> L1Entry]
    BY <1>0, <1>4, EntryTypes DEF C!ClearL1, StoreTyped, C!DeleteL1, RowOk
  <2>2. QED
    BY <1>0, <1>4, <2>1 DEF C!ClearL1, C!storeVars, C!lockVars, C!histVars, StoreTyped, C!NoteStale
<1>5. CASE C!Fill(r)
  <2>1. l1' \in [Inst -> L1Entry]
    BY <1>0, <1>5, EntryTypes DEF C!Fill, StoreTyped, C!DeleteL1, RowOk
  <2>2. QED
    BY <1>0, <1>5, <2>1 DEF C!Fill, C!storeVars, C!lockVars, C!histVars, StoreTyped, C!NoteStale
<1>6. CASE C!SetL1(r)
  <2>1. l1' \in [Inst -> L1Entry]
    BY <1>0, <1>6, EntryTypes DEF C!SetL1, StoreTyped, C!DeleteL1, RowOk
  <2>2. QED
    BY <1>0, <1>6, <2>1 DEF C!SetL1, C!storeVars, C!lockVars, C!histVars, StoreTyped, C!NoteStale
<1>7. CASE C!PollHit(r)
  <2>1. l1[InstOf[r]].live \/ l2 \in C!Versions
    BY <1>0, <1>7 DEF C!PollHit, StoreTyped
  <2>2. l1' \in [Inst -> L1Entry]
    BY <1>0, <1>7, <2>1, EntryTypes DEF C!PollHit, StoreTyped
  <2>3. QED
    BY <1>0, <1>7, <2>2 DEF C!PollHit, C!storeVars, C!lockVars, C!histVars, StoreTyped, C!NoteStale
<1>8. CASE C!GetL2(r)
  BY <1>0, <1>8 DEF C!GetL2, C!storeVars, C!lockVars, C!histVars, StoreTyped, C!RedisFails
<1>9. CASE C!Lead(r)
  BY <1>0, <1>9 DEF C!Lead, C!storeVars, C!lockVars, C!histVars, StoreTyped
<1>10. CASE C!Unmap(r)
  BY <1>0, <1>10 DEF C!Unmap, C!storeVars, C!lockVars, C!histVars, StoreTyped
<1>11. CASE C!SetNX(r)
  BY <1>0, <1>11 DEF C!SetNX, C!storeVars, C!lockVars, C!histVars, StoreTyped, C!RedisFails
<1>12. CASE C!LoaderPanics(r)
  BY <1>0, <1>12 DEF C!LoaderPanics, C!storeVars, C!lockVars, C!histVars, StoreTyped, C!RedisFails
<1>13. CASE C!SetL2(r)
  <2>1. l2' \in C!Versions \cup {None}
    BY <1>0, <1>13 DEF C!SetL2, StoreTyped, RowOk
  <2>5. staleSet' \in BOOLEAN
    BY <1>0, <1>13 DEF C!SetL2, StoreTyped, C!NoteStale
  <2>2. cFaults' \in 0..MaxFaults
    BY <1>0, <1>13 DEF C!SetL2, StoreTyped, C!RedisFails
  <2>3. /\ l1' = l1 /\ tagged' = tagged /\ lock' = lock /\ flight' = flight
        /\ torn' = torn /\ lateTag' = lateTag /\ poisoned' = poisoned
    BY <1>13 DEF C!SetL2, C!lockVars
  <2>4. QED
    BY <1>0, <2>1, <2>2, <2>3, <2>5 DEF StoreTyped
<1>14. CASE C!ReleaseGet(r)
  BY <1>0, <1>14 DEF C!ReleaseGet, C!storeVars, C!lockVars, C!histVars, StoreTyped, C!RedisFails
<1>15. CASE C!ReleaseDel(r)
  BY <1>0, <1>15 DEF C!ReleaseDel, C!storeVars, C!lockVars, C!histVars, StoreTyped, C!RedisFails
<1>16. CASE C!SAdd(r)
  <2>1. tagged' \in BOOLEAN
    BY <1>0, <1>16 DEF C!SAdd, StoreTyped
  <2>5. cFaults' \in 0..MaxFaults
    BY <1>0, <1>16 DEF C!SAdd, StoreTyped, C!RedisFails
  <2>2. lateTag' \in BOOLEAN
    BY <1>16 DEF C!SAdd
  <2>3. /\ l1' = l1 /\ l2' = l2 /\ lock' = lock /\ flight' = flight
        /\ torn' = torn /\ staleSet' = staleSet /\ poisoned' = poisoned
    BY <1>16 DEF C!SAdd, C!lockVars
  <2>4. QED
    BY <1>0, <2>1, <2>2, <2>3, <2>5 DEF StoreTyped
<1>17. CASE C!SMembers(r)
  BY <1>0, <1>17 DEF C!SMembers, C!storeVars, C!lockVars, C!histVars, StoreTyped, C!RedisFails
<1>18. CASE C!ClearL2(r)
  BY <1>0, <1>18 DEF C!ClearL2, C!storeVars, C!lockVars, C!histVars, StoreTyped, C!RedisFails
<1>19. CASE C!DelTag(r)
  <2>1. tagged' \in BOOLEAN
    BY <1>0, <1>19 DEF C!DelTag, StoreTyped
  <2>2. cFaults' \in 0..MaxFaults
    BY <1>0, <1>19 DEF C!DelTag, StoreTyped, C!RedisFails
  <2>3. /\ l1' = l1 /\ l2' = l2 /\ lock' = lock /\ flight' = flight
        /\ torn' = torn /\ staleSet' = staleSet /\ lateTag' = lateTag /\ poisoned' = poisoned
    BY <1>19 DEF C!DelTag, C!lockVars
  <2>4. QED
    BY <1>0, <2>1, <2>2, <2>3 DEF StoreTyped
<1>20. QED
  BY <1>1, <1>2, <1>3, <1>4, <1>5, <1>6, <1>7, <1>8, <1>9, <1>10, <1>11, <1>12, <1>13, <1>14, <1>15, <1>16, <1>17, <1>18, <1>19 DEF C!ReadStep, C!WriteStep

\* A step of a request, with what it does to the request.
CacheStep(r) == C!Start(r) \/ C!ReadStep(r) \/ C!PollMiss(r) \/ C!WriteStep(r)

LEMMA StepMoves ==
    ASSUME RowsInv, NEW r \in Reqs, CacheStep(r)
    PROVE  RowMove(r)
<1>1. CASE C!PollMiss(r)
  <2>1. req' = req
    BY <1>1 DEF C!PollMiss
  <2>2. QED
    BY <2>1, RowType DEF RowMove
<1>2. QED
  BY <1>1, ReadMoves, WriteMoves, StartMoves DEF CacheStep

LEMMA OnlyCommitCounts ==
    ASSUME NEW r \in Reqs, CacheStep(r), ~C!Commit(r)
    PROVE  db' = db
BY DEF CacheStep, C!ReadStep, C!WriteStep,
       C!GetL1, C!GetL2, C!Fill, C!Lead, C!Join, C!Share, C!Unmap, C!SetNX, C!Load, C!LoaderFails,
       C!LoaderPanics, C!SetL1, C!SetL2, C!ReleaseGet, C!ReleaseDel, C!PollHit, C!TimedOut,
       C!Handler, C!SAdd, C!PollMiss, C!Start, C!SMembers, C!ClearL1, C!ClearL2, C!DelTag

\* The version of the data is the number of writers that have committed.
LEMMA RequestRows ==
    ASSUME RowsInv, NEW r \in Reqs, CacheStep(r)
    PROVE  RowsInv'
<1>0. RowMove(r) /\ StoreTyped'
  BY StepMoves, StoresStay DEF CacheStep
<1>1. Committed \in SUBSET Reqs /\ Committed' \in SUBSET Reqs /\ IsFiniteSet(Reqs)
  BY VersionsType DEF Committed
<1>2. IsFiniteSet(Committed)
  BY <1>1, FS_Subset
<1>3. db' = Cardinality(Committed')
  <2>1. CASE C!Commit(r)
    <3>1. req[r].pc = "commit" /\ db' = db + 1 /\ \E pc \in {"smembers", "del1"} : C!Goto(r, pc)
      BY <2>1 DEF C!Commit, C!At
    <3>2. req'[r].pc \in {"smembers", "del1"} /\ req'[r].op = req[r].op
      BY <3>1, RowType, GotoMoves DEF TagPlaces
    <3>3. req[r].op \in {"tag", "pattern"}
      BY <3>1, RowType, ReaderPlaces
    <3>4. ~Wrote(req[r]) /\ Wrote(req'[r])
      BY <3>1, <3>2, <3>3 DEF Wrote
    <3>5. \A s \in Reqs : s # r => req'[s] = req[s]
      BY <1>0 DEF RowMove
    <3>6. Committed' = Committed \cup {r} /\ r \notin Committed
      BY <3>4, <3>5 DEF Committed
    <3>7. Cardinality(Committed \cup {r}) = Cardinality(Committed) + 1
      BY <1>2, <3>6, FS_AddElement
    <3>8. QED
      BY <3>1, <3>6, <3>7 DEF RowsInv
  <2>2. CASE ~C!Commit(r)
    <3>1. \A s \in Reqs : Wrote(req'[s]) <=> Wrote(req[s])
      BY <1>0, <2>2 DEF RowMove
    <3>2. Committed' = Committed
      BY <3>1 DEF Committed
    <3>3. QED
      BY <2>2, <3>2, OnlyCommitCounts DEF RowsInv
  <2>3. QED
    BY <2>1, <2>2
<1>4. Cardinality(Committed') \in 0..Cardinality(Reqs)
  <2>1. Cardinality(Committed') <= Cardinality(Reqs) /\ IsFiniteSet(Committed')
    BY <1>1, FS_Subset
  <2>2. Cardinality(Committed') \in Nat
    BY <2>1, FS_CardinalityType
  <2>3. QED
    BY <2>1, <2>2, VersionsType
<1>5. db' \in C!Versions
  BY <1>3, <1>4, VersionsType
<1>6. req' \in [Reqs -> ReqRow] /\ \A s \in Reqs : RowOk(req'[s])
  BY <1>0 DEF RowMove, RowsInv
<1>7. \A s \in Reqs : req'[s].val \in C!Versions \cup {None}
  BY <1>6 DEF ReqRow
<1>8. C!TypeOK'
  BY <1>0, <1>5, <1>7 DEF StoreTyped, L1Entry, C!TypeOK
<1>9. QED
  BY <1>3, <1>6, <1>8 DEF RowsInv

\* Entries and the lock expire.
Expiry == C!ExpireL2 \/ C!ExpireLock \/ \E i \in Inst : C!ExpireL1(i)

LEMMA ExpiryRows ==
    ASSUME RowsInv, Expiry
    PROVE  /\ RowsInv' /\ db' = db /\ flight' = flight /\ cFaults' = cFaults /\ staleSet' = staleSet
           /\ \A r \in Reqs : req'[r].pc = req[r].pc /\ req'[r].op = req[r].op
           /\ \A r \in Reqs : req'[r].under = IF r = lock /\ lock' # lock /\ req[r].under = "held"
                                              THEN "expired" ELSE req[r].under
<1>0. StoreTyped /\ req \in [Reqs -> ReqRow] /\ None \notin Reqs
  BY StoreType, VersionsType DEF RowsInv
<1>1. CASE C!ExpireL2 \/ \E i \in Inst : C!ExpireL1(i)
  <2>1. /\ db' = db /\ req' = req /\ lock' = lock /\ flight' = flight /\ tagged' = tagged /\ torn' = torn
        /\ staleSet' = staleSet /\ lateTag' = lateTag /\ poisoned' = poisoned /\ cFaults' = cFaults
    BY <1>1 DEF C!ExpireL1, C!ExpireL2, C!lockVars, C!histVars
  <2>2. l2' \in C!Versions \cup {None} /\ l1' \in [Inst -> L1Entry]
    <3>1. CASE C!ExpireL2
      BY <3>1, <1>0 DEF C!ExpireL2, StoreTyped
    <3>2. ASSUME NEW i \in Inst, C!ExpireL1(i) PROVE l2' \in C!Versions \cup {None} /\ l1' \in [Inst -> L1Entry]
      <4> DEFINE v == [l1[i] EXCEPT !.live = FALSE]
      <4>1. l1' = [l1 EXCEPT ![i] = v] /\ l2' = l2 /\ l1[i].live
        BY <3>2 DEF C!ExpireL1
      <4>2. v \in L1Entry
        BY <1>0, <4>1, EntryTypes DEF StoreTyped
      <4> HIDE DEF v
      <4>3. QED
        BY <1>0, <4>1, <4>2 DEF StoreTyped
    <3>3. QED
      BY <1>1, <3>1, <3>2
  <2>3. StoreTyped'
    BY <1>0, <2>1, <2>2 DEF StoreTyped
  <2>4. C!TypeOK'
    BY <2>1, <2>3 DEF StoreTyped, L1Entry, C!TypeOK, RowsInv
  <2>5. Committed' = Committed
    BY <2>1 DEF Committed
  <2>6. QED
    BY <2>1, <2>4, <2>5 DEF RowsInv
<1>2. CASE C!ExpireLock
  <2> DEFINE u == IF req[lock].under = "held" THEN "expired" ELSE req[lock].under
             v == [req[lock] EXCEPT !.under = u]
  <2>1. /\ lock \in Reqs /\ lock' = None /\ req' = [req EXCEPT ![lock] = v] /\ torn' \in BOOLEAN
        /\ db' = db /\ flight' = flight /\ tagged' = tagged /\ l1' = l1 /\ l2' = l2
        /\ staleSet' = staleSet /\ lateTag' = lateTag /\ poisoned' = poisoned /\ cFaults' = cFaults
    BY <1>0, <1>2 DEF C!ExpireLock, C!storeVars, StoreTyped
  <2>2. u \in {"no", "held", "expired"} /\ (req[lock].under = "no" => u = "no")
    BY <1>0, <2>1 DEF ReqRow
  <2>3. /\ v \in ReqRow /\ v.pc = req[lock].pc /\ v.op = req[lock].op /\ v.val = req[lock].val
        /\ v.leader = req[lock].leader /\ v.under = u
    <3> HIDE DEF u
    <3>1. QED
      BY <1>0, <2>1, <2>2 DEF ReqRow
  <2> HIDE DEF v
  <2>4. req' \in [Reqs -> ReqRow] /\ req'[lock] = v /\ \A s \in Reqs : s # lock => req'[s] = req[s]
    BY <1>0, <2>1, <2>3
  <2>5. \A r \in Reqs : req'[r].pc = req[r].pc /\ req'[r].op = req[r].op
    BY <2>3, <2>4
  <2>6. \A r \in Reqs : RowOk(req'[r])
    <3>1. RowOk(v)
      BY <2>1, <2>2, <2>3 DEF RowOk, RowsInv
    <3>2. QED
      BY <2>4, <3>1 DEF RowsInv
  <2>7. Committed' = Committed
    BY <2>5 DEF Committed, Wrote
  <2>8. StoreTyped'
    BY <1>0, <2>1 DEF StoreTyped
  <2>9. \A r \in Reqs : req'[r].val \in C!Versions \cup {None}
    BY <2>4 DEF ReqRow
  <2>10. C!TypeOK'
    BY <2>1, <2>8, <2>9 DEF StoreTyped, L1Entry, C!TypeOK, RowsInv
  <2>11. RowsInv'
    BY <2>1, <2>4, <2>6, <2>7, <2>10 DEF RowsInv
  <2>12. lock' # lock
    BY <1>0, <2>1
  <2>13. \A r \in Reqs : req'[r].under = IF r = lock /\ lock' # lock /\ req[r].under = "held"
                                              THEN "expired" ELSE req[r].under
    BY <2>3, <2>4, <2>12
  <2>14. QED
    BY <2>1, <2>5, <2>11, <2>13
<1>3. QED
  BY <1>1, <1>2 DEF Expiry

LEMMA RequestFlights ==
    ASSUME RowsInv, FlightInv, NEW r \in Reqs, CacheStep(r)
    PROVE  FlightInv'
<1>0. /\ RowMove(r) /\ None \notin Reqs /\ r # None /\ flight \in [Inst -> Reqs \cup {None}]
      /\ \A s \in Reqs : InstOf[s] \in Inst
  BY StepMoves, VersionsType, RowType
<1>1. CASE C!Lead(r)
  <2>1. flight[InstOf[r]] = None /\ flight' = [flight EXCEPT ![InstOf[r]] = r]
    BY <1>1 DEF C!Lead, C!NoFlight, C!Me
  <2>2. \A s \in Reqs : FlightRow(req[s]) => InstOf[s] # InstOf[r]
    BY <2>1, <1>0 DEF FlightInv
  <2>3. QED
    BY <2>1, <2>2, <1>0 DEF FlightInv, RowMove
<1>2. CASE C!Unmap(r)
  <2>1. /\ flight' = [flight EXCEPT ![InstOf[r]] = None] /\ req[r].pc = "unmap"
        /\ C!Return(r, req[r].val)
    BY <1>2 DEF C!Unmap, C!At, C!Me
  <2>2. req'[r].pc = "done"
    BY <2>1, RowType, ReturnMoves
  <2>3. FlightRow(req[r])
    BY <2>1, RowType, ReaderPlaces DEF FlightRow
  <2>4. \A s \in Reqs : s # r /\ FlightRow(req[s]) => InstOf[s] # InstOf[r]
    BY <2>3 DEF FlightInv
  <2>5. ~FlightRow(req'[r])
    BY <2>2 DEF FlightRow
  <2>6. QED
    BY <2>1, <2>4, <2>5, <1>0 DEF FlightInv, RowMove
<1>3. CASE ~C!Lead(r) /\ ~C!Unmap(r)
  <2>1. flight' = flight
    BY <1>3 DEF CacheStep, C!ReadStep, C!WriteStep, C!lockVars,
       C!GetL1, C!GetL2, C!Fill, C!Join, C!Share, C!SetNX, C!Load, C!LoaderFails, C!LoaderPanics, C!SetL1,
       C!SetL2, C!ReleaseGet, C!ReleaseDel, C!PollHit, C!TimedOut, C!Handler, C!SAdd, C!PollMiss,
       C!Start, C!Commit, C!SMembers, C!ClearL1, C!ClearL2, C!DelTag
  <2>2. QED
    BY <1>0, <1>3, <2>1 DEF FlightInv, RowMove
<1>4. QED
  BY <1>1, <1>2, <1>3

\* What a step may do to the lock and to the count of failing calls.
LEMMA LockMoves ==
    ASSUME NEW r \in Reqs, CacheStep(r)
    PROVE  /\ lock' = lock \/ (lock = None /\ lock' = r) \/ C!ReleaseDel(r) \/ C!LoaderPanics(r)
           /\ torn' = torn
           /\ cFaults' = cFaults \/ (cFaults < MaxFaults /\ cFaults' = cFaults + 1)
           /\ C!LoaderPanics(r) => cFaults' = cFaults + 1
<1>1. CASE C!SetNX(r)
  <2>1. lock' = lock \/ (lock = None /\ lock' = r)
    BY <1>1 DEF C!SetNX, C!LockFree
  <2>2. torn' = torn /\ ~C!LoaderPanics(r)
    BY <1>1 DEF C!SetNX, C!LoaderPanics, C!At
  <2>3. cFaults' = cFaults \/ (cFaults < MaxFaults /\ cFaults' = cFaults + 1)
    BY <1>1 DEF C!SetNX, C!RedisFails
  <2>4. QED
    BY <2>1, <2>2, <2>3
<1>2. CASE C!LoaderPanics(r) \/ C!ReleaseDel(r)
  BY <1>2 DEF C!LoaderPanics, C!ReleaseDel, C!RedisFails
<1>3. CASE ~C!SetNX(r) /\ ~C!LoaderPanics(r) /\ ~C!ReleaseDel(r)
  <2>1. lock' = lock /\ torn' = torn
    BY <1>3 DEF CacheStep, C!ReadStep, C!WriteStep, C!lockVars, C!histVars,
       C!GetL1, C!GetL2, C!Fill, C!Lead, C!Join, C!Share, C!Unmap, C!Load, C!LoaderFails, C!SetL1,
       C!SetL2, C!ReleaseGet, C!PollHit, C!TimedOut, C!Handler, C!SAdd, C!PollMiss, C!Start,
       C!Commit, C!SMembers, C!ClearL1, C!ClearL2, C!DelTag
  <2>2. cFaults' = cFaults \/ (cFaults < MaxFaults /\ cFaults' = cFaults + 1)
    BY <1>3 DEF CacheStep, C!ReadStep, C!WriteStep, C!histVars, C!RedisFails,
       C!GetL1, C!GetL2, C!Fill, C!Lead, C!Join, C!Share, C!Unmap, C!Load, C!LoaderFails, C!SetL1,
       C!SetL2, C!ReleaseGet, C!PollHit, C!TimedOut, C!Handler, C!SAdd, C!PollMiss, C!Start,
       C!Commit, C!SMembers, C!ClearL1, C!ClearL2, C!DelTag
  <2>3. QED
    BY <1>3, <2>1, <2>2
<1>4. QED
  BY <1>1, <1>2, <1>3

LEMMA RequestLock ==
    ASSUME RowsInv, LockInv, NEW r \in Reqs, CacheStep(r)
    PROVE  LockInv'
<1>0. RowMove(r) /\ None \notin Reqs /\ cFaults \in Nat
  BY StepMoves, VersionsType, StoreType, IndexerAssumption DEF StoreTyped
<1>1. SUFFICES ASSUME cFaults' = 0, ~torn',
                      NEW s \in Reqs, HoldsRow(req'[s]) \/ req'[s].pc = "reldel"
               PROVE  lock' = s
  BY DEF LockInv
<1>2. cFaults = 0 /\ ~torn /\ ~C!LoaderPanics(r)
  BY <1>0, <1>1, LockMoves
<1>3. \A t \in Reqs : HoldsRow(req[t]) \/ req[t].pc = "reldel" => lock = t
  BY <1>2 DEF LockInv
<1>4. s # r => lock = s
  BY <1>0, <1>1, <1>3 DEF RowMove
<1>5. s = r => lock' = r \/ lock = r
  BY <1>0, <1>1, <1>3 DEF RowMove
<1>6. CASE lock' = lock \/ (lock = None /\ lock' = r)
  BY <1>0, <1>4, <1>5, <1>6
<1>7. CASE C!ReleaseDel(r)
  <2>1. req[r].pc = "reldel" /\ C!Goto(r, "unmap")
    BY <1>7 DEF C!ReleaseDel, C!At
  <2>2. req'[r].pc = "unmap"
    BY <2>1, RowType, GotoMoves DEF LoadPlaces
  <2>3. lock = r /\ s # r
    BY <2>1, <2>2, <1>1, <1>3 DEF HoldsRow
  <2>4. QED
    BY <2>3, <1>4
<1>8. QED
  BY <1>2, <1>6, <1>7, LockMoves

\* What a step other than a commit may do to the stores.
LEMMA StoreMoves ==
    ASSUME RowsInv, NEW r \in Reqs, CacheStep(r), ~C!Commit(r), ~staleSet'
    PROVE  /\ ~staleSet
           /\ l2' = l2 \/ l2' \in {None, db}
           /\ \A i \in Inst : l1'[i] = l1[i] \/ l1'[i].val \in {None, db}
           /\ req[r].pc = "del1" => req'[r].pc = "del2" /\ l1'[InstOf[r]].val = None
           /\ req[r].pc = "del2" => l2' = None \/ cFaults' # cFaults
<1>0. StoreTyped /\ InstOf[r] \in Inst /\ cFaults \in Nat /\ l1 \in [Inst -> L1Entry]
  BY StoreType, RowType, IndexerAssumption DEF StoreTyped
<1>1. ~staleSet
  <2>1. staleSet => staleSet'
    BY DEF CacheStep, C!ReadStep, C!WriteStep, C!histVars, C!NoteStale,
       C!GetL1, C!GetL2, C!Fill, C!Lead, C!Join, C!Share, C!Unmap, C!SetNX, C!Load, C!LoaderFails,
       C!LoaderPanics, C!SetL1, C!SetL2, C!ReleaseGet, C!ReleaseDel, C!PollHit, C!TimedOut,
       C!Handler, C!SAdd, C!PollMiss, C!Start, C!Commit, C!SMembers, C!ClearL1, C!ClearL2,
       C!DelTag
  <2>2. QED
    BY <2>1
<1>2. l2' = l2 \/ l2' \in {None, db}
  <2>1. CASE C!SetL2(r)
    BY <2>1 DEF C!SetL2, C!NoteStale
  <2>2. CASE C!ClearL2(r)
    BY <2>2 DEF C!ClearL2
  <2>3. CASE ~C!SetL2(r) /\ ~C!ClearL2(r)
    BY <2>3 DEF CacheStep, C!ReadStep, C!WriteStep, C!storeVars,
       C!GetL1, C!GetL2, C!Fill, C!Lead, C!Join, C!Share, C!Unmap, C!SetNX, C!Load, C!LoaderFails,
       C!LoaderPanics, C!SetL1, C!ReleaseGet, C!ReleaseDel, C!PollHit, C!TimedOut, C!Handler,
       C!SAdd, C!PollMiss, C!Start, C!Commit, C!SMembers, C!ClearL1, C!DelTag
  <2>4. QED
    BY <2>1, <2>2, <2>3
<1>3. \A i \in Inst : l1'[i] = l1[i] \/ l1'[i].val \in {None, db}
  <2>1. CASE C!GetL1(r) \/ C!PollMiss(r) \/ C!ClearL1(r)
    <3>1. l1' = l1 \/ l1' = [l1 EXCEPT ![InstOf[r]] = C!NoEntry]
      BY <2>1 DEF C!GetL1, C!PollMiss, C!ClearL1, C!DeleteL1, C!Me
    <3>2. QED
      BY <3>1, <1>0, EntryTypes
  <2>2. CASE C!Fill(r) \/ C!SetL1(r) \/ C!PollHit(r)
    <3>1. l1' = l1 \/ l1' = [l1 EXCEPT ![InstOf[r]] = C!Fresh(db)]
      BY <2>2 DEF C!Fill, C!SetL1, C!PollHit, C!NoteStale, C!Me
    <3>2. C!Fresh(db).val = db
      BY DEF C!Fresh
    <3>3. QED
      BY <3>1, <3>2, <1>0
  <2>3. CASE ~(C!GetL1(r) \/ C!PollMiss(r) \/ C!ClearL1(r) \/ C!Fill(r) \/ C!SetL1(r) \/ C!PollHit(r))
    <3>1. l1' = l1
      BY <2>3 DEF CacheStep, C!ReadStep, C!WriteStep, C!storeVars,
         C!GetL2, C!Lead, C!Join, C!Share, C!Unmap, C!SetNX, C!Load, C!LoaderFails, C!LoaderPanics, C!SetL2,
         C!ReleaseGet, C!ReleaseDel, C!TimedOut, C!Handler, C!SAdd, C!Start, C!Commit, C!SMembers,
         C!ClearL2, C!DelTag
    <3>2. QED
      BY <3>1
  <2>4. QED
    BY <2>1, <2>2, <2>3
<1>4. ASSUME req[r].pc = "del1" PROVE req'[r].pc = "del2" /\ l1'[InstOf[r]].val = None
  <2>1. C!ClearL1(r)
    BY <1>4 DEF CacheStep, C!ReadStep, C!WriteStep, C!At,
       C!GetL1, C!GetL2, C!Fill, C!Lead, C!Join, C!Share, C!Unmap, C!SetNX, C!Load, C!LoaderFails,
       C!LoaderPanics, C!SetL1, C!SetL2, C!ReleaseGet, C!ReleaseDel, C!PollHit, C!TimedOut,
       C!Handler, C!SAdd, C!PollMiss, C!Start, C!Commit, C!SMembers, C!ClearL1, C!ClearL2,
       C!DelTag
  <2>2. C!Goto(r, "del2") /\ l1' = [l1 EXCEPT ![InstOf[r]] = C!NoEntry]
    BY <2>1 DEF C!ClearL1, C!DeleteL1, C!Me
  <2>3. req'[r].pc = "del2"
    BY <2>2, RowType, GotoMoves DEF TagPlaces
  <2>4. QED
    BY <2>2, <2>3, <1>0, EntryTypes
<1>5. ASSUME req[r].pc = "del2" PROVE l2' = None \/ cFaults' # cFaults
  <2>1. C!ClearL2(r)
    BY <1>5 DEF CacheStep, C!ReadStep, C!WriteStep, C!At,
       C!GetL1, C!GetL2, C!Fill, C!Lead, C!Join, C!Share, C!Unmap, C!SetNX, C!Load, C!LoaderFails,
       C!LoaderPanics, C!SetL1, C!SetL2, C!ReleaseGet, C!ReleaseDel, C!PollHit, C!TimedOut,
       C!Handler, C!SAdd, C!PollMiss, C!Start, C!Commit, C!SMembers, C!ClearL1, C!ClearL2,
       C!DelTag
  <2>2. QED
    BY <2>1, <1>0 DEF C!ClearL2, C!RedisFails
<1>6. QED
  BY <1>1, <1>2, <1>3, <1>4, <1>5

LEMMA RequestClears ==
    ASSUME RowsInv, ClearInv, NEW r \in Reqs, CacheStep(r)
    PROVE  ClearInv'
<1>0. /\ RowMove(r) /\ cFaults \in Nat /\ \A s \in Reqs : req'[s].op = req[s].op
      /\ \A s \in Reqs : s # r => req'[s] = req[s]
  BY StepMoves, StoreType, IndexerAssumption, SMTT(30) DEF StoreTyped, RowMove
<1>1. SUFFICES ASSUME \A s \in Reqs : req[s].op # "tag", cFaults' = 0, ~staleSet'
               PROVE  /\ l2' \in {None, db'} \/ Clearing({"del1", "del2"})'
                      /\ \A i \in Inst : (\A s \in Reqs : req[s].op = "pattern" => InstOf[s] = i) =>
                            l1'[i].val \in {None, db'} \/ Clearing({"del1"})'
  BY <1>0 DEF ClearInv
<1>2. CASE C!Commit(r)
  <2>1. req[r].pc = "commit" /\ C!Goto(r, IF req[r].op = "tag" THEN "smembers" ELSE "del1")
    BY <1>2 DEF C!Commit, C!At
  <2>2. req[r].op = "pattern" /\ C!Goto(r, "del1")
    BY <2>1, <1>1, RowType, ReaderPlaces
  <2>3. req'[r].pc = "del1" /\ req'[r].op = "pattern"
    BY <2>2, RowType, GotoMoves DEF TagPlaces
  <2>4. Clearing({"del1", "del2"})' /\ Clearing({"del1"})'
    BY <2>3 DEF Clearing
  <2>5. QED
    BY <2>4
<1>3. CASE ~C!Commit(r)
  <2>1. db' = db
    BY <1>3, OnlyCommitCounts
  <2>2. /\ ~staleSet /\ cFaults = 0 /\ cFaults' = cFaults
        /\ l2' = l2 \/ l2' \in {None, db}
        /\ \A i \in Inst : l1'[i] = l1[i] \/ l1'[i].val \in {None, db}
        /\ req[r].pc = "del1" => req'[r].pc = "del2" /\ l1'[InstOf[r]].val = None
        /\ req[r].pc = "del2" => l2' = None
    BY <1>0, <1>1, <1>3, LockMoves, StoreMoves
  <2>3. /\ l2 \in {None, db} \/ Clearing({"del1", "del2"})
        /\ \A i \in Inst : (\A s \in Reqs : req[s].op = "pattern" => InstOf[s] = i) =>
              l1[i].val \in {None, db} \/ Clearing({"del1"})
    BY <1>1, <2>2 DEF ClearInv
  <2>4. l2' \in {None, db'} \/ Clearing({"del1", "del2"})'
    <3>1. Clearing({"del1", "del2"}) => Clearing({"del1", "del2"})' \/ l2' = None
      BY <1>0, <2>2 DEF Clearing
    <3>2. QED
      BY <2>1, <2>2, <2>3, <3>1
  <2>5. ASSUME NEW i \in Inst, \A s \in Reqs : req[s].op = "pattern" => InstOf[s] = i
        PROVE  l1'[i].val \in {None, db'} \/ Clearing({"del1"})'
    <3>1. Clearing({"del1"}) => Clearing({"del1"})' \/ l1'[i].val = None
      BY <1>0, <2>2, <2>5 DEF Clearing
    <3>2. QED
      BY <2>1, <2>2, <2>3, <2>5, <3>1
  <2>6. QED
    BY <2>4, <2>5
<1>4. QED
  BY <1>2, <1>3

\* Expiry empties a store or frees the lock; it stores nothing.
LEMMA ExpiryKeeps ==
    ASSUME CacheInv, Expiry
    PROVE  CacheInv'
<1>0. /\ RowsInv' /\ db' = db /\ flight' = flight /\ cFaults' = cFaults /\ staleSet' = staleSet
      /\ \A r \in Reqs : req'[r].pc = req[r].pc /\ req'[r].op = req[r].op
      /\ \A r \in Reqs : req'[r].under = IF r = lock /\ lock' # lock /\ req[r].under = "held"
                                         THEN "expired" ELSE req[r].under
  BY ExpiryRows DEF CacheInv
<1>1. StoreTyped /\ None \notin Reqs
  BY StoreType, VersionsType DEF CacheInv
<1>2. FlightInv'
  BY <1>0 DEF CacheInv, FlightInv, FlightRow
<1>3. LockInv'
  <2>1. lock' = lock => torn' = torn
    BY <1>1 DEF Expiry, C!ExpireL1, C!ExpireL2, C!ExpireLock, C!histVars, C!lockVars, StoreTyped
  <2>2. lock' # lock => lock \in Reqs /\ (~torn' => ~torn /\ req[lock].pc # "reldel")
    BY <1>1 DEF Expiry, C!ExpireL1, C!ExpireL2, C!ExpireLock, C!lockVars, C!At, StoreTyped
  <2>3. SUFFICES ASSUME cFaults' = 0, ~torn', NEW s \in Reqs, HoldsRow(req'[s]) \/ req'[s].pc = "reldel"
                 PROVE  lock' = s
    BY DEF LockInv
  <2>4. cFaults = 0 /\ ~torn
    BY <1>0, <2>1, <2>2, <2>3
  <2>5. HoldsRow(req[s]) \/ req[s].pc = "reldel"
    BY <1>0, <2>3 DEF HoldsRow
  <2>6. lock = s
    BY <2>4, <2>5 DEF CacheInv, LockInv
  <2>7. lock' = lock
    BY <1>0, <2>2, <2>3, <2>6 DEF HoldsRow
  <2>8. QED
    BY <2>6, <2>7
<1>4. ClearInv'
  <2>1. \A pcs : Clearing(pcs)' <=> Clearing(pcs)
    BY <1>0 DEF Clearing
  <2>2. l2' \in {l2, None}
    BY DEF Expiry, C!ExpireL1, C!ExpireL2, C!ExpireLock, C!storeVars
  <2>3. \A i \in Inst : l1'[i].val = l1[i].val
    <3>1. ASSUME NEW j \in Inst, C!ExpireL1(j) PROVE \A i \in Inst : l1'[i].val = l1[i].val
      <4> DEFINE v == [l1[j] EXCEPT !.live = FALSE]
      <4>1. l1' = [l1 EXCEPT ![j] = v] /\ l1[j].live
        BY <3>1 DEF C!ExpireL1
      <4>2. v.val = l1[j].val
        BY <1>1, <4>1, EntryTypes DEF StoreTyped
      <4> HIDE DEF v
      <4>3. QED
        BY <1>1, <4>1, <4>2 DEF StoreTyped
    <3>2. C!ExpireL2 \/ C!ExpireLock => l1' = l1
      BY DEF C!ExpireL2, C!ExpireLock, C!storeVars
    <3>3. QED
      BY <3>1, <3>2 DEF Expiry
  <2>4. QED
    BY <1>0, <2>1, <2>2, <2>3 DEF CacheInv, ClearInv
<1>5. QED
  BY <1>0, <1>2, <1>3, <1>4 DEF CacheInv

LEMMA CacheStarts == C!Init => CacheInv
<1> SUFFICES ASSUME C!Init PROVE CacheInv
  OBVIOUS
<1>1. PICK ops \in Workloads :
        req = [r \in Reqs |-> [pc |-> "new", op |-> ops[r], val |-> None, under |-> "no",
                               leader |-> None, stale |-> FALSE, late |-> FALSE]]
  BY DEF C!Init
<1>2. ops \in [Reqs -> CacheOps]
  BY CacheAssumption DEF CacheOps
<1>3. req \in [Reqs -> ReqRow] /\ \A r \in Reqs : req[r].pc = "new" /\ req[r].val = None /\ req[r].under = "no"
  BY <1>1, <1>2 DEF ReqRow, LoadPlaces
<1>4. \A r \in Reqs : RowOk(req[r]) /\ ~FlightRow(req[r]) /\ ~HoldsRow(req[r]) /\ ~Wrote(req[r])
  BY <1>3 DEF RowOk, FlightRow, HoldsRow, Wrote, LoadPlaces, PagePlaces, TagPlaces, PatternPlaces
<1>5. Committed = {} /\ db = 0
  BY <1>4 DEF Committed, C!Init
<1>6. db = Cardinality(Committed) /\ db \in C!Versions
  BY <1>5, FS_EmptySet, VersionsType
<1>7. StoreTyped
  <2>1. l1 \in [Inst -> L1Entry] /\ l2 = None /\ lock = None /\ flight \in [Inst -> Reqs \cup {None}]
    BY EntryTypes DEF C!Init
  <2>2. tagged = FALSE /\ torn = FALSE /\ staleSet = FALSE /\ lateTag = FALSE /\ poisoned = {}
    BY DEF C!Init
  <2>3. cFaults \in 0..MaxFaults
    BY IndexerAssumption DEF C!Init
  <2>4. QED
    BY <2>1, <2>2, <2>3 DEF StoreTyped
<1>8. C!TypeOK
  BY <1>3, <1>6, <1>7 DEF StoreTyped, L1Entry, C!TypeOK
<1>9. ClearInv
  <2>1. l2 = None /\ \A i \in Inst : l1[i].val = None
    BY EntryTypes DEF C!Init
  <2>2. QED
    BY <2>1 DEF ClearInv
<1>10. LockInv
  BY <1>3, <1>4 DEF LockInv
<1>11. QED
  BY <1>3, <1>4, <1>6, <1>8, <1>9, <1>10 DEF CacheInv, RowsInv, FlightInv

LEMMA CacheStutters == CacheInv /\ UNCHANGED C!vars => CacheInv'
<1> SUFFICES ASSUME CacheInv, UNCHANGED C!vars PROVE CacheInv'
  OBVIOUS
<1>1. /\ db' = db /\ l1' = l1 /\ l2' = l2 /\ lock' = lock /\ tagged' = tagged /\ flight' = flight /\ req' = req
      /\ torn' = torn /\ staleSet' = staleSet /\ lateTag' = lateTag /\ poisoned' = poisoned /\ cFaults' = cFaults
  BY DEF C!vars, C!storeVars, C!lockVars, C!histVars
<1>2. C!TypeOK' /\ Committed' = Committed /\ \A pcs : Clearing(pcs)' <=> Clearing(pcs)
  BY <1>1 DEF CacheInv, RowsInv, C!TypeOK, Committed, Clearing
<1>3. RowsInv'
  BY <1>1, <1>2 DEF CacheInv, RowsInv
<1>4. FlightInv' /\ LockInv' /\ ClearInv'
  BY <1>1, <1>2 DEF CacheInv, FlightInv, LockInv, ClearInv
<1>5. QED
  BY <1>3, <1>4 DEF CacheInv

LEMMA CacheSteps == CacheInv /\ [C!Next]_(C!vars) => CacheInv'
<1> SUFFICES ASSUME CacheInv, [C!Next]_(C!vars) PROVE CacheInv'
  OBVIOUS
<1>1. ASSUME NEW r \in Reqs, CacheStep(r) PROVE CacheInv'
  BY <1>1, RequestRows, RequestFlights, RequestLock, RequestClears DEF CacheInv
<1>2. CASE Expiry
  BY <1>2, ExpiryKeeps
<1>3. CASE UNCHANGED C!vars
  BY <1>3, CacheStutters
<1>4. QED
  BY <1>1, <1>2, <1>3 DEF C!Next, CacheStep, Expiry

LEMMA CacheAccounts == CacheInv => CacheIsSound
<1> SUFFICES ASSUME CacheInv PROVE CacheIsSound
  OBVIOUS
<1>1. C!TypeOK /\ FlightInv /\ LockInv /\ ClearInv
  BY DEF CacheInv, RowsInv
<1>2. C!OneFlightPerInstance
  BY <1>1 DEF C!OneFlightPerInstance, C!InFlight, C!Me, FlightInv, FlightRow
<1>3. C!LockExcludes
  BY <1>1 DEF C!LockExcludes, C!Holds, LockInv, HoldsRow
<1>4. C!PatternInvalidationClears
  <2>1. SUFFICES ASSUME C!Writers("tag") = {}, C!Quiet, cFaults = 0, ~staleSet
                 PROVE  /\ l2 \in {None, db}
                        /\ \A i \in Inst : (\A r \in C!Writers("pattern") : C!Me(r) = i) => l1[i].val \in {None, db}
    BY DEF C!PatternInvalidationClears, C!Current
  <2>2. \A r \in Reqs : req[r].op # "tag"
    BY <2>1 DEF C!Writers
  <2>3. ~Clearing({"del1", "del2"}) /\ ~Clearing({"del1"})
    BY <2>1 DEF C!Quiet, Clearing
  <2>4. QED
    BY <1>1, <2>1, <2>2, <2>3 DEF ClearInv, C!Writers, C!Me
<1>5. QED
  BY <1>1, <1>2, <1>3, <1>4 DEF CacheIsSound

\* The cache: one request of an instance loads the key, the lock excludes the
\* instances unless a call failed or a release was torn, and an invalidation by
\* pattern leaves nothing older than the last write.
THEOREM CacheSound == C!Spec => []CacheIsSound
<1>1. C!Init => CacheInv
  BY CacheStarts
<1>2. CacheInv /\ [C!Next]_(C!vars) => CacheInv'
  BY CacheSteps
<1>3. CacheInv => CacheIsSound
  BY CacheAccounts
<1>4. QED
  BY <1>1, <1>2, <1>3, PTL DEF C!Spec

-----------------------------------------------------------------------------
\* The instances TLC explores: a step is a step of one component or of neither.
LEMMA BackendStepApart ==
    [BackendNext]_allVars => [Next]_vars /\ [C!Next]_(C!vars)
<1>1. UNCHANGED cacheVars => UNCHANGED C!vars
  BY DEF cacheVars, C!vars, C!storeVars, C!lockVars, C!histVars
<1>2. UNCHANGED allVars => UNCHANGED vars /\ UNCHANGED cacheVars
  BY DEF allVars
<1>3. BackendNext => [Next]_vars /\ [C!Next]_(C!vars)
  BY <1>1 DEF BackendNext
<1>4. QED
  BY <1>1, <1>2, <1>3

\* The runs' specification of both components has both properties.
THEOREM BackendTogether == BackendSpec => [](EventsAreAccountedFor /\ CacheIsSound)
<1>1. BackendInit => IndexerInv /\ CacheInv
  BY IndexerStarts, CacheStarts DEF BackendInit
<1>2. IndexerInv /\ CacheInv /\ [BackendNext]_allVars => (IndexerInv /\ CacheInv)'
  BY IndexerSteps, CacheSteps, BackendStepApart
<1>3. IndexerInv /\ CacheInv => EventsAreAccountedFor /\ CacheIsSound
  BY IndexerAccounts, CacheAccounts
<1>4. QED
  BY <1>1, <1>2, <1>3, PTL DEF BackendSpec

=============================================================================
