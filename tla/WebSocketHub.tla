---------------------------- MODULE WebSocketHub ----------------------------
(***************************************************************************)
(* The WebSocket hub (backend/handlers/websocket.go, on the connections of *)
(* backend/utils/websocket.go): one goroutine owns the subscribers, and    *)
(* each connection has a reader, a writer and a timer of its token.  They  *)
(* meet in channels: the hub picks any that is ready, so an unregistration *)
(* may overtake the registration it follows.  A send on a closed channel,  *)
(* or a map read while another goroutine writes it, ends the process.      *)
(***************************************************************************)
EXTENDS Integers, Sequences, FiniteSets, FiniteSetsExt

CONSTANTS
    Conns, Topics,
    SendCap, BroadcastCap,     \* capacities of sub.send and hub.broadcast
    MaxSeq                     \* bounds the events sent

VARIABLES
    sub,               \* sub[c]: [topics, send, open, done, closed, since]
    reader, writer, expiry,    \* what the goroutines of c do
    subscribers,       \* connections in the map of the hub
    register, unregister,      \* connections in the channels; unregister[c] counts
    broadcast,         \* queued [topic, seq]
    seq,               \* events numbered so far
    delivered,         \* delivered[c]: the sequence numbers written to c
    missed,            \* history: missed[c]: numbers that did not fit the queue of c
    crashed

vars == <<sub, reader, writer, expiry, subscribers, register, unregister, broadcast, seq, delivered, missed, crashed>>

AuthExpiring == 0      \* the event has no sequence number

TypeOK ==
    /\ subscribers \subseteq Conns /\ register \subseteq Conns
    /\ seq \in 0..MaxSeq
    /\ \A c \in Conns :
        /\ Len(sub[c].send) <= SendCap
        /\ unregister[c] \in 0..MaxSeq + 2
        /\ reader[c] \in {"new", "read", "edit", "gone"}
        /\ writer[c] \in {"new", "write", "gone"}
        /\ expiry[c] \in {"new", "warn", "send", "expire", "gone"}
    /\ Len(broadcast) <= BroadcastCap

newSubscriber == [topics |-> {}, send |-> <<>>, open |-> TRUE, done |-> FALSE, closed |-> FALSE]

Init ==
    /\ sub = [c \in Conns |-> newSubscriber]
    /\ reader = [c \in Conns |-> "new"] /\ writer = reader /\ expiry = reader
    /\ subscribers = {} /\ register = {}
    /\ unregister = [c \in Conns |-> 0]
    /\ broadcast = <<>> /\ seq = 0
    /\ delivered = [c \in Conns |-> <<>>]
    /\ missed = [c \in Conns |-> {}]
    /\ crashed = FALSE

\* After the check of the token and the upgrade.  A token with less than a
\* minute to live gets no warning.
HandleWS(c, topics, loop) ==
    /\ reader[c] = "new"
    /\ sub' = [sub EXCEPT ![c].topics = topics]
    /\ register' = register \cup {c}
    /\ reader' = [reader EXCEPT ![c] = "read"]
    /\ expiry' = [expiry EXCEPT ![c] = loop]
    /\ UNCHANGED <<writer, subscribers, unregister, broadcast, seq, delivered, missed, crashed>>

\* The client closes, the read fails, or the client writes too much, which
\* closes the connection here.
ReaderEnds(c, closes) ==
    /\ reader[c] = "read"
    /\ sub' = [sub EXCEPT ![c].closed = @ \/ closes]
    /\ reader' = [reader EXCEPT ![c] = "gone"]
    /\ unregister' = [unregister EXCEPT ![c] = @ + 1]
    /\ UNCHANGED <<writer, expiry, subscribers, register, broadcast, seq, delivered, missed, crashed>>

\* handleClientMessage writes the map of topics without the lock.
EditTopics(c) ==
    /\ reader[c] = "read" /\ ~sub[c].closed
    /\ reader' = [reader EXCEPT ![c] = "edit"]
    /\ UNCHANGED <<sub, writer, expiry, subscribers, register, unregister, broadcast, seq, delivered, missed, crashed>>

TopicsEdited(c, t) ==
    /\ reader[c] = "edit"
    /\ sub' = [sub EXCEPT ![c].topics = IF t \in @ THEN @ \ {t} ELSE @ \cup {t}]
    /\ reader' = [reader EXCEPT ![c] = "read"]
    /\ UNCHANGED <<writer, expiry, subscribers, register, unregister, broadcast, seq, delivered, missed, crashed>>

-----------------------------------------------------------------------------
RunRegister(c) ==
    /\ c \in register
    /\ register' = register \ {c}
    /\ subscribers' = subscribers \cup {c}
    /\ writer' = [writer EXCEPT ![c] = "write"]
    /\ UNCHANGED <<sub, reader, expiry, unregister, broadcast, seq, delivered, missed, crashed>>

Removed(c) == subscribers \ {c}

\* A second unregistration, or one before the registration, finds nothing.
RunUnregister(c) ==
    /\ unregister[c] > 0
    /\ unregister' = [unregister EXCEPT ![c] = @ - 1]
    /\ sub' = IF c \in subscribers THEN [sub EXCEPT ![c].closed = TRUE, ![c].done = TRUE, ![c].open = FALSE] ELSE sub
    /\ subscribers' = Removed(c)
    /\ UNCHANGED <<reader, writer, expiry, register, broadcast, seq, delivered, missed, crashed>>

Full(c) == Len(sub[c].send) = SendCap

\* The queues after n has been sent to the connections of the set; a send to
\* a queue that the hub has closed would end the process.
Sent(to, n) == [c \in Conns |-> IF c \in to /\ ~Full(c) THEN [sub[c] EXCEPT !.send = Append(@, n)] ELSE sub[c]]

Dropped_Silent(full) == {}

\* The subscribers that fan-out gives up.
Dropped(full) == full

\* A subscriber whose topics are being written may count with the new topics
\* or with the old ones, or the runtime ends the process.
FanOut(racers) ==
    /\ broadcast # <<>>
    /\ racers \subseteq {c \in subscribers : reader[c] = "edit"}
    /\ LET m == Head(broadcast)
           matching == {c \in subscribers : m.topic \in sub[c].topics \/ "all" \in sub[c].topics}
           to == (matching \ racers) \cup (racers \ matching)
           full == {c \in to : Full(c)}
       IN /\ sub' = Sent(to, m.seq)
          /\ unregister' = [c \in Conns |-> IF c \in Dropped(full) THEN unregister[c] + 1 ELSE unregister[c]]
          /\ missed' = [c \in Conns |-> IF c \in full THEN missed[c] \cup {m.seq} ELSE missed[c]]
          /\ crashed' \in IF \E c \in to : ~sub[c].open THEN {TRUE} ELSE {FALSE, racers # {}}
    /\ broadcast' = Tail(broadcast)
    /\ UNCHANGED <<reader, writer, expiry, subscribers, register, seq, delivered>>

\* Heartbeats that do not fit are dropped.
SendHeartbeat ==
    /\ seq < MaxSeq
    /\ seq' = seq + 1
    /\ sub' = Sent(subscribers, seq + 1)
    /\ crashed' = \E c \in subscribers : ~sub[c].open
    /\ UNCHANGED <<reader, writer, expiry, subscribers, register, unregister, broadcast, delivered, missed>>

WriterLoop(c, ok) ==
    /\ writer[c] = "write"
    /\ IF sub[c].send = <<>>
       THEN /\ ~sub[c].open
            /\ writer' = [writer EXCEPT ![c] = "gone"]
            /\ UNCHANGED <<sub, unregister, delivered>>
       ELSE /\ sub' = [sub EXCEPT ![c].send = Tail(@)]
            /\ IF sub[c].closed \/ ~ok
               THEN /\ unregister' = [unregister EXCEPT ![c] = @ + 1]
                    /\ writer' = [writer EXCEPT ![c] = "gone"]
                    /\ UNCHANGED delivered
               ELSE /\ delivered' = [delivered EXCEPT ![c] = Append(@, Head(sub[c].send))]
                    /\ UNCHANGED <<unregister, writer>>
    /\ UNCHANGED <<reader, expiry, subscribers, register, broadcast, seq, missed, crashed>>

\* The number is taken before the event is queued, or dropped.
Broadcast(t) ==
    /\ seq < MaxSeq
    /\ seq' = seq + 1
    /\ broadcast' = IF Len(broadcast) < BroadcastCap THEN Append(broadcast, [topic |-> t, seq |-> seq + 1]) ELSE broadcast
    /\ UNCHANGED <<sub, reader, writer, expiry, subscribers, register, unregister, delivered, missed, crashed>>

-----------------------------------------------------------------------------
\* expiryLoop: each wait also ends when the hub closes done.
ExpiryTimer(c) ==
    /\ expiry[c] \in {"warn", "expire"}
    /\ IF expiry[c] = "warn" THEN expiry' = [expiry EXCEPT ![c] = "send"] /\ UNCHANGED sub
       ELSE expiry' = [expiry EXCEPT ![c] = "gone"] /\ sub' = [sub EXCEPT ![c].closed = TRUE]
    /\ UNCHANGED <<reader, writer, subscribers, register, unregister, broadcast, seq, delivered, missed, crashed>>

ExpiryDone(c) ==
    /\ expiry[c] \in {"warn", "send", "expire"} /\ sub[c].done
    /\ expiry' = [expiry EXCEPT ![c] = "gone"]
    /\ UNCHANGED <<sub, reader, writer, subscribers, register, unregister, broadcast, seq, delivered, missed, crashed>>

\* The channel may be closed when the send is chosen.
ExpirySend(c) ==
    /\ expiry[c] = "send"
    /\ IF sub[c].open
       THEN /\ ~Full(c)
            /\ sub' = [sub EXCEPT ![c].send = Append(@, AuthExpiring)]
            /\ expiry' = [expiry EXCEPT ![c] = "expire"]
            /\ UNCHANGED crashed
       ELSE crashed' = TRUE /\ UNCHANGED <<sub, expiry>>
    /\ UNCHANGED <<reader, writer, subscribers, register, unregister, broadcast, seq, delivered, missed>>

Next ==
    /\ ~crashed
    /\ \/ \E c \in Conns :
            \/ \E topics \in {{"all"}} \cup {{t} : t \in Topics}, loop \in {"warn", "expire"} : HandleWS(c, topics, loop)
            \/ \E closes \in BOOLEAN : ReaderEnds(c, closes)
            \/ EditTopics(c) \/ \E t \in Topics : TopicsEdited(c, t)
            \/ RunRegister(c) \/ RunUnregister(c)
            \/ \E ok \in BOOLEAN : WriterLoop(c, ok)
            \/ ExpiryTimer(c) \/ ExpiryDone(c) \/ ExpirySend(c)
       \/ \E racers \in SUBSET Conns : FanOut(racers)
       \/ SendHeartbeat
       \/ \E t \in Topics : Broadcast(t)

Spec == Init /\ [][Next]_vars

-----------------------------------------------------------------------------
\* Messages are delivered at most once.  A slow subscriber is disconnected,
\* not skipped: while it is registered and nobody has asked to remove it, it
\* has missed no event of its topics.  The hub itself never sends on a queue
\* it has closed: what ends the process is a token's warning after the
\* removal, or a subscription changed while an event is fanned out.
SlowAreDisconnected ==
    /\ \A c \in Conns : \A i, j \in DOMAIN delivered[c] :
        i < j /\ delivered[c][i] = delivered[c][j] => delivered[c][i] = AuthExpiring
    /\ \A c \in subscribers : missed[c] # {} => unregister[c] > 0
    /\ \A c \in subscribers : sub[c].open
    /\ crashed => \E c \in Conns : (expiry[c] = "send" /\ sub[c].done) \/ reader[c] = "edit"
=============================================================================
