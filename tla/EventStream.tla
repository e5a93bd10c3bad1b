---------------------------- MODULE EventStream ----------------------------
(***************************************************************************)
(* How the events of an agent session reach its clients                    *)
(* (ProjectAISession in syte/ai/session_manager.py): a ring of retained    *)
(* events for replay, a bounded queue for each connection that drops its   *)
(* oldest frame when it is full, stream_gap frames that announce a loss,   *)
(* and clients that reconnect with the last id they have seen.             *)
(*                                                                         *)
(* A connection is a generator: it is suspended at every frame it yields,  *)
(* and events are broadcast meanwhile.  An event is its id; when turns end *)
(* is the subject of AgentSession, so here a connection may end after any  *)
(* live frame, which is then the terminal one of an idle session.          *)
(***************************************************************************)
EXTENDS Integers, Sequences, FiniteSets

CONSTANTS
    Clients,         \* browsers
    RingSize,        \* EVENT_BUFFER_SIZE (300)
    QueueSize,       \* SUBSCRIBER_QUEUE_SIZE (256)
    MaxEvents,       \* bound on the number of events
    MaxDisconnects   \* bound on the connections each client loses

ASSUME StreamConstantsAssumption ==
    /\ RingSize \in Nat \ {0}
    /\ QueueSize \in Nat \ {0} /\ QueueSize <= RingSize
    /\ MaxEvents \in Nat
    /\ MaxDisconnects \in Nat

Ids == 1..MaxEvents

VARIABLES
    seq,       \* _next_seq, the id of the newest event
    cold,      \* the events that are not deltas or status lines
    ring,      \* _ring
    conn,      \* where the client's connection is suspended
    backlog,   \* frames of the snapshot it has yet to send
    queue,     \* sub.queue
    dropped,   \* sub.dropped
    lastId,    \* the id the client has processed last
    got,       \* history: the ids the client has received
    lost,      \* history: what sub.dropped counts
    told,      \* history: the ids that stream_gap frames have stood for
    late,      \* history: the ids dropped after the terminal frame
    breaks     \* connections lost so far

client == <<lastId, got>>
streamVars == <<seq, cold, ring, conn, backlog, queue, dropped, lastId, got, lost,
          told, late, breaks>>

StreamTypeOK ==
    /\ seq \in 0..MaxEvents
    /\ cold \subseteq 1..seq
    /\ ring \in Seq(Ids) /\ Len(ring) <= RingSize
    /\ conn \in [Clients -> {"off", "hello", "replay", "live", "drain"}]
    /\ backlog \in [Clients -> Seq(Ids)]
    /\ queue \in [Clients -> Seq(Ids)]
    /\ \A c \in Clients : Len(queue[c]) <= QueueSize
    /\ dropped \in [Clients -> Nat]
    /\ lastId \in [Clients -> 0..MaxEvents]
    /\ got \in [Clients -> SUBSET Ids]
    /\ lost \in [Clients -> SUBSET Ids]
    /\ told \in [Clients -> SUBSET Ids]
    /\ late \in [Clients -> SUBSET Ids]
    /\ breaks \in [Clients -> 0..MaxDisconnects]

StreamInit ==
    /\ seq = 0
    /\ cold = {}
    /\ ring = <<>>
    /\ conn = [c \in Clients |-> "off"]
    /\ backlog = [c \in Clients |-> <<>>]
    /\ queue = [c \in Clients |-> <<>>]
    /\ dropped = [c \in Clients |-> 0]
    /\ lastId = [c \in Clients |-> 0]
    /\ got = [c \in Clients |-> {}]
    /\ lost = [c \in Clients |-> {}]
    /\ told = [c \in Clients |-> {}]
    /\ late = [c \in Clients |-> {}]
    /\ breaks = [c \in Clients |-> 0]

-----------------------------------------------------------------------------
(* _broadcast *)

\* (mutant) the subscriber joins when the replay is over
AttachedLive(c) == conn[c] \in {"live", "drain"}

\* The subscriber is in _subs from its first step to its last.
Attached(c) == conn[c] # "off"

Full(c) == Len(queue[c]) = QueueSize

\* deque(maxlen=...)
Retain(i) == IF Len(ring) = RingSize THEN Append(Tail(ring), i) ELSE Append(ring, i)

Broadcast(isCold) ==
    /\ seq < MaxEvents
    /\ seq' = seq + 1
    /\ \/ /\ isCold
          /\ cold' = cold \cup {seq + 1}
          /\ ring' = Retain(seq + 1)
       \/ /\ ~isCold
          /\ UNCHANGED <<cold, ring>>
    /\ LET overflows(c) == Attached(c) /\ Full(c) IN
       /\ queue' = [c \in Clients |->
             IF ~Attached(c) THEN queue[c]
             ELSE Append(IF Full(c) THEN Tail(queue[c]) ELSE queue[c], seq + 1)]
       /\ dropped' = [c \in Clients |-> dropped[c] + IF overflows(c) THEN 1 ELSE 0]
       /\ lost' = [c \in Clients |->
             IF overflows(c) THEN lost[c] \cup {Head(queue[c])} ELSE lost[c]]
       /\ late' = [c \in Clients |->
             IF overflows(c) /\ conn[c] = "drain" THEN late[c] \cup {Head(queue[c])} ELSE late[c]]
    /\ UNCHANGED <<conn, backlog, client, told, breaks>>

-----------------------------------------------------------------------------
(* subscribe *)

\* GET .../events?since_id=lastId; the retry frame is sent.
Connect(c) ==
    /\ conn[c] = "off"
    /\ conn' = [conn EXCEPT ![c] = "hello"]
    /\ UNCHANGED <<seq, cold, ring, backlog, queue, dropped, client, lost, told, late, breaks>>

\* (mutant) the gap in the replay window is seen one event too late
ExpiredLate(since) == since > 0 /\ ring # <<>> /\ since + 1 < ring[1] - 1

\* Events after the lastId have left the ring.
Expired(since) == since > 0 /\ ring # <<>> /\ since < ring[1] - 1

\* The frames of the ring that are newer than since: its ids ascend.
ReplayOf(since) ==
    LET first == {k \in 1..Len(ring) + 1 : \A j \in DOMAIN ring : ring[j] > since <=> j >= k} IN
    {SubSeq(ring, k, Len(ring)) : k \in first}

\* The ring is copied; a replay_window_expired frame announces what is gone.
Snapshot(c) ==
    /\ conn[c] = "hello"
    /\ told' = [told EXCEPT ![c] =
          IF Expired(lastId[c]) THEN @ \cup (lastId[c] + 1 .. ring[1] - 1) ELSE @]
    /\ \E replay \in ReplayOf(lastId[c]) :
          /\ backlog' = [backlog EXCEPT ![c] = replay]
          /\ conn' = [conn EXCEPT ![c] = IF replay = <<>> THEN "live" ELSE "replay"]
    /\ UNCHANGED <<seq, cold, ring, queue, dropped, client, lost, late, breaks>>

Deliver(c, i) ==
    /\ lastId' = [lastId EXCEPT ![c] = i]
    /\ got' = [got EXCEPT ![c] = @ \cup {i}]

ReplayFrame(c) ==
    /\ conn[c] = "replay"
    /\ Deliver(c, Head(backlog[c]))
    /\ backlog' = [backlog EXCEPT ![c] = Tail(@)]
    /\ conn' = [conn EXCEPT ![c] = IF Len(backlog[c]) = 1 THEN "live" ELSE @]
    /\ UNCHANGED <<seq, cold, ring, queue, dropped, lost, told, late, breaks>>

\* A backpressure frame first if anything was dropped, then the frame; the
\* frame may be the one after which an idle session ends the connection.
LiveFrame(c) ==
    /\ conn[c] = "live"
    /\ queue[c] # <<>>
    /\ Deliver(c, Head(queue[c]))
    /\ queue' = [queue EXCEPT ![c] = Tail(@)]
    /\ \/ /\ dropped[c] = 0
          /\ UNCHANGED <<dropped, lost, told>>
       \/ /\ dropped[c] > 0
          /\ dropped' = [dropped EXCEPT ![c] = 0]
          /\ lost' = [lost EXCEPT ![c] = {}]
          /\ told' = [told EXCEPT ![c] = @ \cup lost[c]]
    /\ \E next \in {"live", "drain"} : conn' = [conn EXCEPT ![c] = next]
    /\ UNCHANGED <<seq, cold, ring, backlog, late, breaks>>

\* The frames that are left after the terminal one.
DrainFrame(c) ==
    /\ conn[c] = "drain"
    /\ queue[c] # <<>>
    /\ Deliver(c, Head(queue[c]))
    /\ queue' = [queue EXCEPT ![c] = Tail(@)]
    /\ UNCHANGED <<seq, cold, ring, conn, backlog, dropped, lost, told, late, breaks>>

\* The subscriber is forgotten with its queue and its count.
Forget(c) ==
    /\ conn' = [conn EXCEPT ![c] = "off"]
    /\ backlog' = [backlog EXCEPT ![c] = <<>>]
    /\ queue' = [queue EXCEPT ![c] = <<>>]
    /\ dropped' = [dropped EXCEPT ![c] = 0]
    /\ lost' = [lost EXCEPT ![c] = {}]

DrainEnd(c) ==
    /\ conn[c] = "drain"
    /\ queue[c] = <<>>
    /\ Forget(c)
    /\ UNCHANGED <<seq, cold, ring, client, told, late, breaks>>

\* The connection breaks, or the client goes away and comes back.
Disconnect(c) ==
    /\ conn[c] # "off"
    /\ breaks[c] < MaxDisconnects
    /\ breaks' = [breaks EXCEPT ![c] = @ + 1]
    /\ Forget(c)
    /\ UNCHANGED <<seq, cold, ring, client, told, late>>

-----------------------------------------------------------------------------
Send(c) == ReplayFrame(c) \/ LiveFrame(c) \/ DrainFrame(c) \/ DrainEnd(c)

\* Every event was emitted and every client waits for more.
Quiet ==
    /\ seq = MaxEvents
    /\ \A c \in Clients : conn[c] = "live" /\ queue[c] = <<>> /\ breaks[c] = MaxDisconnects
    /\ UNCHANGED streamVars

StreamNext ==
    \/ \E isCold \in BOOLEAN : Broadcast(isCold)
    \/ \E c \in Clients : Connect(c) \/ Snapshot(c) \/ Send(c) \/ Disconnect(c)
    \/ Quiet

StreamSpec == StreamInit /\ [][StreamNext]_streamVars

\* Clients reconnect (EventSource does by itself) and connections are served.
StreamFairness == \A c \in Clients :
    WF_streamVars(Connect(c)) /\ WF_streamVars(Snapshot(c)) /\ WF_streamVars(Send(c))

StreamFairSpec == StreamSpec /\ StreamFairness

-----------------------------------------------------------------------------
(* Properties *)

\* Between the first and the newest id a client has received, a cold event
\* it has not received was announced as lost: a client that backfills on
\* stream_gap misses nothing, however it was disconnected and overrun,
\* except for what overflows while the last frames of a turn are sent.
NoSilentLoss ==
    \A c \in Clients : \A i \in cold \ (got[c] \cup told[c] \cup late[c]) :
        (\A g \in got[c] : g < i) \/ (\A g \in got[c] : i < g)

\* A client that keeps reconnecting catches up: time and again there is no
\* cold event, younger than one it has, that it has neither received nor was
\* told of, unless it was dropped while the last frames of a turn were sent.
CatchesUp ==
    \A c \in Clients :
        []<>(\A i \in cold \ (got[c] \cup told[c] \cup late[c]) : \A g \in got[c] : i < g)
=============================================================================
