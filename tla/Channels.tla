------------------------------- MODULE Channels -------------------------------
(***************************************************************************)
(* A broadcast channel of a project's subtab and one browser that listens  *)
(* to it (DeltaBatcher, Session and Channel of syte/sse_core.py, with the  *)
(* subtab and channel routes of syte/stream_api.py).  Token deltas wait in *)
(* a buffer per type until a timer, a cap or a cold event sends them;      *)
(* frames go to a bounded queue, and cold ones to a ring from which a      *)
(* browser that reconnects is served.  The queue may be shorter than the   *)
(* ring.  A frame is <<counter, id>>: the agent session puts frames with   *)
(* ids of its own into the same queue.                                     *)
(***************************************************************************)
EXTENDS Integers, Sequences, FiniteSets, SequencesExt

CONSTANTS
    HotTypes,     \* token_delta, thought_delta, thinking_delta
    FlushCount,   \* HOT_FLUSH_COUNT (32)
    HistorySize,  \* CHANNEL_HISTORY_SIZE (300)
    SessionQueue, \* SUBSCRIBER_QUEUE_SIZE (256)
    MaxPushes,    \* bound on events broadcast
    MaxMirrored,  \* bound on events of the agent session
    MaxConnects   \* bound on connections of the browser

ASSUME ChannelsAssumption ==
    /\ HotTypes \cap {"cold", "status"} = {}
    /\ FlushCount \in Nat \ {0} /\ HistorySize \in Nat \ {0} /\ SessionQueue \in Nat \ {0}
    /\ MaxPushes \in Nat /\ MaxMirrored \in Nat /\ MaxConnects \in Nat

VARIABLES
    pushed,       \* history: the type of each event, in the order of the calls
    buffers,      \* _batcher._buf: type and events of each entry, oldest entry first
    frames,       \* history: type and events of each frame; its id is its place
    history,      \* _ring: ids of the retained frames, which it has in ascending order
    mirrored,     \* frames of the agent session so far
    listener,     \* the Session: whether it is connected, queue, dropped, and the frame
                  \* it holds back while it sends a stream_gap
    browser       \* the last id it has received, all it has received, its connections

chanVars == <<pushed, buffers, frames, history, mirrored, listener, browser>>

Types == HotTypes \cup {"cold", "status"}
Piece0 == [type : Types, events : Seq(1..MaxPushes)]
Gap == <<"gap", 0>>
Frames == ({"channel", "agent"} \X (1..(MaxPushes + MaxMirrored))) \cup {Gap}
NoFrame == <<"none", 0>>
Closed == [open |-> FALSE, queue |-> <<>>, dropped |-> 0, held |-> NoFrame]

ChanTypeOK ==
    /\ pushed \in Seq(Types) /\ Len(pushed) <= MaxPushes
    /\ buffers \in Seq(Piece0) /\ \A i \in DOMAIN buffers : buffers[i].type \in HotTypes
    /\ frames \in Seq(Piece0)
    /\ history \in SUBSET DOMAIN frames /\ Cardinality(history) <= HistorySize
    /\ mirrored \in 0..MaxMirrored
    /\ listener \in [open : BOOLEAN, queue : Seq(Frames), dropped : Nat,
                     held : Frames \cup {NoFrame}]
    /\ Len(listener.queue) <= SessionQueue
    /\ browser \in [cursor : 0..(MaxPushes + MaxMirrored), got : Seq(Frames), connects : 0..MaxConnects]

ChanInit ==
    /\ pushed = <<>> /\ buffers = <<>> /\ frames = <<>> /\ history = {}
    /\ mirrored = 0
    /\ listener = Closed
    /\ browser = [cursor |-> 0, got |-> <<>>, connects |-> 0]

-----------------------------------------------------------------------------
(* Channel._broadcast_event *)

\* Session._enqueue, of one frame after the other: a full queue drops its
\* oldest frame.
EnqueueAll(s, fs) ==
    LET all == s.queue \o fs
        over == Max({0, Len(all) - SessionQueue})
    IN [s EXCEPT !.queue = SubSeq(all, over + 1, Len(all)), !.dropped = @ + over]

\* The newest ids, as many as the ring holds.
Retained(ids) == {n \in ids : Cardinality({m \in ids : m >= n}) <= HistorySize}

\* Deltas and status lines are not retained.
Emit(pieces) ==
    LET cold == {i \in DOMAIN pieces : pieces[i].type = "cold"} IN
    /\ frames' = frames \o pieces
    /\ history' = Retained(history \cup {Len(frames) + i : i \in cold})
    /\ listener' = IF listener.open
                   THEN EnqueueAll(listener, [i \in DOMAIN pieces |-> <<"channel", Len(frames) + i>>])
                   ELSE listener

(* DeltaBatcher *)

\* An entry has a timer from its first event on, as a loop is running.
Entry(t) == {i \in DOMAIN buffers : buffers[i].type = t}

Buffered(t, n) ==
    IF Entry(t) = {} THEN Append(buffers, [type |-> t, events |-> <<n>>])
    ELSE [i \in DOMAIN buffers |->
             IF i \in Entry(t) THEN [buffers[i] EXCEPT !.events = Append(@, n)] ELSE buffers[i]]

\* push: a burst of too many events, or of too many characters, is sent.
PushDelta(t) ==
    /\ Len(pushed) < MaxPushes
    /\ pushed' = Append(pushed, t)
    /\ LET entries == Buffered(t, Len(pushed) + 1)
           i == CHOOSE j \in DOMAIN entries : entries[j].type = t
       IN \/ /\ Len(entries[i].events) < FlushCount
             /\ buffers' = entries
             /\ UNCHANGED <<frames, history, listener>>
          \/ /\ buffers' = RemoveAt(entries, i)
             /\ Emit(<<entries[i]>>)
    /\ UNCHANGED <<mirrored, browser>>

\* _on_timer
TimerFires ==
    /\ \E i \in DOMAIN buffers :
          /\ buffers' = RemoveAt(buffers, i)
          /\ Emit(<<buffers[i]>>)
    /\ UNCHANGED <<pushed, mirrored, browser>>

\* (mutant) the pending deltas are sent after the event
InTurnLate(piece) == <<piece>> \o buffers

\* What is pending goes first, the oldest entry before the others.
InTurn(piece) == Append(buffers, piece)

\* broadcast, of anything but a delta
BroadcastCold(t) ==
    /\ Len(pushed) < MaxPushes
    /\ pushed' = Append(pushed, t)
    /\ Emit(InTurn([type |-> t, events |-> <<Len(pushed) + 1>>]))
    /\ buffers' = <<>>
    /\ UNCHANGED <<mirrored, browser>>

\* ProjectAISession._broadcast hands its frame to the sessions of the channel
\* of the subtab "ai", past the channel.
Mirror ==
    /\ mirrored < MaxMirrored
    /\ mirrored' = mirrored + 1
    /\ listener' = IF listener.open THEN EnqueueAll(listener, <<<<"agent", mirrored + 1>>>>)
                                  ELSE listener
    /\ UNCHANGED <<pushed, buffers, frames, history, browser>>

-----------------------------------------------------------------------------
(* Session *)

\* (mutant) an announcement one frame late
WindowExpiredLate(since) == since > 0 /\ history # {} /\ since < Min(history) - 2

WindowExpired(since) == since > 0 /\ history # {} /\ since < Min(history) - 1

\* Numbers in ascending order.
Ascending(ids) ==
    CHOOSE s \in [1..Cardinality(ids) -> ids] : \A i, j \in DOMAIN s : i < j => s[i] < s[j]

\* register: nothing is replayed to a browser that knows no id, unless it asks.
Replay(since, all) ==
    LET newer == Ascending({n \in history : n > since}) IN
    IF since = 0 /\ ~all THEN <<>>
    ELSE (IF WindowExpired(since) THEN <<Gap>> ELSE <<>>)
         \o [i \in DOMAIN newer |-> <<"channel", newer[i]>>]

Connect(all) ==
    /\ ~listener.open /\ browser.connects < MaxConnects
    /\ listener' = EnqueueAll([Closed EXCEPT !.open = TRUE], Replay(browser.cursor, all))
    /\ browser' = [browser EXCEPT !.connects = @ + 1]
    /\ UNCHANGED <<pushed, buffers, frames, history, mirrored>>

\* The browser remembers the id of a frame; a stream_gap has none.
Receive(f) ==
    browser' = [browser EXCEPT !.cursor = IF f = Gap THEN @ ELSE f[2], !.got = Append(@, f)]

\* iterate: the loss is told before the next frame is sent.
Take ==
    /\ listener.open /\ listener.held = NoFrame /\ listener.queue # <<>>
    /\ LET f == Head(listener.queue) IN
       IF listener.dropped > 0
       THEN /\ Receive(Gap)
            /\ listener' = [listener EXCEPT !.queue = Tail(@), !.dropped = 0, !.held = f]
       ELSE /\ Receive(f)
            /\ listener' = [listener EXCEPT !.queue = Tail(@)]
    /\ UNCHANGED <<pushed, buffers, frames, history, mirrored>>

SendHeld ==
    /\ listener.held # NoFrame
    /\ Receive(listener.held)
    /\ listener' = [listener EXCEPT !.held = NoFrame]
    /\ UNCHANGED <<pushed, buffers, frames, history, mirrored>>

\* The generator is closed at any frame, or finds that the browser has left.
Leave ==
    /\ listener.open
    /\ listener' = Closed
    /\ UNCHANGED <<pushed, buffers, frames, history, mirrored, browser>>

ChanNext ==
    \/ \E t \in HotTypes : PushDelta(t)
    \/ \E t \in {"cold", "status"} : BroadcastCold(t)
    \/ \E all \in BOOLEAN : Connect(all)
    \/ TimerFires \/ Mirror \/ Take \/ SendHeld \/ Leave

ChanSpec == ChanInit /\ [][ChanNext]_chanVars

-----------------------------------------------------------------------------
(* Properties *)

Before(p, q) == \A m \in ToSet(p.events), n \in ToSet(q.events) : m < n

Related(p, q) == p.type = q.type \/ {p.type, q.type} \ HotTypes # {}

\* "frame order on the wire matches causal order": no event is lost and none
\* comes twice, the deltas of a type come in the order in which they were
\* pushed, and every other event behind all that was pushed before it.
CausalOrder ==
    LET pieces == frames \o buffers IN
    /\ \A n \in DOMAIN pushed : \E i \in DOMAIN pieces : n \in ToSet(pieces[i].events)
    /\ \A i \in DOMAIN pieces : LET events == pieces[i].events IN
          /\ \A k \in DOMAIN events : events[k] \in DOMAIN pushed /\ pushed[events[k]] = pieces[i].type
          /\ \A k, l \in DOMAIN events : k < l => events[k] < events[l]
    /\ \A i, j \in DOMAIN pieces :
          i < j /\ Related(pieces[i], pieces[j]) => Before(pieces[i], pieces[j])

\* Across connections, overflows and expired windows, no retained frame is
\* missing between two frames without a stream_gap between them, and none
\* comes twice, where no frame of the agent session comes between them, whose
\* id means nothing to the channel.
LossIsTold ==
    LET got == browser.got IN
    \A i \in 1..(Len(got) - 1) : got[i][1] = "channel" /\ got[i + 1][1] = "channel" =>
        /\ got[i][2] < got[i + 1][2]
        /\ \A k \in (got[i][2] + 1)..(got[i + 1][2] - 1) : frames[k].type # "cold"

\* What a browser gets of a channel is in order, and what it does not get is
\* announced: both of them together.
ChannelFaithful == CausalOrder /\ LossIsTold
=============================================================================
