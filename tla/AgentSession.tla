---------------------------- MODULE AgentSession ----------------------------
(***************************************************************************)
(* The agent session of one project (syte/ai/session_manager.py): chat     *)
(* requests start a turn in a background task and stream its events, stop  *)
(* cancels the task, questions of the agent are answered from the UI or    *)
(* time out.  The code between two awaits is one step.                     *)
(*                                                                         *)
(* Only the events a connection closes on, and those around a question,    *)
(* are kept.  How events are buffered is the subject of EventStream; here  *)
(* a connection simply has a position in the log of all events.            *)
(***************************************************************************)
EXTENDS Naturals, Sequences, FiniteSets

CONSTANTS
    Messages,      \* chat messages; each starts at most one turn
    Streaming,     \* the messages whose request streams the events; the
                   \* token API also starts turns without streaming them
    MaxStops,      \* bound on stop requests that find a turn to stop
    MaxClears,     \* bound on history resets
    MaxQuestions,  \* bound on the questions agents ask
    None           \* no task

ASSUME ConstantsAssumption ==
    /\ None \notin Messages
    /\ Streaming \subseteq Messages
    /\ MaxStops \in Nat
    /\ MaxClears \in Nat
    /\ MaxQuestions \in Nat

Questions == 1..MaxQuestions

VARIABLES
    running,    \* session.is_running
    active,     \* session.active_task
    task,       \* the background task of each message
    cancelled,  \* the task was cancelled and has not noticed yet
    events,     \* every event so far, with the turn it belongs to
    cleared,    \* length of the part of the log that clear() has emptied
    answers,    \* session.answer_queue; an answer is the number of questions
                \* that had been asked when it was given
    asked,      \* number of questions asked so far
    asks,       \* the question a task waits for an answer to
    answered,   \* questions the user has answered
    heard,      \* the answer that was taken for each question, 0 if none
    stream,     \* the connection of each chat request
    pos,        \* how far in the log the connection has read
    snap,       \* length of the log when it took its snapshot of the ring
    stops, clears

turns    == <<running, active, task, cancelled>>
dialogue == <<answers, asked, asks, answered, heard>>
streams  == <<stream, pos, snap>>
vars     == <<running, active, task, cancelled, events, cleared, answers, asked,
              asks, answered, heard, stream, pos, snap, stops, clears>>

Kinds == {"received", "input", "done", "error", "stopped", "cancelled", "idle"}

Terminal == {"idle", "done", "cancelled", "error"}

TypeOK ==
    /\ running \in BOOLEAN
    /\ active \in Messages \cup {None}
    /\ task \in [Messages -> {"none", "attached", "created", "working", "asking", "ended"}]
    /\ cancelled \in [Messages -> BOOLEAN]
    /\ events \in Seq([kind : Kinds, turn : Messages])
    /\ cleared \in 0..Len(events)
    /\ answers \in Seq(Questions)
    /\ asked \in 0..MaxQuestions
    /\ asks \in [Messages -> 0..MaxQuestions]
    /\ answered \subseteq Questions
    /\ heard \in [Questions -> 0..MaxQuestions]
    /\ stream \in [Messages -> {"none", "posted", "replay", "live", "drain", "closed"}]
    /\ pos \in [Messages -> 0..Len(events)]
    /\ snap \in [Messages -> 0..Len(events)]
    /\ stops \in 0..MaxStops
    /\ clears \in 0..MaxClears

Init ==
    /\ running = FALSE
    /\ active = None
    /\ task = [m \in Messages |-> "none"]
    /\ cancelled = [m \in Messages |-> FALSE]
    /\ events = <<>>
    /\ cleared = 0
    /\ answers = <<>>
    /\ asked = 0
    /\ asks = [m \in Messages |-> 0]
    /\ answered = {}
    /\ heard = [q \in Questions |-> 0]
    /\ stream = [m \in Messages |-> "none"]
    /\ pos = [m \in Messages |-> 0]
    /\ snap = [m \in Messages |-> 0]
    /\ stops = 0
    /\ clears = 0

-----------------------------------------------------------------------------
Alive(m) == task[m] \in {"created", "working", "asking"}

Emit(ks, m) == events' = events \o [i \in 1..Len(ks) |-> [kind |-> ks[i], turn |-> m]]

\* (mutant) the id the next event will have
CursorNext == Len(events) + 1

\* last_event_id: where the stream of a chat begins
Cursor == Len(events)

\* (mutant) a turn is never seen under way
TurnUnderWayNever == FALSE

\* is_running and active_task and not active_task.done()
TurnUnderWay == running /\ active # None /\ Alive(active)

\* POST .../chat: the replay cursor is read, start_turn starts a turn unless
\* one is under way, and the response subscribes later.  Nothing is done
\* with the message when a turn is under way.
Chat(m) ==
    /\ task[m] = "none"
    /\ \/ /\ TurnUnderWay
          /\ task' = [task EXCEPT ![m] = "attached"]
          /\ UNCHANGED <<running, active>>
       \/ /\ ~TurnUnderWay
          /\ task' = [task EXCEPT ![m] = "created"]
          /\ running' = TRUE
          /\ active' = m
    /\ stream' = [stream EXCEPT ![m] = IF m \in Streaming THEN "posted" ELSE @]
    /\ pos' = [pos EXCEPT ![m] = Cursor]
    /\ UNCHANGED <<cancelled, events, cleared, dialogue, snap, stops, clears>>

\* stop_session
Stop ==
    /\ active # None
    /\ Alive(active)
    /\ stops < MaxStops
    /\ stops' = stops + 1
    /\ cancelled' = [cancelled EXCEPT ![active] = TRUE]
    /\ running' = FALSE
    /\ Emit(<<"stopped">>, active)
    /\ UNCHANGED <<active, task, cleared, dialogue, streams, clears>>

\* clear_session: the ring and the answers go, turn and streams stay.
Clear ==
    /\ clears < MaxClears
    /\ clears' = clears + 1
    /\ cleared' = Len(events)
    /\ answers' = <<>>
    /\ UNCHANGED <<turns, events, asked, asks, answered, heard, streams, stops>>

-----------------------------------------------------------------------------
(* The background task *)

TaskBegin(m) ==
    /\ task[m] = "created"
    /\ ~cancelled[m]
    /\ task' = [task EXCEPT ![m] = "working"]
    /\ Emit(<<"received">>, m)
    /\ UNCHANGED <<running, active, cancelled, cleared, dialogue, streams, stops, clears>>

\* (mutant) the flag stays up after the turn
TurnOverRunning(m, ks) ==
    /\ task' = [task EXCEPT ![m] = "ended"]
    /\ Emit(Append(ks, "idle"), m)
    /\ UNCHANGED running

\* (mutant) session_idle is sent before the outcome
TurnOverIdleFirst(m, ks) ==
    /\ task' = [task EXCEPT ![m] = "ended"]
    /\ running' = FALSE
    /\ Emit(<<"idle">> \o ks, m)

\* (mutant) the turn goes on after its cancellation was caught
OnCancelIgnored(m) == task' = [task EXCEPT ![m] = "working"] /\ UNCHANGED <<running, events>>

\* The finally clause: the flag falls and session_idle is the last event.
TurnOver(m, ks) ==
    /\ task' = [task EXCEPT ![m] = "ended"]
    /\ running' = FALSE
    /\ Emit(Append(ks, "idle"), m)

\* The agent has answered, failed, or used up its rounds.
TaskFinish(m) ==
    /\ task[m] = "working"
    /\ ~cancelled[m]
    /\ \E ks \in {<<"done">>, <<"error">>, <<>>} : TurnOver(m, ks)
    /\ UNCHANGED <<active, cancelled, cleared, dialogue, streams, stops, clears>>

\* except CancelledError
OnCancel(m) == TurnOver(m, <<"cancelled">>)

\* CancelledError: a task that has not started yet never runs at all, and
\* with it neither its except nor its finally clause.
TaskCancelled(m) ==
    /\ Alive(m)
    /\ cancelled[m]
    /\ \/ /\ task[m] = "created"
          /\ task' = [task EXCEPT ![m] = "ended"]
          /\ UNCHANGED <<running, events>>
       \/ /\ task[m] # "created"
          /\ OnCancel(m)
    /\ UNCHANGED <<active, cancelled, cleared, dialogue, streams, stops, clears>>

\* (mutant) answers that are already in the queue stay there
AnswersOnAskKept == answers

AnswersOnAsk == <<>>

\* wait_for_user_answer: stale answers are dropped, the question is emitted.
Ask(m) ==
    /\ task[m] = "working"
    /\ ~cancelled[m]
    /\ asked < MaxQuestions
    /\ asked' = asked + 1
    /\ asks' = [asks EXCEPT ![m] = asked + 1]
    /\ answers' = AnswersOnAsk
    /\ task' = [task EXCEPT ![m] = "asking"]
    /\ Emit(<<"input">>, m)
    /\ UNCHANGED <<running, active, cancelled, cleared, answered, heard, streams, stops, clears>>

\* The answer comes, or 300 seconds are over.
AskReturns(m) ==
    /\ task[m] = "asking"
    /\ ~cancelled[m]
    /\ \/ /\ answers # <<>>
          /\ heard' = [heard EXCEPT ![asks[m]] = Head(answers)]
          /\ answers' = Tail(answers)
       \/ UNCHANGED <<heard, answers>>
    /\ task' = [task EXCEPT ![m] = "working"]
    /\ UNCHANGED <<running, active, cancelled, events, cleared, asked, asks, answered,
                   streams, stops, clears>>

\* handle_user_answer: the user answers a question that was shown; the
\* payload does not say which one, and nobody checks that one is pending.
UserAnswers(q) ==
    /\ q \in 1..asked
    /\ q \notin answered
    /\ answered' = answered \cup {q}
    /\ answers' = Append(answers, asked)
    /\ UNCHANGED <<turns, events, cleared, asked, asks, heard, streams, stops, clears>>

-----------------------------------------------------------------------------
(* subscribe *)

\* (mutant) closes on the last event, whatever is running
AfterReplayEager(n) == IF n # 0 /\ events[n].kind \in Terminal THEN "closed" ELSE "live"

\* "If the session already ended ... and no turn is running, close now":
\* looks at the last event of the snapshot that ends at n.
AfterReplay(n) ==
    IF n # 0 /\ ~running /\ events[n].kind \in Terminal THEN "closed" ELSE "live"

\* The ring is copied; what was cleared or is not newer than the cursor is
\* not replayed.  With nothing to replay the code goes straight on.
Open(m) ==
    /\ stream[m] = "posted"
    /\ LET start == IF pos[m] < cleared THEN cleared ELSE pos[m]
           size  == IF cleared < Len(events) THEN Len(events) ELSE 0
       IN /\ snap' = [snap EXCEPT ![m] = size]
          /\ pos' = [pos EXCEPT ![m] = start]
          /\ stream' = [stream EXCEPT ![m] =
                           IF start < size THEN "replay" ELSE AfterReplay(size)]
    /\ UNCHANGED <<turns, events, cleared, dialogue, stops, clears>>

Replay(m) ==
    /\ stream[m] = "replay"
    /\ pos[m] < snap[m]
    /\ pos' = [pos EXCEPT ![m] = @ + 1]
    /\ UNCHANGED <<turns, events, cleared, dialogue, stream, snap, stops, clears>>

Replayed(m) ==
    /\ stream[m] = "replay"
    /\ pos[m] >= snap[m]
    /\ stream' = [stream EXCEPT ![m] = AfterReplay(snap[m])]
    /\ UNCHANGED <<turns, events, cleared, dialogue, pos, snap, stops, clears>>

\* A frame from the queue; after a terminal one of an idle session the
\* connection waits a moment, sends what is left and closes.
Read(m) ==
    /\ stream[m] = "live"
    /\ pos[m] < Len(events)
    /\ pos' = [pos EXCEPT ![m] = @ + 1]
    /\ stream' = [stream EXCEPT ![m] =
                    IF events[pos[m] + 1].kind \in Terminal /\ ~running
                    THEN "drain" ELSE "live"]
    /\ UNCHANGED <<turns, events, cleared, dialogue, snap, stops, clears>>

Drain(m) ==
    /\ stream[m] = "drain"
    /\ stream' = [stream EXCEPT ![m] = "closed"]
    /\ pos' = [pos EXCEPT ![m] = Len(events)]
    /\ UNCHANGED <<turns, events, cleared, dialogue, snap, stops, clears>>

-----------------------------------------------------------------------------
TaskStep(m) == TaskBegin(m) \/ TaskFinish(m) \/ TaskCancelled(m) \/ Ask(m) \/ AskReturns(m)
StreamStep(m) == Open(m) \/ Replay(m) \/ Replayed(m) \/ Read(m) \/ Drain(m)

\* Every message was sent and no turn is under way: open streams wait.
Quiet ==
    /\ \A m \in Messages : task[m] \in {"attached", "ended"}
    /\ UNCHANGED vars

Next ==
    \/ \E m \in Messages : Chat(m)
    \/ Stop
    \/ Clear
    \/ \E q \in Questions : UserAnswers(q)
    \/ \E m \in Messages : TaskStep(m)
    \/ \E m \in Messages : StreamStep(m)
    \/ Quiet

Spec == Init /\ [][Next]_vars

\* The event loop resumes ready tasks and connections; a question returns at
\* the latest after 300 seconds.  Users may stay silent, and no property
\* relies on the agent to finish its answer.
Fairness == \A m \in Messages : WF_vars(TaskStep(m)) /\ WF_vars(StreamStep(m))

FairSpec == Spec /\ Fairness

-----------------------------------------------------------------------------
(* Properties *)

\* As long as nobody stops a turn, the turn under way is the one the session
\* knows and its flag is up: the next chat attaches to it and does not start
\* a second agent in the same workspace.
OneLiveTurn == stops = 0 =>
    /\ \A m, n \in Messages : Alive(m) /\ Alive(n) => m = n
    /\ \A m \in Messages : Alive(m) => running /\ active = m

\* "Start (or attach to) an autonomous agent turn": a chat that comes while
\* a turn works that nobody has stopped attaches to it, so no two such turns
\* work at once.
AttachesToTurn ==
    \A m, n \in Messages : Alive(m) /\ ~cancelled[m] /\ Alive(n) /\ ~cancelled[n] => m = n

\* The stream of a chat "contains exactly this turn's events (no stale
\* replay, no missed fast turns)": it does not close before its turn is over
\* and all the turn's events are sent, but for those that a reset cleared from
\* the ring before the stream subscribed.
StreamHasTurn ==
    \A m \in Messages : stream[m] = "closed" /\ task[m] # "attached" =>
        /\ task[m] = "ended"
        /\ \A i \in 1..Len(events) : events[i].turn = m => i <= pos[m]

\* "session_idle: background task finished; stream closes after this": a
\* turn that has begun emits session_idle once, as the last of its events,
\* whether it completes, fails or is stopped.
IdleIsLast ==
    \A m \in Messages :
        LET mine == {i \in 1..Len(events) : events[i].turn = m}
        IN (\E i \in mine : events[i].kind = "received") =>
              \A i \in mine : events[i].kind = "idle"
                                <=> task[m] = "ended" /\ \A j \in mine : j <= i

\* A stop is not ignored: the turn that was stopped ends, even one that
\* waits for an answer.
StopsTakeEffect == \A m \in Messages : cancelled[m] ~> task[m] = "ended"

\* "Clear any stale answers": the answer taken for a question was given
\* after the question was asked.
AnswerIsFresh == \A q \in Questions : heard[q] # 0 => heard[q] >= q

\* "A stream closes cleanly after session_idle ...": a connection whose turn
\* is over does not stay open for ever.
StreamsClose == \A m \in Streaming : task[m] = "ended" ~> stream[m] = "closed"
=============================================================================
