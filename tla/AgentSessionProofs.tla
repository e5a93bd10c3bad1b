------------------------- MODULE AgentSessionProofs -------------------------
(***************************************************************************)
(* Proofs about AgentSession for every set of messages.  As long as nobody *)
(* stops a turn, a project has one agent at work and a stream has all of   *)
(* its turn (with a stop it may have two agents; the run session_overlap   *)
(* shows how).  Whatever is stopped, an agent takes only answers to        *)
(* questions it has asked, and session_idle is the last event of a turn.   *)
(***************************************************************************)
EXTENDS AgentSession, SequenceTheorems, TLAPS

USE ConstantsAssumption

\* What of the state the argument is about: the session's flag and task.
TurnsTyped ==
    /\ running \in BOOLEAN
    /\ active \in Messages \cup {None}
    /\ task \in [Messages -> {"none", "attached", "created", "working", "asking", "ended"}]
    /\ cancelled \in [Messages -> BOOLEAN]

\* OneLiveTurn is not inductive by itself: a turn that ends while it is
\* cancelled lowers the flag of another one, so no turn is cancelled; and
\* the flag of a turn under way must be up for the next chat to attach.
TurnInv ==
    /\ TurnsTyped
    /\ \A m \in Messages : ~cancelled[m]
    /\ \A m \in Messages : Alive(m) => running /\ active = m

LEMMA InitTurn == Init => TurnInv
  BY DEF Init, TurnInv, TurnsTyped, Alive

LEMMA NextTurn ==
  ASSUME stops \in Nat, TurnInv, [Next]_vars, stops' = 0
  PROVE  TurnInv'
<1> USE DEF TurnInv, TurnsTyped, Alive
<1>1. ASSUME NEW m \in Messages, Chat(m)
      PROVE  TurnInv'
  <2>1. CASE TurnUnderWay
    BY <1>1, <2>1 DEF Chat
  <2>2. CASE ~TurnUnderWay
    <3>1. \A n \in Messages : ~Alive(n)
      BY <2>2 DEF TurnUnderWay
    <3> QED BY <1>1, <2>2, <3>1 DEF Chat
  <2> QED BY <2>1, <2>2
<1>2. CASE Stop
  BY <1>2 DEF Stop
<1>3. CASE Clear
  BY <1>3 DEF Clear, turns
<1>4. ASSUME NEW q \in Questions, UserAnswers(q)
      PROVE  TurnInv'
  BY <1>4 DEF UserAnswers, turns
<1>5. ASSUME NEW m \in Messages, TaskBegin(m)
      PROVE  TurnInv'
  BY <1>5 DEF TaskBegin
<1>6. ASSUME NEW m \in Messages, TaskFinish(m)
      PROVE  TurnInv'
  BY <1>6 DEF TaskFinish, TurnOver
<1>7. ASSUME NEW m \in Messages, TaskCancelled(m)
      PROVE  TurnInv'
  BY <1>7 DEF TaskCancelled
<1>8. ASSUME NEW m \in Messages, Ask(m)
      PROVE  TurnInv'
  BY <1>8 DEF Ask
<1>9. ASSUME NEW m \in Messages, AskReturns(m)
      PROVE  TurnInv'
  BY <1>9 DEF AskReturns
<1>10. ASSUME NEW m \in Messages, StreamStep(m)
       PROVE  TurnInv'
  BY <1>10 DEF StreamStep, Open, Replay, Replayed, Read, Drain, turns
<1>11. CASE UNCHANGED vars
  BY <1>11 DEF vars
<1>12. ASSUME NEW m \in Messages, TaskStep(m)
       PROVE  TurnInv'
  BY <1>5, <1>6, <1>7, <1>8, <1>9, <1>12 DEF TaskStep
<1> HIDE DEF TurnInv, TurnsTyped, Alive
<1> QED BY <1>1, <1>2, <1>3, <1>4, <1>10, <1>11, <1>12 DEF Next, Quiet

LEMMA StopsGrow ==
  ASSUME stops \in Nat, [Next]_vars
  PROVE  stops' \in Nat /\ (stops' = 0 => stops = 0)
<1>1. CASE Stop
  BY <1>1 DEF Stop
<1>2. ASSUME ~Stop
      PROVE  stops' = stops
  <2>1. ASSUME NEW m \in Messages, Chat(m)
        PROVE  stops' = stops
    BY <2>1 DEF Chat
  <2>2. ASSUME NEW m \in Messages, TaskStep(m)
        PROVE  stops' = stops
    BY <2>2 DEF TaskStep, TaskBegin, TaskFinish, TaskCancelled, Ask, AskReturns
  <2>3. ASSUME NEW m \in Messages, StreamStep(m)
        PROVE  stops' = stops
    BY <2>3 DEF StreamStep, Open, Replay, Replayed, Read, Drain
  <2>4. CASE Clear
    BY <2>4 DEF Clear
  <2>5. ASSUME NEW q \in Questions, UserAnswers(q)
        PROVE  stops' = stops
    BY <2>5 DEF UserAnswers
  <2>6. CASE UNCHANGED vars
    BY <2>6 DEF vars
  <2> QED BY <1>2, <2>1, <2>2, <2>3, <2>4, <2>5, <2>6 DEF Next, Quiet
<1> QED BY <1>1, <1>2

\* A chat that arrives during a turn never starts a second agent, as long
\* as no turn is stopped: for any number of messages and questions, with
\* history resets at any time.
THEOREM OneAgent == Spec => []OneLiveTurn
<1> DEFINE Inv == stops \in Nat /\ (stops = 0 => TurnInv)
<1>1. Init => Inv
  BY InitTurn DEF Init
<1>2. Inv /\ [Next]_vars => Inv'
  BY NextTurn, StopsGrow
<1>3. Inv => OneLiveTurn
  BY DEF TurnInv, OneLiveTurn
<1> HIDE DEF Inv
<1> QED BY <1>1, <1>2, <1>3, PTL DEF Spec

-----------------------------------------------------------------------------
(* The log of events, and types *)

Event == [kind : Kinds, turn : Messages]

\* What Emit appends.
LEMMA EmitProperties ==
  ASSUME events \in Seq(Event), NEW ks \in Seq(Kinds), NEW m \in Messages, Emit(ks, m)
  PROVE  /\ events' \in Seq(Event)
         /\ Len(events') = Len(events) + Len(ks)
         /\ \A i \in 1..Len(events) : events'[i] = events[i]
         /\ \A i \in 1..Len(ks) : events'[Len(events) + i] = [kind |-> ks[i], turn |-> m]
<1> DEFINE new == [i \in 1..Len(ks) |-> [kind |-> ks[i], turn |-> m]]
<1>1. Len(ks) \in Nat /\ \A i \in 1..Len(ks) : ks[i] \in Kinds
  OBVIOUS
<1>2. new \in [1..Len(ks) -> Event]
  BY <1>1 DEF Event
<1>3. new \in Seq(Event) /\ Len(new) = Len(ks)
  BY <1>1, <1>2
<1>4. events' = events \o new
  BY DEF Emit
<1>5. \A i \in 1..Len(ks) : new[i] = [kind |-> ks[i], turn |-> m]
  OBVIOUS
<1> HIDE DEF new
<1>6. /\ events \o new \in Seq(Event)
      /\ Len(events \o new) = Len(events) + Len(new)
      /\ \A i \in 1..Len(events) + Len(new) :
            (events \o new)[i] = IF i <= Len(events) THEN events[i] ELSE new[i - Len(events)]
  BY <1>3, ConcatProperties
<1>7. Len(events) \in Nat
  OBVIOUS
<1>8. ASSUME NEW i \in 1..Len(ks)
      PROVE  events'[Len(events) + i] = new[i]
  <2>1. Len(events) + i \in 1..Len(events) + Len(new) /\ ~(Len(events) + i <= Len(events))
    BY <1>1, <1>3, <1>7
  <2>2. (Len(events) + i) - Len(events) = i
    BY <1>7
  <2> QED BY <1>4, <1>6, <2>1, <2>2
<1>9. \A i \in 1..Len(events) : events'[i] = events[i]
  BY <1>1, <1>3, <1>4, <1>6, <1>7
<1> QED BY <1>3, <1>4, <1>5, <1>6, <1>8, <1>9

\* The sequences of kinds the code emits.
LEMMA Emitted ==
  /\ \A k \in Kinds : <<k>> \in Seq(Kinds) /\ Len(<<k>>) = 1
  /\ \A ks \in {<<>>, <<"done">>, <<"error">>, <<"cancelled">>} :
        /\ Append(ks, "idle") \in Seq(Kinds)
        /\ Len(Append(ks, "idle")) \in 1..2
  BY DEF Kinds

LEMMA InitTypes == Init => TypeOK
<1> SUFFICES ASSUME Init PROVE TypeOK
  OBVIOUS
<1>1. /\ events = <<>> /\ answers = <<>>
      /\ cleared = 0 /\ asked = 0 /\ stops = 0 /\ clears = 0
      /\ Len(events) = 0
  BY DEF Init
<1>2. events \in Seq([kind : Kinds, turn : Messages]) /\ answers \in Seq(Questions)
  BY <1>1
<1>3. /\ asks \in [Messages -> 0..MaxQuestions]
      /\ heard \in [Questions -> 0..MaxQuestions]
      /\ pos \in [Messages -> 0..Len(events)]
      /\ snap \in [Messages -> 0..Len(events)]
  BY <1>1 DEF Init
<1>4. running \in BOOLEAN /\ cancelled \in [Messages -> BOOLEAN]
  BY Zenon DEF Init
<1>5. /\ cleared \in 0..Len(events) /\ asked \in 0..MaxQuestions
      /\ stops \in 0..MaxStops /\ clears \in 0..MaxClears
  BY <1>1
<1>6. /\ task \in [Messages -> {"none", "attached", "created", "working", "asking", "ended"}]
      /\ stream \in [Messages -> {"none", "posted", "replay", "live", "drain", "closed"}]
      /\ active \in Messages \cup {None} /\ answered \subseteq Questions
  BY DEF Init
<1> QED BY <1>2, <1>3, <1>4, <1>5, <1>6 DEF TypeOK

\* A step that emits keeps the positions within the log.
LEMMA Longer ==
  ASSUME TypeOK, events' \in Seq(Event), Len(events') >= Len(events)
  PROVE  /\ cleared \in 0..Len(events')
         /\ pos \in [Messages -> 0..Len(events')]
         /\ snap \in [Messages -> 0..Len(events')]
  BY DEF TypeOK, Event

LEMMA NextTypes == TypeOK /\ [Next]_vars => TypeOK'
<1> SUFFICES ASSUME TypeOK, [Next]_vars PROVE TypeOK'
  OBVIOUS
<1> DEFINE TurnTask == {"none", "attached", "created", "working", "asking", "ended"}
<1>e. events \in Seq(Event) /\ Len(events) \in Nat
  BY DEF TypeOK, Event
<1>1. ASSUME NEW m \in Messages, Chat(m)
      PROVE  TypeOK'
  <2>1. /\ task' \in [Messages -> TurnTask]
        /\ active' \in Messages \cup {None} /\ running' \in BOOLEAN
    BY <1>1 DEF Chat, TypeOK
  <2>2. /\ stream' \in [Messages -> {"none", "posted", "replay", "live", "drain", "closed"}]
        /\ pos' \in [Messages -> 0..Len(events)]
    BY <1>1, <1>e DEF Chat, TypeOK, Cursor
  <2> QED BY <1>1, <2>1, <2>2 DEF Chat, TypeOK, dialogue
<1>2. CASE Stop
  <2>1. PICK m \in Messages : m = active /\ Emit(<<"stopped">>, m)
    BY <1>2 DEF Stop, TypeOK
  <2>2. <<"stopped">> \in Seq(Kinds) /\ Len(<<"stopped">>) \in Nat
    BY Emitted DEF Kinds
  <2>3. events' \in Seq(Event) /\ Len(events') = Len(events) + Len(<<"stopped">>)
    BY <1>e, <2>1, <2>2, EmitProperties
  <2>4. Len(events') >= Len(events)
    BY <1>e, <2>2, <2>3
  <2>5. cancelled' \in [Messages -> BOOLEAN] /\ running' \in BOOLEAN
    BY <1>2 DEF Stop, TypeOK
  <2>6. stops' \in 0..MaxStops
    BY <1>2 DEF Stop, TypeOK
  <2> QED BY <1>2, <2>3, <2>4, <2>5, <2>6, Longer DEF Stop, TypeOK, Event, dialogue, streams
<1>3. CASE Clear
  BY <1>3, <1>e DEF Clear, TypeOK, turns, streams
<1>4. ASSUME NEW q \in Questions, UserAnswers(q)
      PROVE  TypeOK'
  <2>1. asked \in Questions
    BY <1>4 DEF UserAnswers, TypeOK, Questions
  <2>2. answers' \in Seq(Questions) /\ answered' \subseteq Questions
    BY <1>4, <2>1 DEF UserAnswers, TypeOK
  <2> QED BY <1>4, <2>2 DEF UserAnswers, TypeOK, turns, streams
<1>5. ASSUME NEW m \in Messages, TaskStep(m)
      PROVE  TypeOK'
  <2>1. ASSUME NEW ks \in Seq(Kinds), Emit(ks, m)
        PROVE  events' \in Seq(Event) /\ Len(events') >= Len(events)
    BY <1>e, <2>1, EmitProperties
  <2>2. CASE TaskBegin(m)
    <3>1. events' \in Seq(Event) /\ Len(events') >= Len(events)
      BY <2>1, <2>2, Emitted DEF TaskBegin, Kinds
    <3> QED BY <2>2, <3>1, Longer DEF TaskBegin, TypeOK, Event, dialogue, streams
  <2>3. CASE TaskFinish(m)
    <3>1. events' \in Seq(Event) /\ Len(events') >= Len(events)
      BY <2>1, <2>3, Emitted DEF TaskFinish, TurnOver
    <3> QED BY <2>3, <3>1, Longer DEF TaskFinish, TurnOver, TypeOK, Event, dialogue, streams
  <2>4. CASE TaskCancelled(m)
    <3>1. UNCHANGED events \/ Emit(Append(<<"cancelled">>, "idle"), m)
      BY <2>4 DEF TaskCancelled, OnCancel, TurnOver
    <3>2. CASE UNCHANGED events
      BY <2>4, <1>e, <3>2 DEF TaskCancelled, OnCancel, TurnOver, TypeOK, dialogue, streams
    <3>3. CASE Emit(Append(<<"cancelled">>, "idle"), m)
      <4>1. events' \in Seq(Event) /\ Len(events') >= Len(events)
        BY <2>1, <3>3, Emitted
      <4> QED BY <2>4, <4>1, Longer
              DEF TaskCancelled, OnCancel, TurnOver, TypeOK, Event, dialogue, streams
    <3> QED BY <3>1, <3>2, <3>3
  <2>5. CASE Ask(m)
    <3>1. events' \in Seq(Event) /\ Len(events') >= Len(events)
      BY <2>1, <2>5, Emitted DEF Ask, Kinds
    <3>2. /\ asked' \in 0..MaxQuestions
          /\ asks' \in [Messages -> 0..MaxQuestions]
          /\ answers' \in Seq(Questions)
      BY <2>5 DEF Ask, TypeOK, AnswersOnAsk
    <3>3. /\ task' \in [Messages -> TurnTask]
      BY <2>5 DEF Ask, TypeOK
    <3> QED BY <2>5, <3>1, <3>2, <3>3, Longer DEF Ask, TypeOK, Event, streams
  <2>6. CASE AskReturns(m)
    <3>1. /\ answers' \in Seq(Questions)
          /\ heard' \in [Questions -> 0..MaxQuestions]
      <4>1. CASE UNCHANGED <<heard, answers>>
        BY <4>1 DEF TypeOK
      <4>2. CASE /\ answers # <<>>
                 /\ heard' = [heard EXCEPT ![asks[m]] = Head(answers)]
                 /\ answers' = Tail(answers)
        <5>1. Head(answers) \in Questions /\ Tail(answers) \in Seq(Questions)
          BY <4>2, HeadTailProperties DEF TypeOK
        <5>2. Head(answers) \in 0..MaxQuestions
          BY <5>1 DEF Questions
        <5> QED BY <4>2, <5>1, <5>2 DEF TypeOK
      <4> QED BY <2>6, <4>1, <4>2 DEF AskReturns
    <3>2. task' \in [Messages -> TurnTask]
      BY <2>6 DEF AskReturns, TypeOK
    <3> QED BY <2>6, <3>1, <3>2 DEF AskReturns, TypeOK, streams
  <2> QED BY <1>5, <2>2, <2>3, <2>4, <2>5, <2>6 DEF TaskStep
<1>6. ASSUME NEW m \in Messages, StreamStep(m)
      PROVE  TypeOK'
  <2>1. /\ stream' \in [Messages -> {"none", "posted", "replay", "live", "drain", "closed"}]
        /\ pos' \in [Messages -> 0..Len(events)]
        /\ snap' \in [Messages -> 0..Len(events)]
    <3>t. /\ stream \in [Messages -> {"none", "posted", "replay", "live", "drain", "closed"}]
          /\ pos \in [Messages -> 0..Len(events)] /\ snap \in [Messages -> 0..Len(events)]
          /\ cleared \in 0..Len(events)
      BY DEF TypeOK
    <3>0. \A n \in Nat : AfterReplay(n) \in {"live", "closed"}
      BY DEF AfterReplay
    <3>1. CASE Open(m)
      <4> DEFINE start == IF pos[m] < cleared THEN cleared ELSE pos[m]
                 size  == IF cleared < Len(events) THEN Len(events) ELSE 0
      <4>1. start \in 0..Len(events) /\ size \in 0..Len(events)
        BY <1>e, <3>t
      <4>2. /\ snap' = [snap EXCEPT ![m] = size]
            /\ pos' = [pos EXCEPT ![m] = start]
            /\ stream' = [stream EXCEPT ![m] =
                             IF start < size THEN "replay" ELSE AfterReplay(size)]
        BY <3>1 DEF Open
      <4> HIDE DEF start, size
      <4> QED BY <1>e, <3>t, <3>0, <4>1, <4>2
    <3>2. CASE Replay(m)
      <4>1. pos[m] + 1 \in 0..Len(events)
        BY <1>e, <3>t, <3>2 DEF Replay
      <4> QED BY <3>2, <3>t, <4>1 DEF Replay
    <3>3. CASE Replayed(m)
      BY <1>e, <3>t, <3>0, <3>3 DEF Replayed
    <3>4. CASE Read(m)
      <4>1. pos[m] + 1 \in 0..Len(events)
        BY <1>e, <3>t, <3>4 DEF Read
      <4>2. \E s \in {"drain", "live"} : stream' = [stream EXCEPT ![m] = s]
        BY <3>4 DEF Read
      <4> QED BY <3>4, <3>t, <4>1, <4>2 DEF Read
    <3>5. CASE Drain(m)
      BY <1>e, <3>t, <3>5 DEF Drain
    <3> QED BY <1>6, <3>1, <3>2, <3>3, <3>4, <3>5 DEF StreamStep
  <2>2. UNCHANGED <<turns, events, cleared, dialogue, stops, clears>>
    BY <1>6 DEF StreamStep, Open, Replay, Replayed, Read, Drain
  <2> QED BY <2>1, <2>2 DEF TypeOK, turns, dialogue
<1>7. CASE UNCHANGED vars
  BY <1>7 DEF vars, TypeOK
<1> QED BY <1>1, <1>2, <1>3, <1>4, <1>5, <1>6, <1>7 DEF Next, Quiet

\* Every variable keeps its type; in particular no connection reads past the
\* end of the log.
THEOREM TypeCorrect == Spec => []TypeOK
  BY InitTypes, NextTypes, PTL DEF Spec

-----------------------------------------------------------------------------
(* Answers *)

\* The queue holds answers to the last question only, because a new question
\* empties it.
AnswerInv ==
    /\ AnswerIsFresh
    /\ \A i \in 1..Len(answers) : answers[i] = asked
    /\ \A m \in Messages : asks[m] <= asked

LEMMA NextAnswer == TypeOK /\ AnswerInv /\ [Next]_vars => AnswerInv'
<1> SUFFICES ASSUME TypeOK, AnswerInv, [Next]_vars PROVE AnswerInv'
  OBVIOUS
<1> USE DEF AnswerInv, AnswerIsFresh
<1>t. /\ asked \in Nat /\ asks \in [Messages -> 0..MaxQuestions] /\ answers \in Seq(Questions)
      /\ heard \in [Questions -> 0..MaxQuestions]
  BY DEF TypeOK
<1>1. CASE UNCHANGED <<answers, asked, asks, heard>>
  BY <1>1
<1>2. ASSUME NEW m \in Messages, Ask(m)
      PROVE  AnswerInv'
  <2>1. \A n \in Messages : asks'[n] <= asked'
    BY <1>2, <1>t DEF Ask
  <2>2. answers' = <<>> /\ UNCHANGED heard
    BY <1>2 DEF Ask, AnswersOnAsk
  <2> QED BY <2>1, <2>2
<1>3. ASSUME NEW m \in Messages, AskReturns(m)
      PROVE  AnswerInv'
  <2>1. CASE UNCHANGED <<heard, answers>>
    BY <1>3, <2>1 DEF AskReturns
  <2>2. CASE /\ answers # <<>>
             /\ heard' = [heard EXCEPT ![asks[m]] = Head(answers)]
             /\ answers' = Tail(answers)
    <3>1. Head(answers) = answers[1] /\ 1 \in 1..Len(answers)
      BY <1>t, <2>2
    <3>2. /\ Len(answers') = Len(answers) - 1
          /\ \A i \in 1..Len(answers') : answers'[i] = answers[i + 1]
      BY <1>t, <2>2, HeadTailProperties
    <3>3. \A i \in 1..Len(answers') : answers'[i] = asked
      BY <1>t, <3>2
    <3>4. \A q \in Questions : heard'[q] # 0 => heard'[q] >= q
      BY <1>t, <2>2, <3>1
    <3> QED BY <1>3, <3>3, <3>4 DEF AskReturns
  <2> QED BY <1>3, <2>1, <2>2 DEF AskReturns
<1>4. ASSUME NEW q \in Questions, UserAnswers(q)
      PROVE  AnswerInv'
  <2>1. /\ Len(answers') = Len(answers) + 1 /\ Len(answers) \in Nat
        /\ \A i \in 1..Len(answers) : answers'[i] = answers[i]
        /\ answers'[Len(answers) + 1] = asked
    BY <1>4, <1>t DEF UserAnswers
  <2>2. \A i \in 1..Len(answers') : answers'[i] = asked
    BY <2>1
  <2> QED BY <1>4, <2>2 DEF UserAnswers
<1>5. CASE Clear
  BY <1>5 DEF Clear
<1>6. CASE \/ \E m \in Messages : Chat(m) \/ TaskBegin(m) \/ TaskFinish(m) \/ TaskCancelled(m)
           \/ \E m \in Messages : StreamStep(m)
           \/ Stop \/ UNCHANGED vars
  BY <1>1, <1>6 DEF Chat, TaskBegin, TaskFinish, TaskCancelled, StreamStep, Open, Replay,
                    Replayed, Read, Drain, Stop, vars, dialogue
<1> QED BY <1>2, <1>3, <1>4, <1>5, <1>6 DEF Next, TaskStep, Quiet

\* "Clear any stale answers": for any number of questions, stops and history
\* resets, the answer an agent takes for its question was given after the
\* question was asked.
THEOREM AnswersFresh == Spec => []AnswerIsFresh
<1>1. Init => AnswerInv
  BY DEF Init, AnswerInv, AnswerIsFresh
<1>2. AnswerInv => AnswerIsFresh
  BY DEF AnswerInv
<1> QED BY <1>1, <1>2, InitTypes, NextTypes, NextAnswer, PTL DEF Spec

-----------------------------------------------------------------------------
(* The order of a turn's events *)

\* A terminal event of a turn is sent only when its task has ended, and a
\* turn that has begun has left the state "created".
LogInv ==
    /\ \A i \in 1..Len(events) :
          events[i].kind \in Terminal => task[events[i].turn] = "ended"
    /\ \A i \in 1..Len(events) :
          events[i].kind = "received" => task[events[i].turn] \in {"working", "asking", "ended"}
    /\ IdleIsLast

LEMMA EventsTyped ==
  ASSUME TypeOK
  PROVE  /\ events \in Seq(Event) /\ Len(events) \in Nat
         /\ \A i \in 1..Len(events) : events[i] \in Event /\ events[i].turn \in Messages
<1>1. events \in Seq(Event)
  BY DEF TypeOK, Event
<1>2. Len(events) \in Nat /\ \A i \in 1..Len(events) : events[i] \in Event
  BY <1>1
<1> QED BY <1>1, <1>2 DEF Event

\* IdleIsLast for one event of a turn that has begun.
LEMMA IdleOnce ==
  ASSUME IdleIsLast, NEW m \in Messages,
         NEW b \in 1..Len(events), events[b].turn = m, events[b].kind = "received",
         NEW i \in 1..Len(events), events[i].turn = m
  PROVE  events[i].kind = "idle"
           <=> /\ task[m] = "ended"
               /\ \A j \in 1..Len(events) : events[j].turn = m => j <= i
<1> DEFINE mine == {j \in 1..Len(events) : events[j].turn = m}
<1>1. b \in mine /\ i \in mine
  OBVIOUS
<1>2. (\E j \in mine : events[j].kind = "received") =>
         \A j \in mine : events[j].kind = "idle"
                           <=> task[m] = "ended" /\ \A l \in mine : l <= j
  BY DEF IdleIsLast
<1>3. (\A l \in mine : l <= i)
        <=> \A l \in 1..Len(events) : events[l].turn = m => l <= i
  OBVIOUS
<1> HIDE DEF mine
<1> QED BY <1>1, <1>2, <1>3

LEMMA Offset ==
  ASSUME NEW l \in Nat, NEW k \in Nat, NEW i \in 1..l + k, i \notin 1..l
  PROVE  i - l \in 1..k /\ i = l + (i - l)
  OBVIOUS

LEMMA InitLog == Init => LogInv
  BY DEF Init, LogInv, IdleIsLast

\* A step that sends nothing, and ends no turn that has begun.
LEMMA QuietLog ==
  ASSUME TypeOK, LogInv, UNCHANGED events,
         \A m \in Messages :
            \/ task'[m] = task[m]
            \/ task[m] \notin {"working", "asking", "ended"}
            \/ task[m] # "ended" /\ task'[m] \in {"working", "asking"}
  PROVE  LogInv'
<1>1. \A i \in 1..Len(events) : events[i].turn \in Messages
  BY EventsTyped
<1>2. \A i \in 1..Len(events) : events[i].kind \in Terminal => task'[events[i].turn] = "ended"
  BY <1>1 DEF LogInv
<1>3. \A i \in 1..Len(events) :
         events[i].kind = "received" => task'[events[i].turn] \in {"working", "asking", "ended"}
  BY <1>1 DEF LogInv
<1>4. ASSUME NEW m \in Messages,
             NEW b \in 1..Len(events), events[b].turn = m, events[b].kind = "received"
      PROVE  task'[m] = "ended" <=> task[m] = "ended"
  BY <1>4 DEF LogInv
<1>5. ASSUME NEW m \in Messages,
             NEW b \in 1..Len(events), events[b].turn = m, events[b].kind = "received",
             NEW i \in 1..Len(events), events[i].turn = m
      PROVE  events[i].kind = "idle"
               <=> /\ task'[m] = "ended"
                   /\ \A j \in 1..Len(events) : events[j].turn = m => j <= i
  BY <1>4, <1>5, IdleOnce DEF LogInv
<1>6. IdleIsLast'
  BY <1>5 DEF IdleIsLast
<1> QED BY <1>2, <1>3, <1>6 DEF LogInv

\* What a step that sends events of m does to the log: everybody else's
\* events are the same.
LEMMA SentLog ==
  ASSUME TypeOK, NEW ks \in Seq(Kinds), NEW m \in Messages, Emit(ks, m)
  PROVE  /\ Len(events) \in Nat /\ Len(ks) \in Nat /\ Len(events') = Len(events) + Len(ks)
         /\ \A i \in 1..Len(events) : events'[i] = events[i] /\ events[i].turn \in Messages
         /\ \A i \in 1..Len(ks) : events'[Len(events) + i] = [kind |-> ks[i], turn |-> m]
         /\ \A i \in 1..Len(events') : i \notin 1..Len(events) =>
               /\ i - Len(events) \in 1..Len(ks)
               /\ events'[i] = [kind |-> ks[i - Len(events)], turn |-> m]
<1>1. /\ events \in Seq(Event) /\ Len(events) \in Nat /\ Len(ks) \in Nat
      /\ \A i \in 1..Len(events) : events[i].turn \in Messages
  BY EventsTyped
<1>2. /\ Len(events') = Len(events) + Len(ks)
      /\ \A i \in 1..Len(events) : events'[i] = events[i]
      /\ \A i \in 1..Len(ks) : events'[Len(events) + i] = [kind |-> ks[i], turn |-> m]
  BY <1>1, EmitProperties
<1>3. ASSUME NEW i \in 1..Len(events'), i \notin 1..Len(events)
      PROVE  /\ i - Len(events) \in 1..Len(ks)
             /\ events'[i] = [kind |-> ks[i - Len(events)], turn |-> m]
  <2>1. i \in 1..Len(events) + Len(ks)
    BY <1>2
  <2>2. i - Len(events) \in 1..Len(ks) /\ i = Len(events) + (i - Len(events))
    BY <1>1, <1>3, <2>1, Offset
  <2> QED BY <1>2, <2>2
<1> QED BY <1>1, <1>2, <1>3

\* A turn that is not over sends an event that is not terminal.
LEMMA MoreLog ==
  ASSUME TypeOK, LogInv, NEW m \in Messages, Alive(m),
         NEW k \in {"stopped", "received", "input"}, Emit(<<k>>, m),
         \/ k = "stopped" /\ UNCHANGED task
         \/ \E s \in {"working", "asking"} : task' = [task EXCEPT ![m] = s]
  PROVE  LogInv'
<1>1. <<k>> \in Seq(Kinds) /\ Len(<<k>>) = 1 /\ <<k>>[1] = k
  BY DEF Kinds
<1>2. /\ Len(events) \in Nat /\ Len(events') = Len(events) + 1
      /\ \A i \in 1..Len(events) : events'[i] = events[i] /\ events[i].turn \in Messages
      /\ \A i \in 1..Len(events') : i \notin 1..Len(events) =>
            events'[i].turn = m /\ events'[i].kind = k
  <2>1. ASSUME NEW i \in 1..Len(events'), i \notin 1..Len(events)
        PROVE  events'[i].turn = m /\ events'[i].kind = k
    <3> DEFINE ks == <<k>>
    <3>0. ks \in Seq(Kinds) /\ Len(ks) = 1 /\ ks[1] = k /\ Emit(ks, m)
      BY <1>1
    <3> HIDE DEF ks
    <3>1. /\ i - Len(events) \in 1..Len(ks)
          /\ events'[i] = [kind |-> ks[i - Len(events)], turn |-> m]
      BY <2>1, <3>0, SentLog
    <3>2. i - Len(events) = 1
      BY <3>0, <3>1
    <3> QED BY <3>0, <3>1, <3>2
  <2> QED BY <1>1, <2>1, SentLog
<1>3. /\ task' \in [Messages -> {"none", "attached", "created", "working", "asking", "ended"}]
      /\ \A n \in Messages \ {m} : task'[n] = task[n]
      /\ task[m] # "ended" /\ task'[m] # "ended"
      /\ task[m] \in {"working", "asking"} \/ k = "received" => task'[m] \in {"working", "asking"}
  BY DEF TypeOK, Alive
<1>4. \A i \in 1..Len(events') : events'[i].kind \in Terminal => task'[events'[i].turn] = "ended"
  BY <1>2, <1>3 DEF LogInv, Terminal
<1>5. \A i \in 1..Len(events') :
         events'[i].kind = "received" => task'[events'[i].turn] \in {"working", "asking", "ended"}
  BY <1>2, <1>3 DEF LogInv
<1>6. ASSUME NEW n \in Messages,
             NEW b \in 1..Len(events'), events'[b].turn = n, events'[b].kind = "received",
             NEW i \in 1..Len(events'), events'[i].turn = n
      PROVE  events'[i].kind = "idle"
               <=> /\ task'[n] = "ended"
                   /\ \A j \in 1..Len(events') : events'[j].turn = n => j <= i
  <2>1. CASE n = m
    BY <1>3, <1>4, <1>6, <2>1 DEF Terminal
  <2>2. CASE n # m
    <3>1. \A j \in 1..Len(events') : events'[j].turn = n
             <=> j \in 1..Len(events) /\ events[j].turn = n
      BY <1>2, <2>2
    <3>2. /\ b \in 1..Len(events) /\ i \in 1..Len(events)
          /\ events[b] = events'[b] /\ events[i] = events'[i]
      BY <1>2, <1>6, <3>1
    <3>3. 1..Len(events) \subseteq 1..Len(events')
      BY <1>2
    <3>4. events[i].kind = "idle"
             <=> /\ task[n] = "ended"
                 /\ \A j \in 1..Len(events) : events[j].turn = n => j <= i
      BY <1>6, <3>2, IdleOnce DEF LogInv
    <3> QED BY <1>3, <2>2, <3>1, <3>2, <3>3, <3>4
  <2> QED BY <2>1, <2>2
<1> QED BY <1>4, <1>5, <1>6 DEF LogInv, IdleIsLast

\* The finally clause: the events of an ended turn are complete, and the last
\* one is session_idle.
LEMMA OverLog ==
  ASSUME TypeOK, LogInv, NEW m \in Messages, Alive(m),
         NEW ks \in {<<>>, <<"done">>, <<"error">>, <<"cancelled">>}, TurnOver(m, ks)
  PROVE  LogInv'
<1> DEFINE all == Append(ks, "idle")
<1>1. /\ all \in Seq(Kinds) /\ Len(all) \in 1..2 /\ Emit(all, m)
      /\ \A i \in 1..Len(all) : all[i] = "idle" <=> i = Len(all)
      /\ \A i \in 1..Len(all) : all[i] # "received"
  <2>1. ks \in Seq(Kinds) /\ Len(ks) \in 0..1
        /\ \A i \in 1..Len(ks) : ks[i] \in {"done", "error", "cancelled"}
    <3>1. CASE ks = <<>>
      <4>1. ks \in Seq(Kinds) /\ Len(ks) = 0
        BY <3>1, EmptySeq
      <4> QED BY <4>1
    <3>2. ASSUME NEW k \in {"done", "error", "cancelled"}, ks = <<k>>
          PROVE  ks \in Seq(Kinds) /\ Len(ks) = 1 /\ ks[1] = k
      BY <3>2 DEF Kinds
    <3>3. ks = <<>> \/ \E k \in {"done", "error", "cancelled"} : ks = <<k>>
      OBVIOUS
    <3>4. ASSUME NEW k \in {"done", "error", "cancelled"}, ks = <<k>>
          PROVE  /\ ks \in Seq(Kinds) /\ Len(ks) \in 0..1
                 /\ \A i \in 1..Len(ks) : ks[i] \in {"done", "error", "cancelled"}
      <4>1. ks \in Seq(Kinds) /\ Len(ks) = 1 /\ ks[1] = k
        BY <3>2, <3>4
      <4> QED BY <4>1
    <3> QED BY <3>1, <3>3, <3>4
  <2>2. /\ all \in Seq(Kinds) /\ Len(all) = Len(ks) + 1
        /\ \A i \in 1..Len(ks) : all[i] = ks[i]
        /\ all[Len(ks) + 1] = "idle"
    BY <2>1, AppendProperties DEF Kinds
  <2>3. \A i \in 1..Len(all) : i \in 1..Len(ks) \/ i = Len(all)
    BY <2>1, <2>2
  <2>4. \A i \in 1..Len(ks) : i # Len(all)
    BY <2>1, <2>2
  <2>5. Emit(all, m)
    BY DEF TurnOver
  <2> HIDE DEF all
  <2> QED BY <2>1, <2>2, <2>3, <2>4, <2>5
<1> HIDE DEF all
<1>2. /\ Len(events) \in Nat /\ Len(events') = Len(events) + Len(all)
      /\ \A i \in 1..Len(events) : events'[i] = events[i] /\ events[i].turn \in Messages
      /\ \A i \in 1..Len(events') : i \notin 1..Len(events) =>
            i - Len(events) \in 1..Len(all)
            /\ events'[i] = [kind |-> all[i - Len(events)], turn |-> m]
  BY <1>1, SentLog
<1>n. ASSUME NEW i \in 1..Len(events'), i \notin 1..Len(events)
      PROVE  /\ events'[i].turn = m /\ events'[i].kind # "received"
             /\ events'[i].kind = "idle" <=> i = Len(events')
  <2>1. i - Len(events) = Len(all) <=> i = Len(events')
    BY <1>1, <1>2
  <2> QED BY <1>1, <1>2, <1>n, <2>1
<1>3. /\ \A n \in Messages \ {m} : task'[n] = task[n]
      /\ task[m] # "ended" /\ task'[m] = "ended"
  BY DEF TypeOK, Alive, TurnOver
<1>4. \A i \in 1..Len(events') : events'[i].kind \in Terminal => task'[events'[i].turn] = "ended"
  BY <1>2, <1>3, <1>n DEF LogInv
<1>5. \A i \in 1..Len(events') :
         events'[i].kind = "received" => task'[events'[i].turn] \in {"working", "asking", "ended"}
  BY <1>2, <1>3, <1>n DEF LogInv
<1>6. ASSUME NEW n \in Messages,
             NEW b \in 1..Len(events'), events'[b].turn = n, events'[b].kind = "received",
             NEW i \in 1..Len(events'), events'[i].turn = n
      PROVE  events'[i].kind = "idle"
               <=> /\ task'[n] = "ended"
                   /\ \A j \in 1..Len(events') : events'[j].turn = n => j <= i
  <2>1. CASE n = m
    <3>1. Len(events') \in 1..Len(events') /\ Len(events') \notin 1..Len(events)
      BY <1>1, <1>2
    <3>2. events'[Len(events')].turn = m /\ i <= Len(events')
      BY <1>n, <3>1
    <3>3. CASE i \in 1..Len(events)
      <4>1. events'[i].kind # "idle"
        BY <1>2, <1>3, <1>6, <2>1, <3>3 DEF LogInv, Terminal
      <4>2. Len(all) \in Nat /\ Len(all) > 0
        BY <1>1
      <4>3. ~(Len(events') <= i)
        BY <1>2, <3>3, <4>2
      <4> QED BY <2>1, <3>1, <3>2, <4>1, <4>3
    <3>4. CASE i \notin 1..Len(events)
      <4>1. events'[i].kind = "idle" <=> i = Len(events')
        BY <1>n, <3>4
      <4>2. i = Len(events') <=> \A j \in 1..Len(events') : events'[j].turn = n => j <= i
        <5>1. \A j \in 1..Len(events') : j <= Len(events')
          OBVIOUS
        <5>2. Len(events') <= i => i = Len(events')
          BY <3>1, <3>2
        <5> QED BY <2>1, <3>1, <3>2, <5>1, <5>2
      <4> QED BY <1>3, <2>1, <4>1, <4>2
    <3> QED BY <3>3, <3>4
  <2>2. CASE n # m
    <3>1. \A j \in 1..Len(events') : events'[j].turn = n
             <=> j \in 1..Len(events) /\ events[j].turn = n
      BY <1>2, <1>n, <2>2
    <3>2. /\ b \in 1..Len(events) /\ i \in 1..Len(events)
          /\ events[b] = events'[b] /\ events[i] = events'[i]
      BY <1>2, <1>6, <3>1
    <3>3. 1..Len(events) \subseteq 1..Len(events')
      BY <1>1, <1>2
    <3>4. events[i].kind = "idle"
             <=> /\ task[n] = "ended"
                 /\ \A j \in 1..Len(events) : events[j].turn = n => j <= i
      BY <1>6, <3>2, IdleOnce DEF LogInv
    <3> QED BY <1>3, <2>2, <3>1, <3>2, <3>3, <3>4
  <2> QED BY <2>1, <2>2
<1> QED BY <1>4, <1>5, <1>6 DEF LogInv, IdleIsLast

LEMMA NextLog == TypeOK /\ LogInv /\ [Next]_vars => LogInv'
<1> SUFFICES ASSUME TypeOK, LogInv, [Next]_vars PROVE LogInv'
  OBVIOUS
<1>t. task \in [Messages -> {"none", "attached", "created", "working", "asking", "ended"}]
  BY DEF TypeOK
<1>1. ASSUME NEW m \in Messages, Chat(m)
      PROVE  LogInv'
  BY <1>t, <1>1, QuietLog DEF Chat
<1>2. CASE Stop
  <2>1. active \in Messages /\ Alive(active) /\ Emit(<<"stopped">>, active) /\ UNCHANGED task
    BY <1>2 DEF Stop, TypeOK
  <2> QED BY <2>1, MoreLog
<1>3. ASSUME NEW m \in Messages, TaskStep(m)
      PROVE  LogInv'
  <2>1. CASE TaskBegin(m)
    BY <2>1, MoreLog DEF TaskBegin, Alive
  <2>2. CASE TaskFinish(m)
    BY <2>2, OverLog DEF TaskFinish, Alive
  <2>3. CASE TaskCancelled(m)
    <3>1. CASE task[m] = "created" /\ UNCHANGED events /\ task' = [task EXCEPT ![m] = "ended"]
      BY <1>t, <3>1, QuietLog
    <3>2. CASE TurnOver(m, <<"cancelled">>)
      BY <2>3, <3>2, OverLog DEF TaskCancelled
    <3> QED BY <2>3, <3>1, <3>2 DEF TaskCancelled, OnCancel
  <2>4. CASE Ask(m)
    BY <2>4, MoreLog DEF Ask, Alive
  <2>5. CASE AskReturns(m)
    BY <1>t, <2>5, QuietLog DEF AskReturns
  <2> QED BY <1>3, <2>1, <2>2, <2>3, <2>4, <2>5 DEF TaskStep
<1>4. CASE \/ Clear
           \/ \E q \in Questions : UserAnswers(q)
           \/ \E m \in Messages : StreamStep(m)
           \/ UNCHANGED vars
  <2>1. UNCHANGED <<task, events>>
    BY <1>4 DEF Clear, UserAnswers, StreamStep, Open, Replay, Replayed, Read, Drain, turns, vars
  <2> QED BY <2>1, QuietLog
<1> QED BY <1>1, <1>2, <1>3, <1>4 DEF Next, Quiet

\* "session_idle: background task finished; stream closes after this": for
\* any number of messages, stops and history resets, a turn that has begun
\* sends session_idle when it ends, once and as the last of its events.
THEOREM IdleLast == Spec => []IdleIsLast
<1>1. LogInv => IdleIsLast
  BY DEF LogInv
<1> QED BY <1>1, InitTypes, NextTypes, InitLog, NextLog, PTL DEF Spec

-----------------------------------------------------------------------------
(* A stream does not end before its turn *)

\* The stream of m has everything up to n of a turn that is over.
Complete(m, n) ==
    /\ task[m] = "ended"
    /\ \A i \in 1..Len(events) : events[i].turn = m => i <= n

\* Between the chat and the subscription only the turn itself sends; so a
\* snapshot that ends with a terminal event has all of a turn that is over.
StreamInv ==
    \A m \in Messages :
        /\ stream[m] # "none" => task[m] # "none"
        /\ stream[m] = "posted" /\ Alive(m) =>
              \A i \in 1..Len(events) : i > pos[m] => events[i].turn = m
        /\ stream[m] = "replay" =>
              /\ snap[m] # 0
              /\ events[snap[m]].kind \in Terminal /\ task[m] # "attached"
                    => Complete(m, snap[m])
        /\ stream[m] = "drain" /\ task[m] # "attached" => task[m] = "ended"
        /\ stream[m] = "closed" /\ task[m] # "attached" => Complete(m, pos[m])

LEMMA InitStream == Init => StreamInv
  BY DEF Init, StreamInv

\* A step of the turn m that may send events of m and may end it.
LEMMA TurnStream ==
  ASSUME TypeOK, TurnInv, StreamInv, NEW m \in Messages, Alive(m),
         UNCHANGED <<stream, pos, snap>>,
         \E s \in {"working", "asking", "ended"} : task' = [task EXCEPT ![m] = s],
         UNCHANGED events \/ \E ks \in Seq(Kinds) : Emit(ks, m)
  PROVE  StreamInv'
<1>t. /\ task \in [Messages -> {"none", "attached", "created", "working", "asking", "ended"}]
      /\ snap \in [Messages -> 0..Len(events)] /\ Len(events) \in Nat
  BY EventsTyped DEF TypeOK
<1>1. /\ Len(events') \in Nat /\ Len(events') >= Len(events)
      /\ \A i \in 1..Len(events) : events'[i] = events[i]
      /\ \A i \in 1..Len(events') : i \notin 1..Len(events) => events'[i].turn = m
  <2>1. CASE UNCHANGED events
    BY <1>t, <2>1
  <2>2. ASSUME NEW ks \in Seq(Kinds), Emit(ks, m)
        PROVE  /\ Len(events') \in Nat /\ Len(events') >= Len(events)
               /\ \A i \in 1..Len(events) : events'[i] = events[i]
               /\ \A i \in 1..Len(events') : i \notin 1..Len(events) => events'[i].turn = m
    <3>1. /\ Len(events) \in Nat /\ Len(ks) \in Nat /\ Len(events') = Len(events) + Len(ks)
          /\ \A i \in 1..Len(events) : events'[i] = events[i]
          /\ \A i \in 1..Len(events') : i \notin 1..Len(events) =>
                events'[i] = [kind |-> ks[i - Len(events)], turn |-> m]
      BY <2>2, SentLog
    <3> QED BY <3>1
  <2> QED BY <2>1, <2>2
<1>2. /\ \A n \in Messages \ {m} : task'[n] = task[n] /\ ~Alive(n)
      /\ task[m] \notin {"none", "attached", "ended"} /\ task'[m] \notin {"none", "attached"}
  BY <1>t DEF TurnInv, Alive
<1>3. ASSUME NEW n \in Messages, NEW k, Complete(n, k)
      PROVE  Complete(n, k)'
  <2>1. n # m
    BY <1>2, <1>3 DEF Complete
  <2> QED BY <1>1, <1>2, <1>3, <2>1 DEF Complete
<1>4. ASSUME NEW n \in Messages
      PROVE  /\ stream'[n] # "none" => task'[n] # "none"
             /\ stream'[n] = "posted" /\ Alive(n)' =>
                   \A i \in 1..Len(events') : i > pos'[n] => events'[i].turn = n
             /\ stream'[n] = "drain" /\ task'[n] # "attached" => task'[n] = "ended"
  <2>1. CASE n = m
    <3>1. stream[m] # "drain" /\ stream'[m] = stream[m] /\ pos'[m] = pos[m]
      BY <1>2 DEF StreamInv
    <3>2. stream[m] = "posted" => \A i \in 1..Len(events) : i > pos[m] => events[i].turn = m
      BY DEF StreamInv
    <3>3. stream[m] = "posted" => \A i \in 1..Len(events') : i > pos[m] => events'[i].turn = m
      BY <1>1, <3>2
    <3> QED BY <1>2, <2>1, <3>1, <3>3
  <2>2. CASE n # m
    <3>1. /\ task'[n] = task[n] /\ ~Alive(n) /\ ~Alive(n)'
          /\ stream'[n] = stream[n]
      BY <1>2, <2>2 DEF Alive
    <3> QED BY <3>1 DEF StreamInv
  <2> QED BY <2>1, <2>2
<1>5. ASSUME NEW n \in Messages, stream'[n] = "replay"
      PROVE  /\ snap'[n] # 0
             /\ events'[snap'[n]].kind \in Terminal /\ task'[n] # "attached"
                   => Complete(n, snap[n])'
  <2>1. snap[n] # 0 /\ snap[n] \in 1..Len(events) /\ snap'[n] = snap[n]
    BY <1>t, <1>5 DEF StreamInv
  <2>2. events'[snap[n]] = events[snap[n]]
    BY <1>1, <2>1
  <2>3. task'[n] # "attached" => task[n] # "attached"
    BY <1>2
  <2> QED BY <1>3, <1>5, <2>1, <2>2, <2>3 DEF StreamInv
<1>6. ASSUME NEW n \in Messages, stream'[n] = "closed", task'[n] # "attached"
      PROVE  Complete(n, pos[n])'
  <2>1. task[n] # "attached"
    BY <1>2, <1>6
  <2>2. Complete(n, pos[n])
    BY <1>6, <2>1 DEF StreamInv
  <2>3. Complete(n, pos[n])' <=> /\ task'[n] = "ended"
                                 /\ \A i \in 1..Len(events') : events'[i].turn = n => i <= pos[n]
    BY DEF Complete
  <2>4. n # m
    BY <1>2, <2>2 DEF Complete
  <2> QED BY <1>1, <1>2, <2>2, <2>3, <2>4 DEF Complete
<1> QED BY <1>4, <1>5, <1>6 DEF StreamInv

\* A step of the stream of m.
LEMMA OwnStream ==
  ASSUME TypeOK, TurnInv, LogInv, StreamInv, NEW m \in Messages, StreamStep(m)
  PROVE  StreamInv'
<1>t. /\ stream \in [Messages -> {"none", "posted", "replay", "live", "drain", "closed"}]
      /\ pos \in [Messages -> 0..Len(events)] /\ snap \in [Messages -> 0..Len(events)]
      /\ task \in [Messages -> {"none", "attached", "created", "working", "asking", "ended"}]
      /\ cleared \in 0..Len(events) /\ Len(events) \in Nat
  BY EventsTyped DEF TypeOK
<1>m. UNCHANGED <<task, events>>
  BY DEF StreamStep, Open, Replay, Replayed, Read, Drain, turns
<1>0. stream[m] # "none" /\ task[m] # "none"
  BY DEF StreamStep, Open, Replay, Replayed, Read, Drain, StreamInv
<1>1. ~running => task[m] \in {"attached", "ended"}
  BY <1>0, <1>t DEF TurnInv, Alive
<1>2. \A n \in Messages \ {m} : stream'[n] = stream[n] /\ pos'[n] = pos[n] /\ snap'[n] = snap[n]
  BY <1>t DEF StreamStep, Open, Replay, Replayed, Read, Drain
<1> DEFINE Good(n) ==
             /\ stream[n] # "none" => task[n] # "none"
             /\ stream[n] = "posted" /\ Alive(n) =>
                   \A i \in 1..Len(events) : i > pos[n] => events[i].turn = n
             /\ stream[n] = "replay" =>
                   /\ snap[n] # 0
                   /\ events[snap[n]].kind \in Terminal /\ task[n] # "attached"
                         => Complete(n, snap[n])
             /\ stream[n] = "drain" /\ task[n] # "attached" => task[n] = "ended"
             /\ stream[n] = "closed" /\ task[n] # "attached" => Complete(n, pos[n])
<1>3. ASSUME NEW n \in Messages \ {m}
      PROVE  Good(n)'
  <2>1. /\ stream'[n] = stream[n] /\ pos'[n] = pos[n] /\ snap'[n] = snap[n]
        /\ task' = task /\ events' = events
    BY <1>2, <1>m, <1>3
  <2>2. /\ Complete(n, snap[n])' <=> Complete(n, snap[n])
        /\ Complete(n, pos[n])' <=> Complete(n, pos[n])
        /\ Alive(n)' <=> Alive(n)
    BY <2>1 DEF Complete, Alive
  <2>3. Good(n)
    BY <1>3 DEF StreamInv
  <2> QED BY <2>1, <2>2, <2>3
<1>4. CASE Open(m)
  <2> DEFINE start == IF pos[m] < cleared THEN cleared ELSE pos[m]
             size  == IF cleared < Len(events) THEN Len(events) ELSE 0
  <2>1. /\ stream[m] = "posted"
        /\ snap'[m] = size
        /\ pos'[m] = start
        /\ stream'[m] = IF start < size THEN "replay" ELSE AfterReplay(size)
    BY <1>4, <1>t DEF Open
  <2>2. /\ start \in Nat /\ size \in 0..Len(events) /\ pos[m] <= start
        /\ size # 0 => size = Len(events)
    BY <1>t
  <2> HIDE DEF start, size
  <2>3. CASE start < size
    <3>1. size # 0 /\ size = Len(events) /\ size \in 1..Len(events) /\ size > pos[m]
      BY <1>t, <2>2, <2>3
    <3>2. ASSUME events[size].kind \in Terminal, task[m] # "attached"
          PROVE  task[m] = "ended"
      <4>1. task[events[size].turn] = "ended"
        BY <3>1, <3>2 DEF LogInv
      <4>2. Alive(m) => events[size].turn = m
        BY <2>1, <3>1 DEF StreamInv
      <4>3. ~Alive(m)
        BY <4>1, <4>2 DEF Alive
      <4> QED BY <1>0, <1>t, <3>2, <4>3 DEF Alive
    <3>3. \A i \in 1..Len(events) : i <= size
      BY <3>1
    <3>4. stream'[m] = "replay"
      BY <2>1, <2>3
    <3> QED BY <1>m, <2>1, <3>1, <3>2, <3>3, <3>4, <1>0, <1>3 DEF StreamInv, Complete
  <2>4. CASE ~(start < size)
    <3>1. stream'[m] = "live" \/ (stream'[m] = "closed" /\ size # 0 /\ ~running)
      BY <2>1, <2>4 DEF AfterReplay
    <3>2. ASSUME size # 0
          PROVE  \A i \in 1..Len(events) : i <= pos'[m]
      BY <1>t, <2>1, <2>2, <2>4, <3>2
    <3> QED BY <1>m, <1>0, <1>1, <3>1, <3>2, <1>3 DEF StreamInv, Complete
  <2> QED BY <2>3, <2>4
<1>5. CASE Replay(m)
  <2>1. stream'[m] = "replay" /\ stream[m] = "replay" /\ snap'[m] = snap[m]
    BY <1>5, <1>t DEF Replay
  <2> QED BY <1>m, <1>3, <2>1 DEF StreamInv, Complete
<1>6. CASE Replayed(m)
  <2>1. /\ stream[m] = "replay" /\ pos'[m] = pos[m] /\ snap'[m] = snap[m]
        /\ stream'[m] = AfterReplay(snap[m]) /\ pos[m] >= snap[m]
    BY <1>6, <1>t DEF Replayed
  <2>2. \/ stream'[m] = "live"
        \/ stream'[m] = "closed" /\ events[snap[m]].kind \in Terminal
    BY <2>1 DEF AfterReplay
  <2>3. ASSUME stream'[m] = "closed", task[m] # "attached"
        PROVE  Complete(m, snap[m])
    BY <2>1, <2>2, <2>3 DEF StreamInv
  <2>4. stream'[m] = "closed" /\ task[m] # "attached" => Complete(m, pos[m])
    BY <1>t, <2>1, <2>3 DEF Complete
  <2>5. Complete(m, pos[m]) => Complete(m, pos[m])'
    BY <1>m, <2>1 DEF Complete
  <2> QED BY <1>m, <1>0, <1>3, <2>1, <2>2, <2>4 DEF StreamInv, Complete
<1>7. CASE Read(m)
  <2>1. stream'[m] = "live" \/ (stream'[m] = "drain" /\ ~running)
    BY <1>7, <1>t DEF Read
  <2> QED BY <1>m, <1>0, <1>1, <1>3, <2>1 DEF StreamInv, Complete
<1>8. CASE Drain(m)
  <2>1. stream[m] = "drain" /\ stream'[m] = "closed" /\ pos'[m] = Len(events)
    BY <1>8, <1>t DEF Drain
  <2> QED BY <1>m, <1>0, <1>3, <2>1, <1>t DEF StreamInv, Complete
<1> QED BY <1>4, <1>5, <1>6, <1>7, <1>8 DEF StreamStep

LEMMA NextStream ==
  ASSUME TypeOK, TurnInv, LogInv, StreamInv, [Next]_vars, stops' = 0
  PROVE  StreamInv'
<1>t. /\ stream \in [Messages -> {"none", "posted", "replay", "live", "drain", "closed"}]
      /\ pos \in [Messages -> 0..Len(events)]
      /\ task \in [Messages -> {"none", "attached", "created", "working", "asking", "ended"}]
      /\ Len(events) \in Nat
  BY EventsTyped DEF TypeOK
<1>1. ASSUME NEW m \in Messages, Chat(m)
      PROVE  StreamInv'
  <2>1. /\ task[m] = "none" /\ stream[m] = "none"
        /\ task'[m] \in {"attached", "created"}
        /\ stream'[m] \in {"none", "posted"} /\ pos'[m] = Len(events)
        /\ UNCHANGED <<events, snap>>
        /\ \A n \in Messages \ {m} :
              task'[n] = task[n] /\ stream'[n] = stream[n] /\ pos'[n] = pos[n]
    BY <1>1, <1>t DEF Chat, StreamInv, Cursor
  <2> QED BY <2>1, <1>t DEF StreamInv, Complete, Alive
<1>2. ASSUME NEW m \in Messages, TaskStep(m)
      PROVE  StreamInv'
  <2>0. ~cancelled[m]
    BY DEF TurnInv
  <2>1. Alive(m) /\ UNCHANGED <<stream, pos, snap>>
    BY <1>2, <2>0 DEF TaskStep, TaskBegin, TaskFinish, TaskCancelled, Ask, AskReturns, Alive,
                      streams
  <2>2. \E s \in {"working", "asking", "ended"} : task' = [task EXCEPT ![m] = s]
    BY <1>2, <2>0 DEF TaskStep, TaskBegin, TaskFinish, TaskCancelled, Ask, AskReturns, TurnOver
  <2>3. UNCHANGED events \/ \E ks \in Seq(Kinds) : Emit(ks, m)
    <3>1. CASE TaskBegin(m)
      BY <3>1, Emitted DEF TaskBegin, Kinds
    <3>2. CASE TaskFinish(m)
      BY <3>2, Emitted DEF TaskFinish, TurnOver
    <3>3. CASE Ask(m)
      BY <3>3, Emitted DEF Ask, Kinds
    <3>4. CASE AskReturns(m)
      BY <3>4 DEF AskReturns
    <3> QED BY <1>2, <2>0, <3>1, <3>2, <3>3, <3>4 DEF TaskStep, TaskCancelled
  <2> QED BY <2>1, <2>2, <2>3, TurnStream
<1>3. ASSUME NEW m \in Messages, StreamStep(m)
      PROVE  StreamInv'
  BY <1>3, OwnStream
<1>4. ~Stop
  BY DEF Stop, TypeOK
<1>5. CASE \/ Clear
           \/ \E q \in Questions : UserAnswers(q)
           \/ UNCHANGED vars
  <2>1. UNCHANGED <<task, events, stream, pos, snap>>
    BY <1>5 DEF Clear, UserAnswers, turns, streams, vars
  <2> QED BY <2>1 DEF StreamInv, Complete, Alive
<1> QED BY <1>1, <1>2, <1>3, <1>4, <1>5 DEF Next, Quiet

\* The stream of a chat "contains exactly this turn's events (no stale
\* replay, no missed fast turns)": as long as nobody stops a turn, and for
\* any number of messages and history resets, a stream does not close before
\* its turn is over and all of the turn's events are sent, but for those that a
\* reset cleared from the ring before the stream subscribed.
THEOREM StreamComplete == Spec => [](stops = 0 => StreamHasTurn)
<1> DEFINE Inv == TypeOK /\ LogInv /\ (stops = 0 => TurnInv /\ StreamInv)
<1>1. Init => Inv
  BY InitTypes, InitLog, InitTurn, InitStream
<1>2. Inv /\ [Next]_vars => Inv'
  <2>1. TypeOK => stops \in Nat
    BY DEF TypeOK
  <2> QED BY <2>1, NextTypes, NextLog, NextTurn, NextStream, StopsGrow
<1>3. Inv => (stops = 0 => StreamHasTurn)
  BY DEF StreamInv, StreamHasTurn, Complete
<1> HIDE DEF Inv
<1> QED BY <1>1, <1>2, <1>3, PTL DEF Spec

-----------------------------------------------------------------------------
(* What an open stream waits for *)

\* A connection that has sent all there is and waits for more waits for a turn
\* that is under way.
NoStreamStranded ==
    \A m \in Messages : stream[m] = "live" /\ pos[m] = Len(events) => TurnUnderWay

\* Between turns the last event is session_idle, so that a connection that
\* comes to the end of the log then finds a reason to close.  A reset would
\* take that event out of the ring.
WaitInv ==
    /\ cleared = 0
    /\ running => active # None /\ Alive(active)
    /\ ~running => \/ \A m \in Messages : stream[m] = "none"
                   \/ Len(events) # 0 /\ events[Len(events)].kind = "idle"
    /\ \A m \in Messages :
          /\ task[m] = "none" => stream[m] = "none"
          /\ stream[m] = "replay" => pos[m] <= snap[m]
          /\ stream[m] = "live" /\ pos[m] = Len(events) => running

LEMMA ClearsGrow ==
  ASSUME TypeOK, [Next]_vars, clears' = 0
  PROVE  clears = 0 /\ ~Clear
<1>t. clears \in Nat
  BY DEF TypeOK
<1>1. ~Clear
  BY <1>t DEF Clear
<1>2. ASSUME NEW m \in Messages, Chat(m)
      PROVE  clears = 0
  BY <1>2 DEF Chat
<1>3. ASSUME NEW m \in Messages, TaskStep(m)
      PROVE  clears = 0
  BY <1>3 DEF TaskStep, TaskBegin, TaskFinish, TaskCancelled, Ask, AskReturns
<1>4. ASSUME NEW m \in Messages, StreamStep(m)
      PROVE  clears = 0
  BY <1>4 DEF StreamStep, Open, Replay, Replayed, Read, Drain
<1>5. ASSUME Stop \/ UNCHANGED vars
      PROVE  clears = 0
  BY <1>5 DEF Stop, vars
<1>6. ASSUME NEW q \in Questions, UserAnswers(q)
      PROVE  clears = 0
  BY <1>6 DEF UserAnswers
<1> QED BY <1>1, <1>2, <1>3, <1>4, <1>5, <1>6 DEF Next, Quiet

LEMMA InitWait == Init => WaitInv
  BY DEF Init, WaitInv

\* A step of the turn m that leaves the flag up, or ends the turn with
\* session_idle.
LEMMA TurnWait ==
  ASSUME TypeOK, TurnInv, WaitInv, NEW m \in Messages, Alive(m),
         UNCHANGED <<active, cleared, stream, pos, snap>>,
         \/ /\ UNCHANGED running
            /\ \E s \in {"working", "asking"} : task' = [task EXCEPT ![m] = s]
            /\ UNCHANGED events \/ \E ks \in Seq(Kinds) : Emit(ks, m)
         \/ /\ running' = FALSE
            /\ task' = [task EXCEPT ![m] = "ended"]
            /\ \E ks \in Seq(Kinds) : Emit(Append(ks, "idle"), m)
  PROVE  WaitInv'
<1>t. /\ task \in [Messages -> {"none", "attached", "created", "working", "asking", "ended"}]
      /\ pos \in [Messages -> 0..Len(events)] /\ Len(events) \in Nat
  BY EventsTyped DEF TypeOK
<1>0. running /\ active = m
  BY DEF TurnInv
<1>1. CASE /\ UNCHANGED running
           /\ \E s \in {"working", "asking"} : task' = [task EXCEPT ![m] = s]
           /\ UNCHANGED events \/ \E ks \in Seq(Kinds) : Emit(ks, m)
  <2>1. running' /\ active' # None /\ Alive(active)'
    BY <1>0, <1>1, <1>t DEF Alive
  <2>2. \A n \in Messages : task'[n] = "none" => task[n] = "none"
    BY <1>1, <1>t
  <2>3. cleared' = 0
    BY DEF WaitInv
  <2>4. \A n \in Messages :
           /\ task'[n] = "none" => stream'[n] = "none"
           /\ stream'[n] = "replay" => pos'[n] <= snap'[n]
    BY <2>2 DEF WaitInv
  <2> QED BY <2>1, <2>3, <2>4 DEF WaitInv
<1>2. ASSUME running' = FALSE, task' = [task EXCEPT ![m] = "ended"],
             NEW ks \in Seq(Kinds), Emit(Append(ks, "idle"), m)
      PROVE  WaitInv'
  <2>1. Append(ks, "idle") \in Seq(Kinds) /\ Len(ks) \in Nat
    BY <1>2 DEF Kinds
  <2>2. /\ Len(Append(ks, "idle")) = Len(ks) + 1
        /\ Append(ks, "idle")[Len(ks) + 1] = "idle"
    BY <1>2
  <2>3. /\ Len(events') = Len(events) + (Len(ks) + 1)
        /\ \A i \in 1..Len(events') : i \notin 1..Len(events) =>
              events'[i] = [kind |-> Append(ks, "idle")[i - Len(events)], turn |-> m]
    <3>1. PICK sent \in Seq(Kinds) : sent = Append(ks, "idle")
      BY <2>1
    <3>2. Emit(sent, m)
      BY <1>2, <3>1
    <3>3. /\ Len(events') = Len(events) + Len(sent)
          /\ \A i \in 1..Len(events') : i \notin 1..Len(events) =>
                events'[i] = [kind |-> sent[i - Len(events)], turn |-> m]
      BY <3>2, SentLog
    <3> QED BY <2>2, <3>1, <3>3
  <2>4. /\ Len(events') \in 1..Len(events') /\ Len(events') \notin 1..Len(events)
        /\ Len(events') - Len(events) = Len(ks) + 1
    BY <1>t, <2>1, <2>3
  <2>5. events'[Len(events')].kind = "idle"
    BY <2>2, <2>3, <2>4
  <2>6. \A n \in Messages : pos[n] # Len(events')
    BY <1>t, <2>1, <2>3
  <2>7. \A n \in Messages : task'[n] = "none" => task[n] = "none"
    BY <1>2, <1>t
  <2>8. cleared' = 0 /\ ~running' /\ Len(events') # 0
    BY <1>2, <1>t, <2>1, <2>3 DEF WaitInv
  <2>9. \A n \in Messages :
           /\ task'[n] = "none" => stream'[n] = "none"
           /\ stream'[n] = "replay" => pos'[n] <= snap'[n]
    BY <2>7 DEF WaitInv
  <2> QED BY <2>5, <2>6, <2>8, <2>9 DEF WaitInv
<1> QED BY <1>1, <1>2

LEMMA NextWait ==
  ASSUME TypeOK, TurnInv, WaitInv, [Next]_vars, stops' = 0, clears' = 0
  PROVE  WaitInv'
<1>t. /\ stream \in [Messages -> {"none", "posted", "replay", "live", "drain", "closed"}]
      /\ pos \in [Messages -> 0..Len(events)] /\ snap \in [Messages -> 0..Len(events)]
      /\ task \in [Messages -> {"none", "attached", "created", "working", "asking", "ended"}]
      /\ running \in BOOLEAN /\ Len(events) \in Nat
  BY EventsTyped DEF TypeOK
<1>1. ASSUME NEW m \in Messages, Chat(m)
      PROVE  WaitInv'
  <2>1. /\ task[m] = "none" /\ stream[m] = "none" /\ m # None
        /\ stream'[m] \in {"none", "posted"} /\ task'[m] # "none"
        /\ UNCHANGED <<events, cleared, snap>>
        /\ \A n \in Messages \ {m} :
              task'[n] = task[n] /\ stream'[n] = stream[n] /\ pos'[n] = pos[n]
    BY <1>1, <1>t DEF Chat, WaitInv
  <2>2. running' /\ active' # None /\ Alive(active)'
    <3>1. CASE TurnUnderWay
      <4>1. /\ running /\ active # None /\ active \in Messages \ {m} /\ Alive(active)
        BY <2>1, <3>1 DEF TurnUnderWay, Alive, TypeOK
      <4>2. UNCHANGED <<running, active>>
        BY <1>1, <3>1 DEF Chat
      <4> QED BY <2>1, <4>1, <4>2 DEF Alive
    <3>2. CASE ~TurnUnderWay
      <4>1. running' = TRUE /\ active' = m /\ task'[m] = "created"
        BY <1>1, <1>t, <3>2 DEF Chat
      <4> QED BY <2>1, <4>1 DEF Alive
    <3> QED BY <3>1, <3>2
  <2>3. cleared' = 0
    BY <2>1 DEF WaitInv
  <2>4. \A n \in Messages :
           /\ task'[n] = "none" => stream'[n] = "none"
           /\ stream'[n] = "replay" => pos'[n] <= snap'[n]
    BY <2>1 DEF WaitInv
  <2> QED BY <2>2, <2>3, <2>4 DEF WaitInv
<1>2. ASSUME NEW m \in Messages, TaskStep(m)
      PROVE  WaitInv'
  <2>0. ~cancelled[m]
    BY DEF TurnInv
  <2>1. Alive(m) /\ UNCHANGED <<active, cleared, stream, pos, snap>>
    BY <1>2, <2>0 DEF TaskStep, TaskBegin, TaskFinish, TaskCancelled, Ask, AskReturns, Alive,
                      streams
  <2>2. CASE TaskFinish(m)
    <3>1. PICK ks \in {<<"done">>, <<"error">>, <<>>} : TurnOver(m, ks)
      BY <2>2 DEF TaskFinish
    <3>2. ks \in Seq(Kinds)
      <4>1. <<"done">> \in Seq(Kinds) /\ <<"error">> \in Seq(Kinds)
        BY DEF Kinds
      <4>2. <<>> \in Seq(Kinds)
        OBVIOUS
      <4> QED BY <4>1, <4>2
    <3>3. \E k \in Seq(Kinds) : Emit(Append(k, "idle"), m)
      BY <3>1, <3>2 DEF TurnOver
    <3>4. running' = FALSE /\ task' = [task EXCEPT ![m] = "ended"]
      BY <3>1 DEF TurnOver
    <3> QED BY <2>1, <3>3, <3>4, TurnWait
  <2>3. CASE TaskBegin(m) \/ Ask(m)
    <3>1. UNCHANGED running /\ \E s \in {"working", "asking"} : task' = [task EXCEPT ![m] = s]
      BY <2>3 DEF TaskBegin, Ask
    <3>2. \E ks \in Seq(Kinds) : Emit(ks, m)
      BY <2>3, Emitted DEF TaskBegin, Ask, Kinds
    <3> QED BY <2>1, <3>1, <3>2, TurnWait
  <2>4. CASE AskReturns(m)
    BY <2>1, <2>4, TurnWait DEF AskReturns
  <2> QED BY <1>2, <2>0, <2>2, <2>3, <2>4 DEF TaskStep, TaskCancelled
<1>3. ASSUME NEW m \in Messages, StreamStep(m)
      PROVE  WaitInv'
  <2>0. /\ UNCHANGED <<running, active, task, events, cleared>>
        /\ stream[m] # "none"
    BY <1>3 DEF StreamStep, Open, Replay, Replayed, Read, Drain, turns
  <2>1. \A n \in Messages \ {m} : stream'[n] = stream[n] /\ pos'[n] = pos[n] /\ snap'[n] = snap[n]
    BY <1>3, <1>t DEF StreamStep, Open, Replay, Replayed, Read, Drain
  <2>2. ~running => Len(events) # 0 /\ events[Len(events)].kind \in Terminal
    BY <2>0 DEF WaitInv, Terminal
  <2>3. SUFFICES /\ stream'[m] # "none"
                 /\ stream'[m] = "replay" => pos'[m] <= snap'[m]
                 /\ stream'[m] = "live" /\ pos'[m] = Len(events) => running
    BY <2>0, <2>1 DEF WaitInv, Alive
  <2>4. CASE Open(m)
    <3>1. cleared = 0 /\ ~(pos[m] < cleared)
      BY <1>t DEF WaitInv
    <3> DEFINE size == IF cleared < Len(events) THEN Len(events) ELSE 0
    <3>2. /\ snap'[m] = size /\ pos'[m] = pos[m]
          /\ stream'[m] = IF pos[m] < size THEN "replay" ELSE AfterReplay(size)
      BY <1>t, <2>4, <3>1 DEF Open
    <3>3. size = Len(events)
      BY <1>t, <3>1
    <3> HIDE DEF size
    <3> QED BY <1>t, <2>2, <3>2, <3>3 DEF AfterReplay
  <2>5. CASE Replay(m)
    BY <1>t, <2>5 DEF Replay
  <2>6. CASE Replayed(m)
    <3>1. /\ pos'[m] = pos[m] /\ pos[m] <= snap[m] /\ snap[m] <= pos[m]
          /\ stream'[m] = AfterReplay(snap[m])
      BY <1>t, <2>6 DEF Replayed, WaitInv
    <3> QED BY <1>t, <2>2, <3>1 DEF AfterReplay
  <2>7. CASE Read(m)
    <3>1. /\ pos'[m] = pos[m] + 1
          /\ stream'[m] = IF events[pos[m] + 1].kind \in Terminal /\ ~running THEN "drain" ELSE "live"
      BY <1>t, <2>7 DEF Read
    <3> QED BY <2>2, <3>1
  <2>8. CASE Drain(m)
    BY <1>t, <2>8 DEF Drain
  <2> QED BY <1>3, <2>4, <2>5, <2>6, <2>7, <2>8 DEF StreamStep
<1>4. ~Stop /\ ~Clear
  BY ClearsGrow DEF Stop, TypeOK
<1>5. CASE (\E q \in Questions : UserAnswers(q)) \/ UNCHANGED vars
  <2>1. UNCHANGED <<running, active, task, events, cleared, stream, pos, snap>>
    BY <1>5 DEF UserAnswers, turns, streams, vars
  <2> QED BY <2>1 DEF WaitInv, Alive
<1> QED BY <1>1, <1>2, <1>3, <1>4, <1>5 DEF Next, Quiet

\* The safety half of StreamsClose: as long as nobody stops a turn or resets
\* the history, no stream is left open with nothing to send and no turn whose
\* events it could wait for, for any number of messages and questions.
THEOREM StreamsAwaitATurn == Spec => [](stops = 0 /\ clears = 0 => NoStreamStranded)
<1> DEFINE Inv == TypeOK /\ (stops = 0 => TurnInv) /\ (stops = 0 /\ clears = 0 => WaitInv)
<1>1. Init => Inv
  BY InitTypes, InitTurn, InitWait
<1>2. Inv /\ [Next]_vars => Inv'
  <2>1. TypeOK => stops \in Nat
    BY DEF TypeOK
  <2> QED BY <2>1, NextTypes, NextTurn, NextWait, StopsGrow, ClearsGrow
<1>3. Inv => (stops = 0 /\ clears = 0 => NoStreamStranded)
  BY DEF WaitInv, NoStreamStranded, TurnUnderWay
<1> HIDE DEF Inv
<1> QED BY <1>1, <1>2, <1>3, PTL DEF Spec
=============================================================================
