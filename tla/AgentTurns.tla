------------------------------ MODULE AgentTurns ------------------------------
(***************************************************************************)
(* The turns of the agent of one project and the transcript they leave     *)
(* (run_agent_turn in syte/ai/engine.py, sanitize_openai_messages in       *)
(* syte/ai/providers.py, ai_chat_messages in syte/database.py).  A turn    *)
(* saves the user message, reads back a window of the transcript, and      *)
(* alternates between the gateway and the tools, saving every message in   *)
(* a step of its own.  A stop cancels it at any await, and a later turn    *)
(* starts from what was saved by then.  What is sent to the gateway is     *)
(* repaired on the way.                                                    *)
(***************************************************************************)
EXTENDS Integers, Sequences, FiniteSets, SequencesExt, FiniteSetsExt

CONSTANTS
    MaxTurns,     \* bound on turns
    MaxRounds,    \* rounds of a turn (120)
    MaxCalls,     \* bound on tool calls in one answer of the gateway
    HistoryLimit, \* messages read back at the start of a turn (40)
    MaxErased     \* bound on deletions of a message, and of the transcript

ASSUME AgentTurnsAssumption ==
    /\ MaxTurns \in Nat /\ MaxRounds \in Nat \ {0} /\ MaxCalls \in Nat
    /\ HistoryLimit \in Nat \ {0} /\ MaxErased \in Nat

VARIABLES
    transcript,   \* rows of ai_chat_messages by rowid
    turnPc,       \* where the turn is suspended
    turnRound,    \* current_turn
    conversation, \* formatted_messages
    todo,         \* tool calls of this round that are not executed yet
    turns,        \* turns begun
    answers,      \* answers with tool calls, for ids that no other answer has
    erased,       \* deletions
    pruned       \* history: a single message was deleted

turnVars == <<transcript, turnPc, turnRound, conversation, todo, turns, answers, erased, pruned>>

\* Ids come from the gateway, or from the place of a call in the text.
CallIds == (0..MaxTurns * MaxRounds) \X (1..MaxCalls)
NoId == <<0, 0>>
Message == [role : {"user", "assistant", "tool"}, calls : SUBSET CallIds, of : CallIds \cup {NoId}]

TurnTypeOK ==
    /\ transcript \in Seq(Message) /\ conversation \in Seq(Message)
    /\ turnPc \in {"idle", "load", "round", "gateway", "tools"}
    /\ turnRound \in 0..MaxRounds
    /\ todo \in Seq(CallIds)
    /\ turns \in 0..MaxTurns
    /\ answers \in 0..MaxTurns * MaxRounds
    /\ erased \in 0..MaxErased
    /\ pruned \in BOOLEAN

TurnInit ==
    /\ transcript = <<>> /\ conversation = <<>> /\ todo = <<>>
    /\ turnPc = "idle" /\ turnRound = 0
    /\ turns = 0 /\ answers = 0 /\ erased = 0 /\ pruned = FALSE

User == [role |-> "user", calls |-> {}, of |-> NoId]
Assistant(ids) == [role |-> "assistant", calls |-> ids, of |-> NoId]
Tool(id) == [role |-> "tool", calls |-> {}, of |-> id]

-----------------------------------------------------------------------------
(* sanitize_openai_messages *)

\* Calls that no tool message behind them answers.
Dangling(s) ==
    UNION {{id \in s[i].calls : \A j \in (i + 1)..Len(s) : s[j].of # id} : i \in DOMAIN s}

\* (mutant) tool messages at the beginning stay
WithoutOrphansKept(s) == s

\* Tool messages at the beginning are dropped: the window has cut off, or a
\* reset has deleted, the message they answer.
WithoutOrphans(s) ==
    LET kept == {i \in DOMAIN s : s[i].role # "tool"} IN
    IF kept = {} THEN <<>> ELSE SubSeq(s, Min(kept), Len(s))

\* Made-up answers go to the end.
Sanitized(s) ==
    LET ids == SetToSeq(Dangling(s)) IN
    WithoutOrphans(s \o [i \in DOMAIN ids |-> Tool(ids[i])])

-----------------------------------------------------------------------------
(* run_agent_turn *)

Save(message) == transcript' = Append(transcript, message)
TurnGoto(pc) == turnPc' = pc

BeginTurn ==
    /\ turnPc = "idle" /\ turns < MaxTurns
    /\ Save(User)
    /\ turns' = turns + 1
    /\ turnRound' = 0
    /\ TurnGoto("load")
    /\ UNCHANGED <<conversation, todo, answers, erased, pruned>>

\* list_ai_chat_messages, after the project and the settings.
LoadHistory ==
    /\ turnPc = "load"
    /\ conversation' = SubSeq(transcript, Max({1, Len(transcript) - HistoryLimit + 1}),
                              Len(transcript))
    /\ TurnGoto("round")
    /\ UNCHANGED <<transcript, turnRound, todo, turns, answers, erased, pruned>>

EndTurn ==
    /\ TurnGoto("idle")
    /\ conversation' = <<>> /\ todo' = <<>>

\* (mutant) the loop leaves only after one round more than it may begin
RoundsSpentOver == turnRound > MaxRounds

RoundsSpent == turnRound = MaxRounds

\* The loop ends without a word when the rounds are used up.
StartRound ==
    /\ turnPc = "round"
    /\ \/ /\ turnRound < MaxRounds
          /\ turnRound' = turnRound + 1
          /\ TurnGoto("gateway")
          /\ UNCHANGED <<conversation, todo>>
       \/ /\ RoundsSpent
          /\ EndTurn
          /\ UNCHANGED turnRound
    /\ UNCHANGED <<transcript, turns, answers, erased, pruned>>

\* A timeout in any round but the last: the round is not counted and tried
\* again after two seconds, as often as it takes.
GatewayTimeout ==
    /\ turnPc = "gateway" /\ turnRound < MaxRounds
    /\ turnRound' = turnRound - 1
    /\ TurnGoto("round")
    /\ UNCHANGED <<transcript, conversation, todo, turns, answers, erased, pruned>>

\* Any other error ends the turn and saves nothing.
GatewayError ==
    /\ turnPc = "gateway"
    /\ EndTurn
    /\ UNCHANGED <<transcript, turnRound, turns, answers, erased, pruned>>

\* An answer without tool calls is the reply.
FinalAnswer ==
    /\ turnPc = "gateway"
    /\ Save(Assistant({}))
    /\ EndTurn
    /\ UNCHANGED <<turnRound, turns, answers, erased, pruned>>

\* Calls extracted from the text have the same ids in every answer.
ToolAnswer ==
    /\ turnPc = "gateway"
    /\ \E n \in 1..MaxCalls, own \in BOOLEAN :
          LET ids == [i \in 1..n |-> <<IF own THEN answers + 1 ELSE 0, i>>] IN
          /\ answers' = IF own THEN answers + 1 ELSE answers
          /\ todo' = ids
          /\ Save(Assistant(Range(ids)))
          /\ conversation' = Append(conversation, Assistant(Range(ids)))
    /\ TurnGoto("tools")
    /\ UNCHANGED <<turnRound, turns, erased, pruned>>

\* execute_syte_tool, with a question to the user if need be; its result is
\* saved whatever it is.
RunTool ==
    /\ turnPc = "tools" /\ todo # <<>>
    /\ Save(Tool(Head(todo)))
    /\ conversation' = Append(conversation, Tool(Head(todo)))
    /\ todo' = Tail(todo)
    /\ UNCHANGED <<turnPc, turnRound, turns, answers, erased, pruned>>

NextRound ==
    /\ turnPc = "tools" /\ todo = <<>>
    /\ TurnGoto("round")
    /\ UNCHANGED <<transcript, turnRound, conversation, todo, turns, answers, erased, pruned>>

\* stop_session cancels the task, a crash of the server kills it.
StopTurn ==
    /\ turnPc # "idle"
    /\ EndTurn
    /\ UNCHANGED <<transcript, turnRound, turns, answers, erased, pruned>>

-----------------------------------------------------------------------------
(* Routes that delete messages, at any time *)

\* clear_ai_chat_history; clear_session does not end the turn.
ClearHistory ==
    /\ erased < MaxErased /\ transcript # <<>>
    /\ transcript' = <<>>
    /\ erased' = erased + 1
    /\ UNCHANGED <<turnPc, turnRound, conversation, todo, turns, answers, pruned>>

\* delete_ai_chat_message
DeleteMessage ==
    /\ erased < MaxErased
    /\ \E i \in DOMAIN transcript : transcript' = RemoveAt(transcript, i)
    /\ erased' = erased + 1
    /\ pruned' = TRUE
    /\ UNCHANGED <<turnPc, turnRound, conversation, todo, turns, answers>>

TurnsQuiet == turnPc = "idle" /\ turns = MaxTurns /\ UNCHANGED turnVars

GatewayAnswers == FinalAnswer \/ ToolAnswer
TurnProgress == LoadHistory \/ StartRound \/ RunTool \/ NextRound

TurnNext ==
    \/ BeginTurn \/ TurnProgress \/ GatewayAnswers \/ GatewayTimeout \/ GatewayError
    \/ StopTurn \/ ClearHistory \/ DeleteMessage \/ TurnsQuiet

TurnSpec == TurnInit /\ [][TurnNext]_turnVars

\* The event loop resumes the turn; a gateway that is asked again and again
\* answers some day.
TurnFairSpec ==
    TurnSpec /\ WF_turnVars(TurnProgress) /\ SF_turnVars(GatewayAnswers \/ GatewayError)

-----------------------------------------------------------------------------
(* Properties *)

Request == Sanitized(conversation)

\* Whatever was stopped, killed or reset in earlier turns, and wherever the
\* window begins, every call in a request has an answer behind it and every
\* answer a call before it, provided that nobody deletes single messages.
EveryCallAnswered ==
    turnPc = "gateway" /\ ~pruned =>
        /\ \A i \in DOMAIN Request : \A id \in Request[i].calls :
               \E j \in (i + 1)..Len(Request) : Request[j] = Tool(id)
        /\ \A j \in DOMAIN Request : Request[j].role = "tool" =>
               \E i \in 1..(j - 1) : Request[j].of \in Request[i].calls

\* A turn does not go on for ever, however often the gateway has to be asked
\* twice and however many tools the model calls.
TurnsEnd == (turnPc # "idle") ~> (turnPc = "idle")

\* "strictly adhere to OpenAI spec": the answers to the calls of a message
\* come right behind it.
AnswersFollow ==
    turnPc = "gateway" /\ ~pruned =>
        \A i \in DOMAIN Request :
            \A j \in 1..Cardinality(Request[i].calls) :
                i + j \in DOMAIN Request /\ Request[i + j].of \in Request[i].calls

=============================================================================
