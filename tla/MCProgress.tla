----------------------------- MODULE MCProgress -----------------------------
(***************************************************************************)
(* One instance for TLC of the components that have to get somewhere: the  *)
(* supervisor, the branch watcher, the event streams and the turns of the  *)
(* agent.  They share no state, so that interleaving them would only       *)
(* multiply their states: a behaviour belongs to one of them, chosen in    *)
(* its initial state, and the others do not move.                          *)
(***************************************************************************)
EXTENDS Supervisor, BranchDeploy, EventStream, AgentTurns, TLC

CONSTANT Parts   \* the components that are run

VARIABLE part    \* the component this behaviour belongs to

vars == <<part, supVars, branchVars, streamVars, turnVars>>

\* A component that does not move starts in one of its initial states.
Init ==
    /\ part \in Parts
    /\ SupInit /\ (part # "supervisor" => \A p \in Projects : status[p] = "stopped")
    /\ BranchInit /\ (part # "branch" => deployed = head /\ head = CHOOSE c \in Commits : TRUE)
    /\ StreamInit
    /\ TurnInit

Of(p, Step) ==
    /\ part = p
    /\ Step
    /\ UNCHANGED part
    /\ p # "supervisor" => UNCHANGED supVars
    /\ p # "branch" => UNCHANGED branchVars
    /\ p # "stream" => UNCHANGED streamVars
    /\ p # "turns" => UNCHANGED turnVars

Next ==
    \/ Of("supervisor", SupNext)
    \/ Of("branch", BranchNext)
    \/ Of("stream", StreamNext)
    \/ Of("turns", TurnNext)

\* The fairness of each component, for the behaviours that are its own.
SupervisorFairness ==
    /\ WF_vars(Of("supervisor", BeginPass))
    /\ WF_vars(Of("supervisor", Visit))
    /\ \A p \in Projects : WF_vars(Of("supervisor", OpWrite(p)))

WatcherFairness ==
    /\ WF_vars(Of("branch", CheckStep))
    /\ WF_vars(Of("branch", Fetch \/ Unavailable))
    /\ SF_vars(Of("branch", Fetch))
    /\ WF_vars(Of("branch", DeployEnds))

StreamsFairness ==
    \A c \in Clients :
        /\ WF_vars(Of("stream", Connect(c)))
        /\ WF_vars(Of("stream", Snapshot(c)))
        /\ WF_vars(Of("stream", Send(c)))

TurnsFairness ==
    /\ WF_vars(Of("turns", TurnProgress))
    /\ SF_vars(Of("turns", GatewayAnswers \/ GatewayError))

Spec ==
    /\ Init /\ [][Next]_vars
    /\ SupervisorFairness /\ WatcherFairness /\ StreamsFairness /\ TurnsFairness
=============================================================================
