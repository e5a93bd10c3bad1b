---------------------------- MODULE BranchDeploy ----------------------------
(***************************************************************************)
(* The periodic branch check of one opted-in project                       *)
(* (syte/branch_deploy.py): every five minutes the head of the branch is   *)
(* compared with the project row and a deploy of a new head is issued.     *)
(* Users push, deploy other commits themselves, and the server may die     *)
(* between two steps.  Of the deployment engine (Deployments) only what    *)
(* the check sees is kept: whether a deploy is in the slot, and which      *)
(* commits are noted as deployed.  issue_deploy tests the slot before an   *)
(* await and takes it after it, so the check and users who are let in      *)
(* together overtake each other.                                           *)
(***************************************************************************)
EXTENDS Naturals

CONSTANTS
    Commits,     \* commits the branch head can be at
    MaxPushes,   \* bound on the movements of the head
    MaxManual,   \* bound on deploys issued by users and webhooks
    MaxEnables,  \* bound on the times automatic deploys are switched on
    MaxFaults,   \* bound on crashes, and on statements that raise
    None         \* no commit

ASSUME BranchConstantsAssumption ==
    /\ None \notin Commits
    /\ MaxPushes \in Nat /\ MaxManual \in Nat /\ MaxEnables \in Nat /\ MaxFaults \in Nat

VARIABLES
    head,      \* head of the branch at GitHub
    seen,      \* projects.last_seen_git_commit
    deployed,  \* projects.last_deployed_commit
    slot,      \* the commit of the deploy in the slot, None if it has none
    busy,      \* whether a deploy in progress is in the slot
    entering,  \* how many users were let past the slot and have not taken it
    overtaken, \* the commits of deploys in progress that lost the slot to another
    pc,        \* where the check is suspended
    row,       \* the row of list_projects the check works with
    sha,       \* the head it was told
    queued,    \* history: the commits the check has issued deploys of
    again,     \* history: deploys it has issued of one head, with no other
               \* head seen and no fresh enable in between
    pushes, manual, enables, faults

record == <<seen, deployed>>
deploys == <<slot, busy, entering, overtaken>>
branchVars == <<head, seen, deployed, slot, busy, entering, overtaken, pc, row, sha, queued,
                again, pushes, manual, enables, faults>>

bounds == <<pushes, manual, enables, faults>>

Commit == Commits \cup {None}

BranchTypeOK ==
    /\ head \in Commits
    /\ seen \in Commit
    /\ deployed \in Commit
    /\ slot \in Commit
    /\ busy \in BOOLEAN
    /\ entering \in Nat
    /\ overtaken \subseteq Commits
    /\ pc \in {"sleep", "fetch", "issue", "insert", "note", "record"}
    /\ row \in [seen : Commit, deployed : Commit]
    /\ sha \in Commit
    /\ pc \in {"issue", "insert", "note", "record"} => sha # None
    /\ queued \subseteq Commits
    /\ again \in Nat
    /\ pushes \in 0..MaxPushes
    /\ manual \in 0..MaxManual
    /\ enables \in 0..MaxEnables
    /\ faults \in 0..MaxFaults

BranchInit ==
    /\ head \in Commits
    /\ seen = None
    /\ deployed \in Commit
    /\ slot = None
    /\ busy = FALSE
    /\ entering = 0
    /\ overtaken = {}
    /\ pc = "sleep"
    /\ row = [seen |-> None, deployed |-> None]
    /\ sha = None
    /\ queued = {}
    /\ again = 0
    /\ pushes = 0
    /\ manual = 0
    /\ enables = 0
    /\ faults = 0

-----------------------------------------------------------------------------
(* check_project_branch *)

BeginCheck ==
    /\ pc = "sleep"
    /\ pc' = "fetch"
    /\ row' = [seen |-> seen, deployed |-> deployed]
    /\ UNCHANGED <<head, record, deploys, sha, queued, again, bounds>>

\* (mutant) the head is compared with what was deployed only
AfterFetchDeployedOnly(c) == IF c = row.deployed THEN "note" ELSE "issue"

\* What to do with the head: "current", "recorded", or a deploy.
AfterFetch(c) == CASE c = row.seen -> "sleep"
                   [] c # row.seen /\ c = row.deployed -> "note"
                   [] OTHER -> "issue"

\* branch_head: an answer without a commit counts as no answer.
Answers == {head}

\* branch_head answers.
Fetch ==
    /\ pc = "fetch"
    /\ \E c \in Answers :
          /\ sha' = c
          /\ pc' = AfterFetch(c)
          /\ again' = IF c = sha THEN again ELSE 0
    /\ UNCHANGED <<head, record, deploys, row, queued, bounds>>

\* GitHub is unavailable.
Unavailable ==
    /\ pc = "fetch"
    /\ pc' = "sleep"
    /\ UNCHANGED <<head, record, deploys, row, sha, queued, again, bounds>>

\* (mutant) a deferred head is recorded like a queued one
DeferredSeen == "record"

Deferred == "sleep"

\* issue_deploy, up to the INSERT: refused while a deploy in progress is in
\* the slot, and the check is deferred to the next round.
Issue ==
    /\ pc = "issue"
    /\ pc' = IF busy THEN Deferred ELSE "insert"
    /\ UNCHANGED <<head, record, deploys, row, sha, queued, again, bounds>>

\* A deploy is begun and takes the slot from whatever is in it by now.
Take(c) ==
    /\ overtaken' = overtaken \cup ({slot} \ {None})
    /\ slot' = c
    /\ busy' = TRUE

IssueTake ==
    /\ pc = "insert"
    /\ Take(sha)
    /\ queued' = queued \cup {sha}
    /\ again' = again + 1
    /\ pc' = "record"
    /\ UNCHANGED <<head, record, entering, row, sha, bounds>>

\* last_seen_git_commit is written after the deploy was issued.
Record ==
    /\ pc \in {"note", "record"}
    /\ seen' = sha
    /\ pc' = "sleep"
    /\ UNCHANGED <<head, deployed, deploys, row, sha, queued, again, bounds>>

-----------------------------------------------------------------------------
(* The environment *)

Push(c) ==
    /\ c # head
    /\ pushes < MaxPushes
    /\ pushes' = pushes + 1
    /\ head' = c
    /\ UNCHANGED <<record, deploys, pc, row, sha, queued, again, manual, enables, faults>>

\* A user, a webhook or the agent deploys: the test of the slot, and the
\* rest.
ManualDeploy ==
    /\ ~busy
    /\ manual < MaxManual
    /\ manual' = manual + 1
    /\ entering' = entering + 1
    /\ UNCHANGED <<head, record, slot, busy, overtaken, pc, row, sha, queued, again, pushes,
                   enables, faults>>

ManualTake(c) ==
    /\ entering > 0
    /\ entering' = entering - 1
    /\ Take(c)
    /\ UNCHANGED <<head, record, pc, row, sha, queued, again, bounds>>

\* "A fresh enable should deploy the branch head once": auto_deploy is set
\* and the last seen commit forgotten, whatever a check is doing.
Enable ==
    /\ enables < MaxEnables
    /\ enables' = enables + 1
    /\ seen' = None
    /\ again' = 0
    /\ UNCHANGED <<head, deployed, deploys, pc, row, sha, queued, pushes, manual, faults>>

\* A deploy of a recorded commit that succeeds is noted in the row, before
\* its run is closed.
DeployLands ==
    /\ deployed' \in overtaken \cup ({slot} \ {None})
    /\ UNCHANGED <<head, seen, deploys, pc, row, sha, queued, again, bounds>>

DeployEnds ==
    /\ busy
    /\ busy' = FALSE
    /\ slot' = None
    /\ UNCHANGED <<head, record, entering, overtaken, pc, row, sha, queued, again, bounds>>

\* The last of the overtaken deploys of a commit ends.
OvertakenEnds(c) ==
    /\ c \in overtaken
    /\ overtaken' = overtaken \ {c}
    /\ UNCHANGED <<head, record, slot, busy, entering, pc, row, sha, queued, again, bounds>>

\* The check raises and is over, or the server dies and with it the deploys.
Fail ==
    /\ faults < MaxFaults
    /\ faults' = faults + 1
    /\ pc # "sleep"
    /\ pc' = "sleep"
    /\ \/ busy' = FALSE /\ slot' = None /\ entering' = 0 /\ overtaken' = {}
       \/ UNCHANGED deploys
    /\ UNCHANGED <<head, record, row, sha, queued, again, pushes, manual, enables>>

-----------------------------------------------------------------------------
CheckStep == BeginCheck \/ Issue \/ IssueTake \/ Record

BranchNext ==
    \/ CheckStep
    \/ Fetch \/ Unavailable
    \/ \E c \in Commits : Push(c)
    \/ ManualDeploy
    \/ \E c \in Commit : ManualTake(c)
    \/ Enable
    \/ DeployLands \/ DeployEnds
    \/ \E c \in Commits : OvertakenEnds(c)
    \/ Fail

BranchSpec == BranchInit /\ [][BranchNext]_branchVars

\* periodic_branch_deploy_loop survives every exception, GitHub answers now
\* and then, and a deploy that is in progress ends (which run_cmd, having no
\* timeout, leaves to git and docker).
BranchFairness ==
    /\ WF_branchVars(CheckStep)
    /\ WF_branchVars(Fetch \/ Unavailable)
    /\ SF_branchVars(Fetch)
    /\ WF_branchVars(DeployEnds)

BranchFairSpec == BranchSpec /\ BranchFairness

-----------------------------------------------------------------------------
(* Properties *)

\* "... so the same failed commit does not queue a deploy repeatedly on
\* every interval": a head that stays is queued once, and once more for
\* each check that dies between issuing the deploy and recording it.
NotRepeated == again <= 1 + faults

\* A head that stays is queued by the check, or it was deployed otherwise.
HeadIsDeployed ==
    \A c \in Commits :
        (<>[](head = c)) => <>(deployed = c \/ c \in queued)
=============================================================================
