------------------------------- MODULE Releases -------------------------------
(***************************************************************************)
(* Protected releases of one project (syte/release_operations.py and the   *)
(* release routes of syte/main.py).  An environment that requires approval *)
(* is released in three steps with awaits between them: the route looks    *)
(* for an approved request, issues the deploy, and consumes the newest     *)
(* approval.  Managers, approvers, other deploys and the removal of the    *)
(* project interleave with it.  Of the deployment engine (Deployments)     *)
(* only its slot is kept, which issue_deploy tests before an await and     *)
(* takes after it: deploys that are let in together overtake each other.   *)
(***************************************************************************)
EXTENDS Naturals, FiniteSets, FiniteSetsExt

CONSTANTS
    Releases,     \* release requests (calls of the deploy route)
    Approvals,    \* rows of release_approvals that can be created
    MaxOthers,    \* bound on deploys issued by somebody else
    MaxEdits,     \* bound on updates of the environment, and on removals
    None          \* no approval

ASSUME ReleasesAssumption ==
    /\ IsFiniteSet(Releases) /\ IsFiniteSet(Approvals) /\ None \notin Approvals
    /\ MaxOthers \in Nat /\ MaxEdits \in Nat

VARIABLES
    project,      \* whether the row of the project exists
    environment,  \* its row of release_environments: whether it exists, is
                  \* protected, and names the branch of the project
    approval,     \* release_approvals.status
    decided,      \* release_approvals.decided_at, as a rank; 0 is NULL
    busy,         \* whether a deploy of the project is in the slot, in progress
    entering,     \* how many others were let past the slot and have not taken it
    call,         \* where each release request is suspended
    seen,         \* the environment row it has read
    picked,       \* the approval that it is about to consume
    queued,       \* history: protected releases that queued a deploy
    overlapped,   \* history: a release began while another one was under way
    others, edits

rows == <<project, environment, approval, decided>>
locals == <<call, seen, picked>>
engine == <<busy, entering>>
relVars == <<rows, engine, locals, queued, overlapped, others, edits>>

Environment == [present : BOOLEAN, protected : BOOLEAN, matches : BOOLEAN]
ApprovalStatus == {"none", "pending", "approved", "rejected", "consumed"}
Suspended == {"environment", "check", "request", "branch", "restore", "issue", "insert",
              "consume", "write"}

RelTypeOK ==
    /\ project \in BOOLEAN
    /\ environment \in Environment
    /\ approval \in [Approvals -> ApprovalStatus]
    /\ decided \in [Approvals -> Nat]
    /\ busy \in BOOLEAN
    /\ entering \in Nat
    /\ call \in [Releases -> Suspended \cup {"new", "done"}]
    /\ seen \in [Releases -> Environment]
    /\ picked \in [Releases -> Approvals \cup {None}]
    /\ queued \subseteq Releases
    /\ overlapped \in BOOLEAN
    /\ others \in 0..MaxOthers
    /\ edits \in 0..MaxEdits

Absent == [present |-> FALSE, protected |-> FALSE, matches |-> FALSE]

RelInit ==
    /\ project = TRUE
    /\ environment = Absent
    /\ approval = [a \in Approvals |-> "none"]
    /\ decided = [a \in Approvals |-> 0]
    /\ busy = FALSE
    /\ entering = 0
    /\ call = [r \in Releases |-> "new"]
    /\ seen = [r \in Releases |-> Absent]
    /\ picked = [r \in Releases |-> None]
    /\ queued = {}
    /\ overlapped = FALSE
    /\ others = 0
    /\ edits = 0

-----------------------------------------------------------------------------
(* Rows *)

\* ensure_release_project: production is protected and follows the branch of
\* the project unless a row of an earlier call is there (INSERT OR IGNORE).
Ensured == IF environment.present THEN environment
           ELSE [present |-> TRUE, protected |-> TRUE, matches |-> TRUE]

\* update_environment: branch and protection are free to change.
UpdateEnvironment(protected, matches) ==
    /\ project /\ environment.present /\ edits < MaxEdits
    /\ environment' = [environment EXCEPT !.protected = protected, !.matches = matches]
    /\ edits' = edits + 1
    /\ UNCHANGED <<project, approval, decided, engine, locals, queued, overlapped, others>>

\* A new row has a new id.
Insert(a) == approval[a] = "none"

\* request_approval
NewRequest(a) ==
    /\ Insert(a)
    /\ approval' = [approval EXCEPT ![a] = "pending"]

RequestApproval(a) ==
    /\ project
    /\ environment' = Ensured
    /\ NewRequest(a)
    /\ UNCHANGED <<project, decided, engine, locals, queued, overlapped, others, edits>>

\* (mutant) the UPDATE lacks status = 'pending'
DecidableAlways(a) == approval[a] # "none"

Decidable(a) == approval[a] = "pending"

\* decide_approval, once the role of the caller was checked.
DecideApproval(a, verdict) ==
    /\ project
    /\ Decidable(a)
    /\ approval' = [approval EXCEPT ![a] = verdict]
    /\ decided' = [decided EXCEPT ![a] = 1 + Max({decided[b] : b \in Approvals})]
    /\ UNCHANGED <<project, environment, engine, locals, queued, overlapped, others, edits>>

\* delete_project: no connection switches foreign keys on, so the rows that
\* refer to the project stay.
DropProject ==
    /\ project /\ edits < MaxEdits
    /\ project' = FALSE
    /\ edits' = edits + 1
    /\ UNCHANGED <<environment, approval, decided, engine, locals, queued, overlapped, others>>

\* create_project with the same project_uuid.
Recreate ==
    /\ ~project /\ project' = TRUE
    /\ UNCHANGED <<environment, approval, decided, engine, locals, queued, overlapped, others,
                   edits>>

Approved == {a \in Approvals : approval[a] = "approved"}

\* ORDER BY decided_at DESC LIMIT 1: any of those that were decided last.
Newest == {a \in Approved : \A b \in Approved : decided[b] <= decided[a]}

-----------------------------------------------------------------------------
(* api_release_deploy *)

Goto(r, pc) == call' = [call EXCEPT ![r] = pc]

UnderWay == {r \in Releases : call[r] \in Suspended}

BeginRelease(r) ==
    /\ call[r] = "new" /\ project
    /\ Goto(r, "environment")
    /\ overlapped' = (overlapped \/ UnderWay # {})
    /\ UNCHANGED <<rows, engine, seen, picked, queued, others, edits>>

\* get_environment
ReadEnvironment(r) ==
    /\ call[r] = "environment"
    /\ IF project THEN /\ environment' = Ensured
                       /\ seen' = [seen EXCEPT ![r] = Ensured]
                       /\ Goto(r, "check")
       ELSE /\ Goto(r, "done")
            /\ UNCHANGED <<environment, seen>>
    /\ UNCHANGED <<project, approval, decided, engine, picked, queued, overlapped, others, edits>>

\* (mutant) an approval that was asked for counts as one
MayReleasePending(r) == seen[r].protected => \E a \in Approvals : approval[a] \in {"pending", "approved"}

\* has_approved_release
MayRelease(r) == seen[r].protected => Approved # {}

CheckApproval(r) ==
    /\ call[r] = "check"
    /\ Goto(r, IF MayRelease(r) THEN "branch" ELSE "request")
    /\ UNCHANGED <<rows, engine, seen, picked, queued, overlapped, others, edits>>

\* The route asks for an approval itself and answers 202.
AskApproval(r, a) ==
    /\ call[r] = "request"
    /\ NewRequest(a)
    /\ Goto(r, "done")
    /\ UNCHANGED <<project, environment, decided, engine, seen, picked, queued, overlapped, others,
                   edits>>

\* 409 when the environment names another branch.
CheckBranch(r) ==
    /\ call[r] = "branch"
    /\ Goto(r, IF seen[r].matches THEN "restore" ELSE "done")
    /\ UNCHANGED <<rows, engine, seen, picked, queued, overlapped, others, edits>>

\* create_restore_point records the commit that is deployed now, if any.
RestorePoint(r) ==
    /\ call[r] = "restore"
    /\ Goto(r, "issue")
    /\ UNCHANGED <<rows, engine, seen, picked, queued, overlapped, others, edits>>

AfterIssue(r) == IF seen[r].protected THEN "consume" ELSE "done"

\* issue_deploy up to the INSERT: it answers with the project also when a
\* deploy is in progress, and the route goes on as if it had queued one.
IssueDeploy(r) ==
    /\ call[r] = "issue"
    /\ Goto(r, IF ~project THEN "done" ELSE IF busy THEN AfterIssue(r) ELSE "insert")
    /\ UNCHANGED <<rows, engine, seen, picked, queued, overlapped, others, edits>>

\* The deploy is queued, whatever has taken the slot in the meantime.
IssueTake(r) ==
    /\ call[r] = "insert"
    /\ busy' = TRUE
    /\ queued' = IF seen[r].protected THEN queued \cup {r} ELSE queued
    /\ Goto(r, AfterIssue(r))
    /\ UNCHANGED <<rows, entering, seen, picked, overlapped, others, edits>>

\* consume_approved_release, the SELECT.
PickApproval(r) ==
    /\ call[r] = "consume"
    /\ IF Approved = {} THEN /\ Goto(r, "done")
                             /\ UNCHANGED picked
       ELSE /\ Goto(r, "write")
            /\ \E a \in Newest : picked' = [picked EXCEPT ![r] = a]
    /\ UNCHANGED <<rows, engine, seen, queued, overlapped, others, edits>>

\* consume_approved_release, the UPDATE: by id only.
ConsumeApproval(r) ==
    /\ call[r] = "write"
    /\ approval' = [approval EXCEPT ![picked[r]] = "consumed"]
    /\ Goto(r, "done")
    /\ UNCHANGED <<project, environment, decided, engine, seen, picked, queued, overlapped, others,
                   edits>>

-----------------------------------------------------------------------------
(* The engine *)

OtherDeploy ==
    /\ project /\ ~busy /\ others < MaxOthers
    /\ entering' = entering + 1
    /\ others' = others + 1
    /\ UNCHANGED <<rows, busy, locals, queued, overlapped, edits>>

OtherTake ==
    /\ entering > 0
    /\ entering' = entering - 1
    /\ busy' = TRUE
    /\ UNCHANGED <<rows, locals, queued, overlapped, others, edits>>

DeployEnds ==
    /\ busy /\ busy' = FALSE
    /\ UNCHANGED <<rows, entering, locals, queued, overlapped, others, edits>>

\* Nothing is left to do (the bound on rows may have been reached).
RelQuiet ==
    /\ ~busy /\ entering = 0
    /\ \A r \in UnderWay : call[r] = "request" /\ \A a \in Approvals : ~Insert(a)
    /\ UNCHANGED relVars

ReleaseStep(r) ==
    \/ BeginRelease(r) \/ ReadEnvironment(r) \/ CheckApproval(r) \/ CheckBranch(r)
    \/ RestorePoint(r) \/ IssueDeploy(r) \/ IssueTake(r) \/ PickApproval(r)
    \/ ConsumeApproval(r)
    \/ \E a \in Approvals : AskApproval(r, a)

RelNext ==
    \/ \E r \in Releases : ReleaseStep(r)
    \/ \E a \in Approvals : RequestApproval(a)
    \/ \E a \in Approvals, v \in {"approved", "rejected"} : DecideApproval(a, v)
    \/ \E p, m \in BOOLEAN : UpdateEnvironment(p, m)
    \/ DropProject \/ Recreate \/ OtherDeploy \/ OtherTake \/ DeployEnds \/ RelQuiet

RelSpec == RelInit /\ [][RelNext]_relVars

-----------------------------------------------------------------------------
(* Properties *)

Consumed == {a \in Approvals : approval[a] = "consumed"}

\* Releases whose approval is yet to be consumed.
Unpaid == {r \in queued : call[r] \in {"consume", "write"}}

\* As long as releases do not overlap, every protected release that queued
\* a deploy has used up an approval of its own (release-workspace.md: approved
\* requests are single-use): consumption comes after the check by several
\* awaits, and picks the approval anew.
SingleUse ==
    ~overlapped => /\ Cardinality(queued \ Unpaid) <= Cardinality(Consumed)
                   /\ Cardinality(queued) <= Cardinality(Consumed \cup Approved)

\* A decision is final: nobody approves what was rejected or used, whichever
\* of two approvers is later, and only approved requests are ever used.
DecisionStands ==
    [][\A a \in Approvals :
          /\ approval[a] \in {"rejected", "consumed"} => approval'[a] = approval[a]
          /\ approval[a] = "approved" => approval'[a] \in {"approved", "consumed"}
          /\ approval[a] \in {"none", "pending"} => approval'[a] # "consumed"]_relVars

=============================================================================
