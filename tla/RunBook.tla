-------------------------------- MODULE RunBook --------------------------------
(***************************************************************************)
(* What the deployment history of one project promises, whoever issues,    *)
(* cancels, crashes or removes what: a run enters the book once, with the  *)
(* commit it is pinned to, as queued; it starts once; it succeeds only if  *)
(* it has started and nothing has ended it; what has ended stays ended     *)
(* (a success may still be withdrawn); and a project that was removed      *)
(* does not come back.  Deployments implements it (syte/deployment.py,     *)
(* deployment_runs of syte/database.py).                                   *)
(***************************************************************************)
CONSTANTS
    Runs,     \* ids of rows of deployment_runs
    Commits,
    None      \* no pinned commit

VARIABLES
    book,     \* status of each run, "none" before it is entered
    pinned,   \* commit of each run
    listed    \* whether the project exists

bookVars == <<book, pinned, listed>>

BookInit ==
    /\ book = [r \in Runs |-> "none"]
    /\ pinned = [r \in Runs |-> None]
    /\ listed = TRUE

Enter(r, c) ==
    /\ book[r] = "none"
    /\ book' = [book EXCEPT ![r] = "queued"]
    /\ pinned' = [pinned EXCEPT ![r] = c]
    /\ UNCHANGED listed

Proceed(r, from, to) ==
    /\ book[r] \in from
    /\ book' = [book EXCEPT ![r] = to]
    /\ UNCHANGED <<pinned, listed>>

StartRun(r) == Proceed(r, {"queued"}, "running")
Succeed(r)  == Proceed(r, {"running"}, "succeeded")
Abandon(r)  ==
    \E s \in {"failed", "cancelled"} :
        Proceed(r, {"queued", "running", "succeeded", "failed", "cancelled"}, s)

Unlist ==
    /\ listed
    /\ listed' = FALSE
    /\ UNCHANGED <<book, pinned>>

BookNext ==
    \/ \E r \in Runs, c \in Commits \cup {None} : Enter(r, c)
    \/ \E r \in Runs : StartRun(r) \/ Succeed(r) \/ Abandon(r)
    \/ Unlist

BookSpec == BookInit /\ [][BookNext]_bookVars
=============================================================================
