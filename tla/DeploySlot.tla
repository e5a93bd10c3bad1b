------------------------------ MODULE DeploySlot ------------------------------
(***************************************************************************)
(* What the callers of issue_deploy may take the deployment engine for.    *)
(* The engine lets a caller in while the deploy that was begun last, if    *)
(* any, has ended; testing that and beginning a deploy are two steps, so   *)
(* callers that are inside together begin deploys that go on side by side, *)
(* and each puts the one before it out of reach.  Only a deploy in         *)
(* progress notes a commit in the project row, the one it was pinned to.   *)
(* Deployments implements this (syte/deployment.py); BranchDeploy and      *)
(* Releases, which keep no more of the engine, are written against it.     *)
(***************************************************************************)
CONSTANTS
    Callers,
    Deploys,
    Commits,
    None      \* no deploy, no pinned commit

VARIABLES
    inside,   \* callers that were let in and have not begun their deploy
    going,    \* the deploys in progress, each with the commit it is pinned to
    newest,   \* the one that was begun last, while it is in progress
    landed,   \* projects.last_deployed_commit
    crowded   \* whether callers were let in together and are not done yet

slotVars == <<inside, going, newest, landed, crowded>>

SlotInit ==
    /\ inside = {}
    /\ going = {}
    /\ newest = None
    /\ landed \in Commits \cup {None}
    /\ crowded = FALSE

LetIn(c) ==
    /\ newest = None
    /\ c \notin inside
    /\ inside' = inside \cup {c}
    /\ crowded' = (inside # {} \/ (crowded /\ going # {}))
    /\ UNCHANGED <<going, newest, landed>>

GiveUp(c) ==
    /\ c \in inside
    /\ inside' = inside \ {c}
    /\ UNCHANGED <<going, newest, landed, crowded>>

BeginDeploy(c, d, sha) ==
    /\ c \in inside
    /\ \A g \in going : g[1] # d
    /\ inside' = inside \ {c}
    /\ going' = going \cup {<<d, sha>>}
    /\ newest' = d
    /\ UNCHANGED <<landed, crowded>>

Land(g) ==
    /\ g \in going
    /\ g[2] # None
    /\ landed' = g[2]
    /\ UNCHANGED <<inside, going, newest, crowded>>

EndDeploy(g) ==
    /\ g \in going
    /\ going' = going \ {g}
    /\ newest' = IF newest = g[1] THEN None ELSE newest
    /\ UNCHANGED <<inside, landed, crowded>>

\* The server stops.
Halt ==
    /\ inside' = {}
    /\ going' = {}
    /\ newest' = None
    /\ crowded' = FALSE
    /\ UNCHANGED landed

SlotNext ==
    \/ \E c \in Callers : LetIn(c) \/ GiveUp(c)
    \/ \E c \in Callers, d \in Deploys, sha \in Commits \cup {None} : BeginDeploy(c, d, sha)
    \/ \E g \in going : Land(g) \/ EndDeploy(g)
    \/ Halt

SlotSpec == SlotInit /\ [][SlotNext]_slotVars
=============================================================================
