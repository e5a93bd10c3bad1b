------------------------------ MODULE SelfUpdate ------------------------------
(***************************************************************************)
(* How Syte updates its own checkout (syte/self_update.py; the choice of a *)
(* source in syte/update_source.py): stash, fetch, compare versions, check *)
(* out, reset, install requirements, and a detached worker that restarts   *)
(* the server two seconds later.  Every step is a git or pip command of    *)
(* its own that may fail; the server may die between two of them, pushes   *)
(* and edits of the checkout go on, and the worker of one update may wake  *)
(* up during the next.                                                     *)
(***************************************************************************)
EXTENDS Naturals

CONSTANTS
    Snapshots,    \* commits of Syte
    Version,      \* __version__ of each; 0 if it cannot be read
    Older,        \* pairs <<c, d>>: c is an ancestor of d
    FirstSnapshot,\* what is installed and running
    AllowDowngrade, \* SYTE_UPDATE_ALLOW_DOWNGRADE
    MaxUpdates,   \* bound on updates
    MaxOutside    \* bound on pushes, edits and deaths of the server

ASSUME SelfUpdateAssumption ==
    /\ FirstSnapshot \in Snapshots
    /\ Version \in [Snapshots -> Nat]
    /\ \A c \in Snapshots : <<c, c>> \in Older
    /\ AllowDowngrade \in BOOLEAN
    /\ MaxUpdates \in Nat /\ MaxOutside \in Nat

VARIABLES
    origin,       \* head of the branch and of the pull request at GitHub
    checkout,     \* HEAD of INSTALL_DIR
    edited,       \* whether the working tree has local changes
    installed,    \* the commit whose requirements are installed
    serving,      \* the commit the server was started from
    update,       \* the update: its next step, source, and the commit it fetched
    worker,       \* whether a restart worker sleeps
    unsafe,       \* history: the stash failed, or edits were made during an update
    torn,         \* history: an update ended between checkout and pip
    updates, outside

updVars == <<origin, checkout, edited, installed, serving, update, worker, unsafe, torn, updates,
             outside>>

Sources == {"branch", "pr"}
NoUpdate == [step |-> "none", source |-> "branch", point |-> FirstSnapshot]

UpdTypeOK ==
    /\ origin \in [Sources -> Snapshots]
    /\ checkout \in Snapshots /\ installed \in Snapshots /\ serving \in Snapshots
    /\ edited \in BOOLEAN /\ worker \in BOOLEAN /\ unsafe \in BOOLEAN /\ torn \in BOOLEAN
    /\ update \in [step : {"none", "stash", "fetch", "fallback", "compare", "checkout", "reset",
                           "pip", "schedule"},
                   source : Sources \cup {"prbranch"}, point : Snapshots]
    /\ updates \in 0..MaxUpdates /\ outside \in 0..MaxOutside

UpdInit ==
    /\ origin = [s \in Sources |-> FirstSnapshot]
    /\ checkout = FirstSnapshot /\ installed = FirstSnapshot /\ serving = FirstSnapshot
    /\ edited = FALSE /\ worker = FALSE /\ unsafe = FALSE /\ torn = FALSE
    /\ update = NoUpdate
    /\ updates = 0 /\ outside = 0

-----------------------------------------------------------------------------
UpdAt(step) == update.step = step
UpdGoto(step) == update' = [update EXCEPT !.step = step]

\* update_syte: resolve_update_target chooses the branch, or a pull request
\* that is open when GitHub is asked.
BeginUpdate ==
    /\ UpdAt("none") /\ updates < MaxUpdates
    /\ \E s \in Sources : update' = [update EXCEPT !.step = "stash", !.source = s]
    /\ updates' = updates + 1
    /\ UNCHANGED <<origin, checkout, edited, installed, serving, worker, unsafe, torn, outside>>

\* A stash that fails is a warning.
Stash ==
    /\ UpdAt("stash")
    /\ \/ edited' = FALSE /\ UNCHANGED unsafe
       \/ edited /\ unsafe' = TRUE /\ UNCHANGED edited
    /\ UpdGoto("fetch")
    /\ UNCHANGED <<origin, checkout, installed, serving, worker, torn, updates, outside>>

\* _git_fetch_pr, _git_fetch_branch: a pull request that cannot be fetched is
\* looked for under the name of its branch; a branch that cannot be ends the
\* update.
Fetch ==
    /\ UpdAt("fetch") \/ UpdAt("fallback")
    /\ LET from == IF update.source = "branch" THEN "branch" ELSE "pr" IN
       \/ update' = [update EXCEPT !.step = "compare", !.point = origin[from]]
       \/ /\ update.source = "pr"
          /\ update' = [update EXCEPT !.step = "fallback", !.source = "prbranch"]
       \/ /\ update.source # "pr"
          /\ update' = NoUpdate
    /\ UNCHANGED <<origin, checkout, edited, installed, serving, worker, unsafe, torn, updates,
                   outside>>

\* A lower version is accepted when it contains what is installed.
Refused(c) ==
    /\ Version[c] # 0 /\ Version[checkout] # 0 /\ ~AllowDowngrade
    /\ Version[c] < Version[checkout]
    /\ <<checkout, c>> \notin Older

CompareVersions ==
    /\ UpdAt("compare")
    /\ IF Refused(update.point) THEN update' = NoUpdate ELSE UpdGoto("checkout")
    /\ UNCHANGED <<origin, checkout, edited, installed, serving, worker, unsafe, torn, updates,
                   outside>>

\* git checkout -B syte-update: keeps local changes, or refuses because of them.
Checkout ==
    /\ UpdAt("checkout")
    /\ \/ /\ checkout' = update.point
          /\ UpdGoto(IF update.source = "pr" THEN "pip" ELSE "reset")
       \/ /\ update' = NoUpdate
          /\ UNCHANGED checkout
    /\ UNCHANGED <<origin, edited, installed, serving, worker, unsafe, torn, updates, outside>>

\* git reset --hard, only for a branch.
HardReset ==
    /\ UpdAt("reset")
    /\ \/ edited' = FALSE /\ UpdGoto("pip") /\ UNCHANGED torn
       \/ update' = NoUpdate /\ torn' = TRUE /\ UNCHANGED edited
    /\ UNCHANGED <<origin, checkout, installed, serving, worker, unsafe, updates, outside>>

\* (mutant) nothing is installed when the version is the same
NeedsPipChanged == Version[checkout] # Version[installed]

NeedsPip == TRUE

\* _ensure_requirements_installed; without success no restart is scheduled,
\* but the checkout stays where it is.
PipInstall ==
    /\ UpdAt("pip")
    /\ \/ NeedsPip /\ installed' = checkout /\ UpdGoto("schedule") /\ UNCHANGED torn
       \/ NeedsPip /\ update' = NoUpdate /\ torn' = TRUE /\ UNCHANGED installed
       \/ ~NeedsPip /\ UpdGoto("schedule") /\ UNCHANGED <<installed, torn>>
    /\ UNCHANGED <<origin, checkout, edited, serving, worker, unsafe, updates, outside>>

ScheduleRestart ==
    /\ UpdAt("schedule")
    /\ worker' = TRUE
    /\ update' = NoUpdate
    /\ UNCHANGED <<origin, checkout, edited, installed, serving, unsafe, torn, updates, outside>>

\* The server starts from what is checked out; an update under way dies.
Start ==
    /\ serving' = checkout
    /\ update' = NoUpdate
    /\ torn' = (torn \/ update.step \in {"reset", "pip"})

\* apply_and_restart, by systemctl or a new uvicorn, which may both fail.
WorkerRestarts ==
    /\ worker /\ worker' = FALSE
    /\ Start \/ UNCHANGED <<serving, update, torn>>
    /\ UNCHANGED <<origin, checkout, edited, installed, unsafe, updates, outside>>

-----------------------------------------------------------------------------
Outside == outside < MaxOutside /\ outside' = outside + 1

ServerDies ==
    /\ Outside /\ Start
    /\ UNCHANGED <<origin, checkout, edited, installed, worker, unsafe, updates>>

Push ==
    /\ Outside
    /\ \E s \in Sources, c \in Snapshots : origin' = [origin EXCEPT ![s] = c]
    /\ UNCHANGED <<checkout, edited, installed, serving, update, worker, unsafe, torn, updates>>

EditCheckout ==
    /\ Outside /\ ~edited
    /\ edited' = TRUE
    /\ unsafe' = (unsafe \/ update.step \notin {"none", "stash"})
    /\ UNCHANGED <<origin, checkout, installed, serving, update, worker, torn, updates>>

UpdQuiet == UpdAt("none") /\ ~worker /\ UNCHANGED updVars

UpdNext ==
    \/ BeginUpdate \/ Stash \/ Fetch \/ CompareVersions \/ Checkout \/ HardReset \/ PipInstall
    \/ ScheduleRestart \/ WorkerRestarts \/ ServerDies \/ Push \/ EditCheckout \/ UpdQuiet

UpdSpec == UpdInit /\ [][UpdNext]_updVars

-----------------------------------------------------------------------------
(* Properties *)

\* Whenever the server is started, the requirements of the commit it starts
\* from are installed, unless an update failed or was killed between its
\* checkout and pip, be it by the worker of the update before.
StartsComplete == installed = checkout \/ torn \/ UpdAt("reset") \/ UpdAt("pip")

\* It stays so, and local changes of the checkout end up in the stash unless
\* the stash failed or they were made during an update, through failures,
\* deaths of the server and workers that wake up in the next update.
UpdateSound ==
    [][/\ StartsComplete'
       /\ edited /\ ~edited' => UpdAt("stash") \/ unsafe]_updVars

=============================================================================
