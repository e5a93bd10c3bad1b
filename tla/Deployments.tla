----------------------------- MODULE Deployments -----------------------------
(***************************************************************************)
(* The deployment engine of Syte for one project (syte/deployment.py): the *)
(* background tasks that issue_deploy records and spawns, the per-project  *)
(* asyncio lock, the "deploy already running" slot, cancellation, the      *)
(* worker threads started with asyncio.to_thread, the unlocked lifecycle   *)
(* handlers (start, stop, update, remove) and a restart of the server.     *)
(* Locks and slots are keyed by project, so one project is enough.         *)
(*                                                                         *)
(* A step ends where the code awaits: pc[t] names the await the task is    *)
(* suspended at.  A thread that was handed to asyncio.to_thread is an      *)
(* actor of its own, because cancelling the awaiting task does not stop it.*)
(***************************************************************************)
EXTENDS Naturals, Sequences, FiniteSets

CONSTANTS
    Runs,        \* ids of the deployment_runs rows (each row has one task)
    Initial,     \* the unrecorded task that "create and deploy" spawns
    DeployNow,   \* values of deploy_now the project may be created with
    Callers,     \* request handlers that may be inside issue_deploy at once
    Calls,       \* calls of the start/stop/update/remove handlers
    CallKinds,   \* which of those handlers the calls may be
    Commits,     \* commit ids a deploy may be pinned to
    DeployType,  \* "shell" or "docker"
    MaxFaults,   \* bound on each kind of fault
    None,        \* Python's None: no task, no process, no commit
    Unstarted    \* the source of a process that was never started

FaultKinds == {"cancel", "raise", "crash", "exit"}
Handlers   == {"start", "stop", "update", "remove"}

ASSUME ConstantsAssumption ==
    /\ Initial \notin Runs
    /\ (Runs \cup {Initial}) \cap Calls = {}
    /\ None \notin Runs \cup {Initial} \cup Calls \cup Commits
    /\ Unstarted \notin Commits \cup {None}
    /\ DeployNow \subseteq BOOLEAN
    /\ CallKinds \subseteq Handlers
    /\ DeployType \in {"shell", "docker"}
    /\ MaxFaults \in [FaultKinds -> Nat]

Tasks  == Runs \cup {Initial}
Actors == Tasks \cup Calls

VARIABLES
    status,      \* projects.status, "deleted" once the row is gone
    deployed,    \* projects.last_deployed_commit
    run,         \* deployment_runs.status of each row
    commit,      \* deployment_runs.commit_sha of each row
    slot,        \* _deploy_running[project_id]
    lock,        \* holder of _deploy_locks[project_id]
    arrived,     \* order in which tasks asked for the lock (it is FIFO)
    pc,          \* the await each deploy task is suspended at
    verdict,     \* local of a task: the project status / outcome it decided
    pending,     \* task.cancel() was called and is not delivered yet
    caller,      \* what each caller of issue_deploy is doing
    call,        \* what each lifecycle handler call is doing
    worker,      \* the thread a task or a call handed to asyncio.to_thread
    live,        \* processes (or containers) of the project that are alive
    handle,      \* the one process the pid file (or container name) reaches
    tree,        \* commit the workspace is checked out at (None: branch head)
    source,      \* commit the process of each task or call was started from
    faults,      \* how often each kind of fault has happened
    crowd        \* (history) whether deploys that were let past the slot
                 \* together are still under way ("now") or were once ("past")

db      == <<status, deployed, run, commit>>
sched   == <<slot, lock, arrived, pending>>
machine == <<live, handle, tree, source>>
vars    == <<status, deployed, run, commit, slot, lock, arrived, pc, verdict,
             pending, caller, call, worker, live, handle, tree, source, faults, crowd>>

ProjectStatus == {"created", "deploying", "running", "stopped", "failed"}
Terminal      == {"succeeded", "failed", "cancelled"}
RunStatus     == {"none", "queued", "running"} \cup Terminal

\* Awaits inside "async with _deploy_locks[...]".
Critical == {"read", "mark", "checkout", "resolve", "launch", "settle", "proxy"}
\* Awaits inside the try block of _run_recorded_deploy.
Body     == {"acquire"} \cup Critical \cup {"judge", "record", "finish", "publish"}
\* Awaits inside its except handlers.
Except   == {"cancelling", "failing", "leaving"}
PCs      == {"idle", "begin", "done"} \cup Body \cup Except
InFlight(t) == pc[t] \notin {"idle", "done"}

Busy        == {"checkout", "clearing", "starting", "confirming"}
WorkerState == {"none", "ok", "error", "raised"} \cup Busy
CallPC      == {"idle", "stopping", "pulling", "launching", "write", "delete", "done"}
Idle        == [at |-> "idle", run |-> None, commit |-> None]
NoCall      == [at |-> "idle", kind |-> "stop", was |-> FALSE, verdict |-> "stopped"]

TypeOK ==
    /\ status \in ProjectStatus \cup {"deleted"}
    /\ deployed \in Commits \cup {None}
    /\ run \in [Runs -> RunStatus]
    /\ commit \in [Runs -> Commits \cup {None}]
    /\ slot \in Runs \cup {None}
    /\ lock \in Tasks \cup {None}
    /\ arrived \in Seq(Tasks)
    /\ pc \in [Tasks -> PCs]
    /\ verdict \in [Tasks -> ProjectStatus \cup {"succeeded"}]
    /\ pending \in [Runs -> BOOLEAN]
    /\ caller \in [Callers -> [at: {"idle", "insert", "spawn"},
                               run: Runs \cup {None}, commit: Commits \cup {None}]]
    /\ call \in [Calls -> [at: CallPC, kind: Handlers, was: BOOLEAN,
                           verdict: {"running", "stopped"}]]
    /\ worker \in [Actors -> WorkerState]
    /\ live \subseteq Actors
    /\ handle \in Actors \cup {None}
    /\ tree \in Commits \cup {None}
    /\ source \in [Actors -> Commits \cup {None, Unstarted}]
    /\ faults \in [FaultKinds -> Nat]
    /\ crowd \in {"none", "now", "past"}

\* The project was just created; "create and deploy" has spawned an
\* unrecorded deploy, a plain creation has not.
Init ==
    /\ status = "created"
    /\ deployed = None
    /\ run = [r \in Runs |-> "none"]
    /\ commit = [r \in Runs |-> None]
    /\ slot = None
    /\ lock = None
    /\ \E now \in DeployNow :
          /\ pc = [t \in Tasks |-> IF now /\ t = Initial THEN "acquire" ELSE "idle"]
          /\ arrived = IF now THEN <<Initial>> ELSE <<>>
    /\ verdict = [t \in Tasks |-> "created"]
    /\ pending = [r \in Runs |-> FALSE]
    /\ caller = [c \in Callers |-> Idle]
    /\ call = [o \in Calls |-> NoCall]
    /\ worker = [a \in Actors |-> "none"]
    /\ live = {}
    /\ handle = None
    /\ tree = None
    /\ source = [a \in Actors |-> Unstarted]
    /\ faults = [k \in FaultKinds |-> 0]
    /\ crowd = "none"

-----------------------------------------------------------------------------
(* Building blocks *)

\* (mutant) an upsert instead of an UPDATE
SetStatusUpsert(s) == status' = s

\* update_project: an UPDATE of a missing row changes nothing.
SetStatus(s) == status' = IF status = "deleted" THEN status ELSE s

Fault(k) == /\ faults[k] < MaxFaults[k]
            /\ faults' = [faults EXCEPT ![k] = @ + 1]

Go(t, l) == pc' = [pc EXCEPT ![t] = l]

\* A task with a cancellation pending is resumed by Deliver only.
Scheduled(t, l) == /\ pc[t] = l
                   /\ t \in Runs => ~pending[t]

\* (mutant) the lock is never released
UnlockNever(t) == lock' = lock

\* Leaving "async with": the lock is free again, and a recorded task goes on
\* to judge the outcome while the unrecorded one is finished.
Unlock(t) == lock' = IF lock = t THEN None ELSE lock
Leave(t)  == /\ Unlock(t)
             /\ Go(t, IF t = Initial THEN "done" ELSE "judge")

\* stop_project: kills what the pid file (container name) points to, if
\* anything, and drops the pointer.
StopProcess == /\ live' = live \ {handle}
               /\ handle' = None
               /\ UNCHANGED <<tree, source>>

\* start_project creates the process.  A shell start simply adds one; a
\* container name can be used once, so docker run fails while it is taken.
SpawnProcess(a) == /\ DeployType = "docker" => live = {}
                   /\ live' = live \cup {a}
                   /\ handle' = IF DeployType = "docker" THEN a ELSE handle
                   /\ source' = [source EXCEPT ![a] = tree]
                   /\ UNCHANGED tree

\* A second (shell) or some seconds (docker) later: the process is still
\* there and its pid is written, the container answers.
ConfirmProcess(a) == /\ a \in live
                     /\ handle' = IF DeployType = "shell" THEN a ELSE handle
                     /\ UNCHANGED <<live, tree, source>>

\* Or the start failed: the process has exited and the pid file is removed;
\* the container has exited, or did not become ready and is removed.
RejectProcess(a) == \/ /\ live' = live \ {a}
                       /\ handle' = IF DeployType = "shell" THEN None ELSE handle
                       /\ UNCHANGED <<tree, source>>
                    \/ DeployType = "docker" /\ StopProcess

\* (mutant) the recorded commit is not checked out
PullTreeHead(sha, ok) == /\ tree' \in IF ok THEN {None} ELSE {tree, None}
                         /\ UNCHANGED <<live, handle, source>>

\* clone_or_pull: on success the workspace is at the wanted commit; a
\* failure leaves it alone or on the branch (a failing pull comes after the
\* checkout of the branch).
PullTree(sha, ok) == /\ tree' \in IF ok THEN {sha} ELSE {tree, None}
                     /\ UNCHANGED <<live, handle, source>>

-----------------------------------------------------------------------------
(* issue_deploy and cancel_deploy *)

\* (mutant) the slot is not looked at
SlotFreeAlways == TRUE

\* No task that is still running sits in the slot.
SlotFree == slot # None => pc[slot] = "done"

\* Another handler is between its test of the slot and taking it.
OthersInside(c) == \E d \in Callers \ {c} : caller[d].at # "idle"

\* The test of the slot: nothing is taken yet, and until the row is inserted
\* and the task created other handlers pass the test as well.
IssueCheck(c, sha) ==
    /\ caller[c].at = "idle"
    /\ status # "deleted"
    /\ SlotFree
    /\ caller' = [caller EXCEPT ![c] = [at |-> "insert", run |-> None, commit |-> sha]]
    /\ crowd' = IF OthersInside(c) \/ (crowd = "now" /\ \E r \in Runs : InFlight(r))
                THEN "now"
                ELSE IF crowd = "none" THEN "none" ELSE "past"
    /\ UNCHANGED <<db, sched, pc, verdict, call, worker, machine, faults>>

\* create_deployment_run commits the row while other handlers run.
IssueInsert(c, r) ==
    /\ caller[c].at = "insert"
    /\ run[r] = "none"
    /\ run' = [run EXCEPT ![r] = "queued"]
    /\ commit' = [commit EXCEPT ![r] = caller[c].commit]
    /\ caller' = [caller EXCEPT ![c] = [at |-> "spawn", run |-> r, commit |-> @.commit]]
    /\ UNCHANGED <<status, deployed, sched, pc, verdict, call, worker, machine, faults,
                   crowd>>

\* The task is created and takes the slot, whatever the slot holds by now.
IssueSpawn(c) ==
    /\ caller[c].at = "spawn"
    /\ Go(caller[c].run, "begin")
    /\ slot' = caller[c].run
    /\ caller' = [caller EXCEPT ![c] = Idle]
    /\ UNCHANGED <<db, lock, arrived, pending, verdict, call, worker, machine, faults,
                   crowd>>

\* The handler ends between the test and create_task: the INSERT raises, or
\* the turn of the agent that called issue_deploy is stopped.
IssueAborted(c) ==
    /\ caller[c].at # "idle"
    /\ \/ Fault("cancel")
       \/ caller[c].at = "insert" /\ Fault("raise")
    /\ caller' = [caller EXCEPT ![c] = Idle]
    /\ UNCHANGED <<db, sched, pc, verdict, call, worker, machine, crowd>>

CancelDeploy ==
    /\ slot # None
    /\ pc[slot] # "done"
    /\ Fault("cancel")
    /\ pending' = [pending EXCEPT ![slot] = TRUE]
    /\ UNCHANGED <<db, slot, lock, arrived, pc, verdict, caller, crowd, call, worker, machine>>

\* (mutant) a cancelled deploy is tried again
OnCancelRetry(r) == {"begin"}

\* Where a CancelledError takes a task.  One that has not taken its first
\* step yet never enters its try block, and one inside an except handler
\* leaves it without finishing it: their rows stay as they are.
OnCancel(r) ==
    {l \in {"cancelling", "done"} :
        /\ pc[r] \in Body => l = "cancelling"
        /\ pc[r] \in Except => l = "done"}

\* CancelledError is thrown at the await the task is suspended at.
Deliver(r) ==
    /\ pending[r]
    /\ InFlight(r)
    /\ pending' = [pending EXCEPT ![r] = FALSE]
    /\ \E l \in OnCancel(r) : Go(r, l)
    /\ Unlock(r)
    /\ UNCHANGED <<db, slot, arrived, verdict, caller, crowd, call, worker, machine, faults>>

\* (mutant) the callback empties the slot whoever is in it
AfterDoneAlways(r) == None

\* The done callback of a task empties the slot only if it still holds it.
AfterDone(r) == IF slot = r THEN None ELSE slot

ClearSlot(r) ==
    /\ pc[r] = "done"
    /\ slot # AfterDone(r)
    /\ slot' = AfterDone(r)
    /\ UNCHANGED <<db, lock, arrived, pending, pc, verdict, caller, crowd, call, worker,
                   machine, faults>>

-----------------------------------------------------------------------------
(* _run_recorded_deploy up to the lock *)

Begin(r) ==
    /\ Scheduled(r, "begin")
    /\ run' = [run EXCEPT ![r] = "running"]
    /\ arrived' = Append(arrived, r)
    /\ Go(r, "acquire")
    /\ UNCHANGED <<status, deployed, commit, slot, lock, pending, verdict, caller, crowd,
                   call, worker, machine, faults>>

Position(t) == CHOOSE i \in 1..Len(arrived) : arrived[i] = t

\* (mutant) every job makes a lock of its own
LockFreeAlways == TRUE

LockFree == lock = None

\* asyncio.Lock serves its waiters first come, first served.
Acquire(t) ==
    /\ Scheduled(t, "acquire")
    /\ LockFree
    /\ \A s \in Tasks \ {t} : pc[s] = "acquire" => Position(t) < Position(s)
    /\ lock' = t
    /\ Go(t, "read")
    /\ UNCHANGED <<db, slot, arrived, pending, verdict, caller, crowd, call, worker,
                   machine, faults>>

(* _run_deploy_job_unlocked *)

ReadProject(t) ==
    /\ Scheduled(t, "read")
    /\ \/ /\ status = "deleted"
          /\ Leave(t)
       \/ /\ status # "deleted"
          /\ Go(t, "mark")
          /\ UNCHANGED lock
    /\ UNCHANGED <<db, slot, arrived, pending, verdict, caller, crowd, call, worker,
                   machine, faults>>

\* The commit a task checks out; only projects with a git repository are
\* deployed at a commit.
Pin(t) == IF t \in Runs THEN commit[t] ELSE None

\* The status becomes "deploying"; then, by the project's configuration, the
\* sources are checked out, or the service is launched straight away, or
\* there is nothing to deploy ("created"), or the credentials or the start
\* command are missing ("stopped").
MarkDeploying(t) ==
    /\ Scheduled(t, "mark")
    /\ SetStatus("deploying")
    /\ \/ /\ Go(t, "checkout")
          /\ worker' = [worker EXCEPT ![t] = "checkout"]
          /\ UNCHANGED verdict
       \/ /\ Pin(t) = None
          /\ Go(t, "launch")
          /\ worker' = [worker EXCEPT ![t] = "clearing"]
          /\ UNCHANGED verdict
       \/ \E s \in {"created", "stopped"} :
             /\ Go(t, "settle")
             /\ verdict' = [verdict EXCEPT ![t] = s]
             /\ UNCHANGED worker
    /\ UNCHANGED <<deployed, run, commit, sched, caller, crowd, call, machine, faults>>

\* clone_or_pull came back.
CheckedOut(t) ==
    /\ Scheduled(t, "checkout")
    /\ \/ /\ worker[t] = "ok"
          /\ Go(t, "resolve")
          /\ UNCHANGED verdict
       \/ /\ worker[t] = "error"
          /\ Go(t, "settle")
          /\ verdict' = [verdict EXCEPT ![t] = "stopped"]
    /\ worker' = [worker EXCEPT ![t] = "none"]
    /\ UNCHANGED <<db, sched, caller, crowd, call, machine, faults>>

\* The deploy type is written and the row read again: it may be gone by now,
\* the sources may not be deployable, or the service is launched.
Resolve(t) ==
    /\ Scheduled(t, "resolve")
    /\ \/ /\ status = "deleted"
          /\ Leave(t)
          /\ UNCHANGED <<verdict, worker>>
       \/ /\ status # "deleted"
          /\ Go(t, "settle")
          /\ verdict' = [verdict EXCEPT ![t] = "stopped"]
          /\ UNCHANGED <<lock, worker>>
       \/ /\ status # "deleted"
          /\ Go(t, "launch")
          /\ worker' = [worker EXCEPT ![t] = "clearing"]
          /\ UNCHANGED <<lock, verdict>>
    /\ UNCHANGED <<db, slot, arrived, pending, caller, crowd, call, machine, faults>>

\* (mutant) the result of start_project is ignored
LaunchStatusIgnored(result) == "running"

LaunchStatus(result) == IF result = "ok" THEN "running" ELSE "stopped"

\* start_project came back; its result is written and the proxy refreshed.
Launched(t) ==
    /\ Scheduled(t, "launch")
    /\ worker[t] \in {"ok", "error"}
    /\ SetStatus(LaunchStatus(worker[t]))
    /\ verdict' = [verdict EXCEPT ![t] = LaunchStatus(worker[t])]
    /\ worker' = [worker EXCEPT ![t] = "none"]
    /\ Go(t, "proxy")
    /\ UNCHANGED <<deployed, run, commit, sched, caller, crowd, call, machine, faults>>

ApplyProxy(t) ==
    /\ Scheduled(t, "proxy")
    /\ Leave(t)
    /\ UNCHANGED <<db, slot, arrived, pending, verdict, caller, crowd, call, worker,
                   machine, faults>>

\* The early returns: the status is written and the lock is left.
Settle(t) ==
    /\ Scheduled(t, "settle")
    /\ SetStatus(verdict[t])
    /\ Leave(t)
    /\ UNCHANGED <<deployed, run, commit, slot, arrived, pending, verdict, caller, crowd,
                   call, worker, machine, faults>>

(* _run_recorded_deploy after the lock *)

\* (mutant) the project's status is taken for the outcome
OutcomeIsStatus == IF status = "running" THEN "succeeded" ELSE status

\* The outcome is read back from the project row, outside the lock.
Outcome == IF status = "running" THEN "succeeded" ELSE "failed"

Judge(r) ==
    /\ Scheduled(r, "judge")
    /\ verdict' = [verdict EXCEPT ![r] = Outcome]
    /\ Go(r, "record")
    /\ UNCHANGED <<db, sched, caller, crowd, call, worker, machine, faults>>

Record(r) ==
    /\ Scheduled(r, "record")
    /\ \/ /\ verdict[r] # "succeeded"
          /\ SetStatus("failed")
          /\ UNCHANGED deployed
       \/ /\ verdict[r] = "succeeded"
          /\ deployed' = IF commit[r] # None /\ status # "deleted" THEN commit[r] ELSE deployed
          /\ UNCHANGED status
    /\ Go(r, "finish")
    /\ UNCHANGED <<run, commit, sched, verdict, caller, crowd, call, worker, machine, faults>>

FinishRun(r) ==
    /\ Scheduled(r, "finish")
    /\ run' = [run EXCEPT ![r] = verdict[r]]
    /\ Go(r, "publish")
    /\ UNCHANGED <<status, deployed, commit, sched, verdict, caller, crowd, call, worker,
                   machine, faults>>

\* The notification after the final status, and the one in the handlers.
Publish(r) ==
    /\ \/ Scheduled(r, "publish")
       \/ Scheduled(r, "leaving")
    /\ Go(r, "done")
    /\ UNCHANGED <<db, sched, verdict, caller, crowd, call, worker, machine, faults>>

\* (mutant) no handler catches the exception
OnRaiseUncaught(t) == "done"

\* The unrecorded task has no handler and just ends, and so does one whose
\* handler raises: its row stays as it is.
OnRaise(t) == IF t = Initial \/ pc[t] \in Except THEN "done" ELSE "failing"

\* A thread raises, or a statement: one of the try block (the UPDATE that
\* starts the run included) or the UPDATE of one of the handlers.
Raise(t) ==
    /\ pc[t] \in (Body \ {"acquire"}) \cup {"begin", "cancelling", "failing"}
    /\ Scheduled(t, pc[t])
    /\ \/ /\ pc[t] \in {"checkout", "launch"}
          /\ worker[t] = "raised"
          /\ worker' = [worker EXCEPT ![t] = "none"]
          /\ UNCHANGED faults
       \/ /\ pc[t] \notin {"checkout", "launch"}
          /\ Fault("raise")
          /\ UNCHANGED worker
    /\ Unlock(t)
    /\ Go(t, OnRaise(t))
    /\ UNCHANGED <<db, slot, arrived, pending, verdict, caller, crowd, call, machine>>

\* except CancelledError / except Exception: the run gets its final status.
RecordAbort(r) ==
    /\ \/ /\ Scheduled(r, "cancelling")
          /\ run' = [run EXCEPT ![r] = "cancelled"]
       \/ /\ Scheduled(r, "failing")
          /\ run' = [run EXCEPT ![r] = "failed"]
    /\ Go(r, "leaving")
    /\ UNCHANGED <<status, deployed, commit, sched, verdict, caller, crowd, call, worker,
                   machine, faults>>

-----------------------------------------------------------------------------
(* Threads of asyncio.to_thread: clone_or_pull and start_project *)

WorkerStep(t) ==
    /\ \/ /\ worker[t] = "checkout"
          /\ \/ \E w \in {"ok", "error"} :
                   /\ worker' = [worker EXCEPT ![t] = w]
                   /\ PullTree(Pin(t), w = "ok")
                   /\ UNCHANGED faults
             \/ /\ Fault("raise")
                /\ worker' = [worker EXCEPT ![t] = "raised"]
                /\ UNCHANGED machine
       \/ /\ worker[t] = "clearing"
          /\ StopProcess
          /\ worker' = [worker EXCEPT ![t] = "starting"]
          /\ UNCHANGED faults
       \/ /\ worker[t] = "starting"
          /\ \/ /\ SpawnProcess(t)
                /\ worker' = [worker EXCEPT ![t] = "confirming"]
                /\ UNCHANGED faults
             \/ /\ worker' = [worker EXCEPT ![t] = "error"]
                /\ UNCHANGED <<machine, faults>>
             \/ /\ Fault("raise")
                /\ worker' = [worker EXCEPT ![t] = "raised"]
                /\ UNCHANGED machine
       \/ /\ worker[t] = "confirming"
          /\ \/ /\ ConfirmProcess(t)
                /\ worker' = [worker EXCEPT ![t] = "ok"]
             \/ /\ RejectProcess(t)
                /\ worker' = [worker EXCEPT ![t] = "error"]
          /\ UNCHANGED faults
    /\ UNCHANGED <<db, sched, pc, verdict, caller, crowd, call>>

-----------------------------------------------------------------------------
(* start_service, stop_service, update_service, remove_service: unlocked *)

CallAt(o, l) == call' = [call EXCEPT ![o].at = l]

CallBegin(o, k) ==
    /\ call[o].at = "idle"
    /\ status # "deleted"
    /\ LET was == handle \in live IN
       call' = [call EXCEPT ![o] =
                  [at |-> CASE k \in {"stop", "remove"} -> "stopping"
                            [] k = "start" -> "launching"
                            [] k = "update" -> IF was THEN "stopping" ELSE "pulling",
                   kind |-> k, was |-> was, verdict |-> "stopped"]]
    /\ worker' = [worker EXCEPT ![o] = IF k = "start" THEN "clearing" ELSE "none"]
    /\ UNCHANGED <<db, sched, pc, verdict, caller, crowd, machine, faults>>

CallStop(o) ==
    /\ call[o].at = "stopping"
    /\ StopProcess
    /\ CallAt(o, CASE call[o].kind = "stop"   -> "write"
                   [] call[o].kind = "remove" -> "delete"
                   [] OTHER -> "pulling")
    /\ UNCHANGED <<db, sched, pc, verdict, caller, crowd, worker, faults>>

\* The pull of update_service: a failed pull, or sources that cannot be
\* deployed, end the call; a service that was stopped for it is launched
\* again.  A row that was removed meanwhile makes the handler raise if it
\* reads the row again, which it does for projects with a repository.
CallPull(o) ==
    /\ call[o].at = "pulling"
    /\ \/ /\ \E ok \in BOOLEAN : PullTree(None, ok)
          /\ CallAt(o, "done")
          /\ UNCHANGED worker
       \/ /\ call[o].was
          /\ PullTree(None, TRUE)
          /\ CallAt(o, "launching")
          /\ worker' = [worker EXCEPT ![o] = "clearing"]
    /\ UNCHANGED <<db, sched, pc, verdict, caller, crowd, faults>>

CallLaunched(o) ==
    /\ call[o].at = "launching"
    /\ worker[o] \in {"ok", "error", "raised"}
    /\ call' = [call EXCEPT ![o].at = IF worker[o] = "raised" THEN "done" ELSE "write",
                            ![o].verdict = IF worker[o] = "ok" THEN "running" ELSE "stopped"]
    /\ worker' = [worker EXCEPT ![o] = "none"]
    /\ UNCHANGED <<db, sched, pc, verdict, caller, crowd, machine, faults>>

CallWrite(o) ==
    /\ call[o].at = "write"
    /\ SetStatus(call[o].verdict)
    /\ CallAt(o, "done")
    /\ UNCHANGED <<deployed, run, commit, sched, pc, verdict, caller, crowd, worker, machine,
                   faults>>

CallDelete(o) ==
    /\ call[o].at = "delete"
    /\ status' = "deleted"
    /\ CallAt(o, "done")
    /\ UNCHANGED <<deployed, run, commit, sched, pc, verdict, caller, crowd, worker, machine,
                   faults>>

-----------------------------------------------------------------------------
(* The environment *)

\* A service process ends by itself.
ProcessExit ==
    /\ Fault("exit")
    /\ \E p \in live : live' = live \ {p}
    /\ UNCHANGED <<db, sched, pc, verdict, caller, crowd, call, worker, handle, tree, source>>

\* The server dies and is started again: tasks, threads, slot and lock are
\* gone, the database, the pid file and the service processes stay.  Nothing
\* at start-up looks at unfinished runs or at the "deploying" status.
Crash ==
    /\ Fault("crash")
    /\ pc' = [t \in Tasks |-> IF pc[t] = "idle" /\ (t = Initial \/ run[t] = "none")
                              THEN "idle" ELSE "done"]
    /\ slot' = None
    /\ lock' = None
    /\ arrived' = <<>>
    /\ pending' = [r \in Runs |-> FALSE]
    /\ caller' = [c \in Callers |-> Idle]
    /\ call' = [o \in Calls |-> IF call[o].at = "idle" THEN call[o]
                                ELSE [call[o] EXCEPT !.at = "done"]]
    /\ worker' = [a \in Actors |-> "none"]
    /\ crowd' = IF crowd = "now" THEN "past" ELSE crowd
    /\ UNCHANGED <<db, verdict, machine>>

-----------------------------------------------------------------------------
RunStep(r) ==
    \/ Begin(r) \/ Judge(r) \/ Record(r) \/ FinishRun(r) \/ Publish(r)
    \/ RecordAbort(r) \/ Deliver(r)

JobStep(t) ==
    \/ Acquire(t) \/ ReadProject(t) \/ MarkDeploying(t) \/ CheckedOut(t)
    \/ Resolve(t) \/ Launched(t) \/ ApplyProxy(t) \/ Settle(t) \/ Raise(t)

CallStep(o) ==
    \/ CallStop(o) \/ CallPull(o) \/ CallLaunched(o) \/ CallWrite(o) \/ CallDelete(o)

\* No run, task or call is under way and none can be started any more.
Quiet ==
    /\ \A t \in Tasks : ~InFlight(t)
    /\ status # "deleted" => \A r \in Runs : run[r] # "none"
    /\ \A o \in Calls : call[o].at = "done" \/ (status = "deleted" /\ call[o].at = "idle")
    /\ UNCHANGED vars

Next ==
    \/ \E c \in Callers, sha \in Commits \cup {None} : IssueCheck(c, sha)
    \/ \E c \in Callers, r \in Runs : IssueInsert(c, r)
    \/ \E c \in Callers : IssueSpawn(c) \/ IssueAborted(c)
    \/ CancelDeploy
    \/ \E r \in Runs : ClearSlot(r)
    \/ \E r \in Runs : RunStep(r)
    \/ \E t \in Tasks : JobStep(t)
    \/ \E a \in Actors : WorkerStep(a)
    \/ \E o \in Calls, k \in CallKinds : CallBegin(o, k)
    \/ \E o \in Calls : CallStep(o)
    \/ ProcessExit
    \/ Crash
    \/ Quiet

Spec == Init /\ [][Next]_vars

\* The event loop resumes every ready task and runs the done callback.
\* Nothing is assumed of users (no deploy need be issued or cancelled) nor
\* of threads: run_cmd waits for git and docker without a timeout.
Fairness ==
    /\ \A c \in Callers : WF_vars(IssueSpawn(c))
    /\ \A r \in Runs : WF_vars(RunStep(r))
    /\ \A t \in Tasks : WF_vars(JobStep(t))
    /\ \A r \in Runs : WF_vars(ClearSlot(r))

FairSpec == Spec /\ Fairness
-----------------------------------------------------------------------------
(* Properties *)

\* The per-project lock does its work: two deploy threads of one project
\* (git checkout, build, start) are at work together only if one of them was
\* abandoned, that is, its task was cancelled while awaiting it.
OneAwaitedThread ==
    \A s, t \in Tasks :
        (s # t /\ worker[s] \in Busy /\ worker[t] \in Busy)
            => pc[s] \notin Critical \/ pc[t] \notin Critical

\* deployment_runs is a history: a run that has a final status never becomes
\* queued or running again, whatever is cancelled, raised or restarted.
TerminalStays ==
    [][\A r \in Runs : run[r] \in Terminal => run'[r] \in Terminal]_vars

\* What the code leaves a row open after: a cancellation or a restart that
\* hits its task outside the try block, or a second exception, in a handler.
RowsMayBeLeft == faults["cancel"] + faults["crash"] > 0 \/ faults["raise"] > 1

\* A run whose status is still open has a task that will close it, or is
\* between the INSERT and create_task of issue_deploy: one exception,
\* wherever it happens, leaves no row open.
OpenRunHasTask ==
    \A r \in Runs : run[r] \in {"queued", "running"} =>
        InFlight(r) \/ (\E c \in Callers : caller[c].run = r) \/ RowsMayBeLeft

\* "Checking out that immutable SHA after fetch keeps the deployed source
\* aligned with the recorded run": a run recorded as succeeded started a
\* process of its own, from the commit the run was recorded with.  (Update
\* and start calls use the same workspace without the lock, and of deploys
\* that were let in together one takes the status of the other for its own,
\* so this is claimed only while there was neither.)
SourceAligned ==
    crowd = "none" /\ (\A o \in Calls : call[o].at = "idle") =>
        \A r \in Runs : run[r] = "succeeded" =>
            /\ source[r] # Unstarted
            /\ commit[r] # None => source[r] = commit[r]

\* A task under way is in the slot: a second issue_deploy is refused and
\* cancel_deploy reaches it.  This fails only for handlers that were let in
\* together, and it holds again as soon as their deploys have ended and the
\* next handler is let in.
SlotHoldsTask == crowd # "now" => \A r \in Runs : InFlight(r) => slot = r

\* The status "running" that users and the supervisor see is backed by a
\* process that the pid file (container name) reaches.
RunningIsLive == status = "running" => handle \in live

\* No process escapes: what is alive is what the pid file points to, except
\* for the second in which a start waits before it writes the pid.
NoOrphanProcess == live \subseteq {handle} \cup {a \in Actors : worker[a] = "confirming"}

\* The status "deploying" is transient: a task that will replace it holds
\* the lock, unless the deploy was cut short by an exception, a cancellation
\* or a restart.
DeployingHasTask ==
    status = "deploying" /\ (\A k \in {"raise", "cancel", "crash"} : faults[k] = 0)
        => \E t \in Tasks : pc[t] \in Critical \ {"read", "mark"}

\* No task is lost: the three of them together.
TasksTracked == SlotHoldsTask /\ OpenRunHasTask /\ DeployingHasTask

\* No process is lost, in either direction.
ProcessesTracked == RunningIsLive /\ NoOrphanProcess

\* Every deployment that is queued reaches a final status, provided that git
\* and docker commands come back, whatever raises in its way once.
RunsSettle ==
    ([]<>(\A a \in Actors : worker[a] \notin Busy))
        => \A r \in Runs : run[r] = "queued" ~> run[r] \in Terminal \/ RowsMayBeLeft

-----------------------------------------------------------------------------
(* The abstract specification this one implements *)

Book == INSTANCE RunBook WITH book <- run, pinned <- commit, listed <- (status # "deleted")

\* The rows of deployment_runs, and the row of the project, behave like the
\* book: a run is entered, started and ended once, keeps the commit it was
\* pinned to and never succeeds after its end, and a removed project stays
\* removed, through races, unlocked handlers, cancellations and restarts.
ImplementsRunBook == Book!BookSpec

\* A deploy is in progress from create_task to the end of its task.
InProgress == {r \in Runs : InFlight(r)}

Engine == INSTANCE DeploySlot WITH
    Deploys <- Runs,
    inside  <- {c \in Callers : caller[c].at # "idle"},
    going   <- {<<r, commit[r]>> : r \in InProgress},
    newest  <- IF slot \in InProgress THEN slot ELSE None,
    landed  <- deployed,
    crowded <- (crowd = "now")

\* What its callers rely on, through every fault and handler and whoever
\* calls at the same time: nobody is let in while the deploy that was begun
\* last goes on, and only deploys in progress write last_deployed_commit,
\* with the commit that they were accepted for.
ImplementsSlot == Engine!SlotSpec
=============================================================================
