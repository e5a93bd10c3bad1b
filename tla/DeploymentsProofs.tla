-------------------------- MODULE DeploymentsProofs --------------------------
(***************************************************************************)
(* Proofs about Deployments for every number of runs, callers and calls    *)
(* and every fault budget.                                                 *)
(***************************************************************************)
EXTENDS Deployments, NaturalsInduction, WellFoundedInduction, TLAPS

USE ConstantsAssumption

\* What the local variables of tasks and callers hold at an await: a task
\* that is about to write a status has decided on one, a caller that is
\* about to spawn a task has a run.
LocalInv ==
    /\ \A t \in Tasks : pc[t] = "settle" => verdict[t] \in {"created", "stopped"}
    /\ \A r \in Runs : pc[r] \in {"record", "finish"} => verdict[r] \in {"succeeded", "failed"}
    /\ \A c \in Callers : caller[c].at = "spawn" => caller[c].run \in Runs

TInv == TypeOK /\ LocalInv

LEMMA InitTyped == Init => TInv
<1> SUFFICES ASSUME Init PROVE TInv
  OBVIOUS
<1> USE DEF Init, Tasks, PCs, Body
<1>1. PICK now \in DeployNow :
         /\ pc = [t \in Tasks |-> IF now /\ t = Initial THEN "acquire" ELSE "idle"]
         /\ arrived = IF now THEN <<Initial>> ELSE <<>>
  OBVIOUS
<1>2. now \in BOOLEAN
  OBVIOUS
<1>3. pc \in [Tasks -> {"idle", "acquire"}]
  BY <1>1
<1>a. arrived \in Seq(Tasks)
  <2>1. <<Initial>> \in Seq(Tasks) /\ <<>> \in Seq(Tasks)
    OBVIOUS
  <2> QED BY <1>1, <1>2, <2>1
<1>4. TypeOK
  <2>1. /\ status \in ProjectStatus \cup {"deleted"}
        /\ run \in [Runs -> RunStatus]
        /\ verdict \in [Tasks -> ProjectStatus \cup {"succeeded"}]
    BY DEF ProjectStatus, RunStatus
  <2>2. /\ worker \in [Actors -> WorkerState]
        /\ source \in [Actors -> Commits \cup {None, Unstarted}]
        /\ live \subseteq Actors
        /\ faults \in [FaultKinds -> Nat]
    BY DEF WorkerState
  <2>3. call \in [Calls -> [at: CallPC, kind: Handlers, was: BOOLEAN,
                            verdict: {"running", "stopped"}]]
    BY DEF NoCall, CallPC, Handlers
  <2>4. caller \in [Callers -> [at: {"idle", "insert", "spawn"},
                                run: Runs \cup {None}, commit: Commits \cup {None}]]
    BY DEF Idle
  <2> QED BY <1>3, <1>a, <2>1, <2>2, <2>3, <2>4 DEF TypeOK
<1>5. LocalInv
  BY <1>3 DEF LocalInv, Idle
<1> QED BY <1>4, <1>5 DEF TInv

LEMMA IssueTyped ==
  ASSUME TInv,
         \/ \E c \in Callers, sha \in Commits \cup {None} : IssueCheck(c, sha)
         \/ \E c \in Callers, r \in Runs : IssueInsert(c, r)
         \/ \E c \in Callers : IssueSpawn(c) \/ IssueAborted(c)
         \/ CancelDeploy
         \/ \E r \in Runs : ClearSlot(r)
  PROVE  TInv'
<1> USE DEF TInv, TypeOK, LocalInv, Tasks, PCs, Body, Critical, db, sched, machine
<1>1. ASSUME NEW c \in Callers, NEW sha \in Commits \cup {None}, IssueCheck(c, sha)
      PROVE  TInv'
  BY <1>1 DEF IssueCheck
<1>2. ASSUME NEW c \in Callers, NEW r \in Runs, IssueInsert(c, r)
      PROVE  TInv'
  BY <1>2 DEF IssueInsert, RunStatus
<1>3. ASSUME NEW c \in Callers, IssueSpawn(c)
      PROVE  TInv'
  BY <1>3 DEF IssueSpawn, Go, Idle
<1>4. CASE CancelDeploy
  BY <1>4 DEF CancelDeploy, Fault, FaultKinds
<1>5. ASSUME NEW r \in Runs, ClearSlot(r)
      PROVE  TInv'
  <2>1. slot' = None
    BY <1>5 DEF ClearSlot, AfterDone
  <2> QED BY <1>5, <2>1 DEF ClearSlot
<1>6. ASSUME NEW c \in Callers, IssueAborted(c)
      PROVE  TInv'
  <2>1. \E k \in FaultKinds : faults' = [faults EXCEPT ![k] = @ + 1]
    BY <1>6 DEF IssueAborted, Fault, FaultKinds
  <2>2. faults' \in [FaultKinds -> Nat]
    BY <2>1
  <2> QED BY <1>6, <2>2 DEF IssueAborted, Idle
<1> QED BY <1>1, <1>2, <1>3, <1>4, <1>5, <1>6

LEMMA RunTyped ==
  ASSUME TInv, NEW r \in Runs, RunStep(r)
  PROVE  TInv'
<1> USE DEF TInv, TypeOK, LocalInv, Tasks, PCs, Body, Critical, Except, Go, Scheduled,
            ProjectStatus, RunStatus, Terminal, db, sched, machine
<1>1. CASE Begin(r)
  <2>1. arrived' \in Seq(Tasks)
    BY <1>1 DEF Begin
  <2> QED BY <1>1, <2>1 DEF Begin
<1>2. CASE Judge(r)
  BY <1>2 DEF Judge, Outcome
<1>3. CASE Record(r)
  <2>1. status' \in ProjectStatus \cup {"deleted"} /\ deployed' \in Commits \cup {None}
    BY <1>3 DEF Record, SetStatus
  <2> QED BY <1>3, <2>1 DEF Record
<1>4. CASE FinishRun(r)
  BY <1>4 DEF FinishRun
<1>5. CASE Publish(r)
  BY <1>5 DEF Publish
<1>6. CASE RecordAbort(r)
  BY <1>6 DEF RecordAbort
<1>7. CASE Deliver(r)
  BY <1>7 DEF Deliver, OnCancel, Unlock
<1> QED BY <1>1, <1>2, <1>3, <1>4, <1>5, <1>6, <1>7 DEF RunStep

LEMMA JobTyped ==
  ASSUME TInv, NEW t \in Tasks, JobStep(t)
  PROVE  TInv'
<1> USE DEF TInv, TypeOK, LocalInv, Tasks, Actors, PCs, Body, Critical, Except, Go,
            Scheduled, Unlock, Leave, ProjectStatus, WorkerState, Busy, db, sched, machine
<1>1. CASE Acquire(t)
  BY <1>1 DEF Acquire, LockFree
<1>2. CASE ReadProject(t)
  <2>1. CASE Leave(t)
    BY <1>2, <2>1 DEF ReadProject
  <2>2. CASE Go(t, "mark") /\ UNCHANGED lock
    BY <1>2, <2>2 DEF ReadProject
  <2> QED BY <1>2, <2>1, <2>2 DEF ReadProject
<1>3. CASE MarkDeploying(t)
  <2> /\ SetStatus("deploying")
      /\ UNCHANGED <<deployed, run, commit, sched, caller, crowd, call, machine, faults>>
    BY <1>3 DEF MarkDeploying
  <2>1. CASE /\ Go(t, "checkout")
             /\ worker' = [worker EXCEPT ![t] = "checkout"]
             /\ UNCHANGED verdict
    BY <2>1 DEF SetStatus
  <2>2. CASE /\ Go(t, "launch")
             /\ worker' = [worker EXCEPT ![t] = "clearing"]
             /\ UNCHANGED verdict
    BY <2>2 DEF SetStatus
  <2>3. ASSUME NEW s \in {"created", "stopped"},
               Go(t, "settle"), verdict' = [verdict EXCEPT ![t] = s], UNCHANGED worker
        PROVE  TInv'
    BY <2>3 DEF SetStatus
  <2> QED BY <1>3, <2>1, <2>2, <2>3 DEF MarkDeploying
<1>4. CASE CheckedOut(t)
  <2> /\ worker' = [worker EXCEPT ![t] = "none"]
      /\ UNCHANGED <<db, sched, caller, crowd, call, machine, faults>>
    BY <1>4 DEF CheckedOut
  <2>1. CASE Go(t, "resolve") /\ UNCHANGED verdict
    BY <2>1
  <2>2. CASE Go(t, "settle") /\ verdict' = [verdict EXCEPT ![t] = "stopped"]
    BY <2>2
  <2> QED BY <1>4, <2>1, <2>2 DEF CheckedOut
<1>5. CASE Resolve(t)
  <2> UNCHANGED <<db, slot, arrived, pending, caller, crowd, call, machine, faults>>
    BY <1>5 DEF Resolve
  <2>1. CASE Leave(t) /\ UNCHANGED <<verdict, worker>>
    BY <2>1
  <2>2. CASE /\ Go(t, "settle")
             /\ verdict' = [verdict EXCEPT ![t] = "stopped"]
             /\ UNCHANGED <<lock, worker>>
    BY <2>2
  <2>3. CASE /\ Go(t, "launch")
             /\ worker' = [worker EXCEPT ![t] = "clearing"]
             /\ UNCHANGED <<lock, verdict>>
    BY <2>3
  <2> QED BY <1>5, <2>1, <2>2, <2>3 DEF Resolve
<1>6. CASE Launched(t)
  BY <1>6 DEF Launched, SetStatus, LaunchStatus
<1>7. CASE ApplyProxy(t)
  BY <1>7 DEF ApplyProxy
<1>8. CASE Settle(t)
  BY <1>8 DEF Settle, SetStatus
<1>9. CASE Raise(t)
  <2>1. /\ faults' \in [FaultKinds -> Nat]
        /\ worker' \in [Actors -> WorkerState]
    BY <1>9 DEF Raise, Fault, FaultKinds
  <2>2. \E l \in {"done", "failing"} : pc' = [pc EXCEPT ![t] = l]
    BY <1>9 DEF Raise, OnRaise
  <2>3. lock' \in Tasks \cup {None}
    BY <1>9 DEF Raise
  <2>4. LocalInv'
    BY <1>9, <2>2 DEF Raise
  <2> QED BY <1>9, <2>1, <2>2, <2>3, <2>4 DEF Raise
<1> QED BY <1>1, <1>2, <1>3, <1>4, <1>5, <1>6, <1>7, <1>8, <1>9 DEF JobStep

LEMMA WorkerTyped ==
  ASSUME TInv, NEW a \in Actors, WorkerStep(a)
  PROVE  TInv'
<1> DEFINE Keep == UNCHANGED <<db, sched, pc, verdict, caller, crowd, call>>
           Goes(w) == worker' = [worker EXCEPT ![a] = w]
<1> USE DEF TInv, TypeOK, LocalInv, Busy, WorkerState, FaultKinds, db, sched
<1>1. Keep
  BY DEF WorkerStep
<1>2. Pin(a) \in Commits \cup {None}
  BY DEF Pin
<1>3. ASSUME NEW ok \in BOOLEAN, NEW w \in {"ok", "error"}, Goes(w), PullTree(Pin(a), ok),
             UNCHANGED faults
      PROVE  TInv'
  <2>1. tree' \in Commits \cup {None}
    BY <1>2, <1>3 DEF PullTree
  <2> QED BY <1>1, <1>3, <2>1 DEF PullTree
<1>4. CASE Goes("raised") /\ Fault("raise") /\ UNCHANGED machine
  BY <1>1, <1>4 DEF Fault, machine
<1>5. CASE StopProcess /\ Goes("starting") /\ UNCHANGED faults
  BY <1>1, <1>5 DEF StopProcess
<1>6. CASE SpawnProcess(a) /\ Goes("confirming") /\ UNCHANGED faults
  <2>1. /\ handle' \in Actors \cup {None}
        /\ live' \subseteq Actors
    BY <1>6 DEF SpawnProcess
  <2>2. source' \in [Actors -> Commits \cup {None, Unstarted}] /\ tree' = tree
    BY <1>6 DEF SpawnProcess
  <2> QED BY <1>1, <1>6, <2>1, <2>2
<1>7. CASE Goes("error") /\ UNCHANGED <<machine, faults>>
  BY <1>1, <1>7 DEF machine
<1>8. CASE ConfirmProcess(a) /\ Goes("ok") /\ UNCHANGED faults
  BY <1>1, <1>8 DEF ConfirmProcess
<1>9. CASE RejectProcess(a) /\ Goes("error") /\ UNCHANGED faults
  <2>1. /\ live' \subseteq Actors
        /\ handle' \in Actors \cup {None}
        /\ UNCHANGED <<tree, source>>
    BY <1>9 DEF RejectProcess, StopProcess
  <2> QED BY <1>1, <1>9, <2>1
<1> QED BY <1>3, <1>4, <1>5, <1>6, <1>7, <1>8, <1>9 DEF WorkerStep

CallType == [at: CallPC, kind: Handlers, was: BOOLEAN, verdict: {"running", "stopped"}]

LEMMA CallTyped ==
  ASSUME TInv, NEW o \in Calls, CallStep(o) \/ \E k \in CallKinds : CallBegin(o, k)
  PROVE  TInv'
<1> USE DEF TInv, TypeOK, LocalInv, db, sched, machine
<1>a. call[o] \in CallType /\ o \in Actors
  BY DEF CallType, Actors
<1>b. ASSUME NEW l \in CallPC
      PROVE  [call EXCEPT ![o].at = l] \in [Calls -> CallType]
  BY <1>a DEF CallType
<1>1. ASSUME NEW k \in CallKinds, CallBegin(o, k)
      PROVE  TInv'
  <2>1. k \in Handlers
    OBVIOUS
  <2>2. call' \in [Calls -> CallType]
    BY <1>1, <2>1 DEF CallBegin, CallType, CallPC, Handlers
  <2>3. worker' \in [Actors -> WorkerState]
    BY <1>1 DEF CallBegin, WorkerState, Busy
  <2> QED BY <1>1, <2>2, <2>3 DEF CallBegin, CallType
<1>2. CASE CallStop(o)
  <2>1. call' \in [Calls -> CallType]
    BY <1>2, <1>b DEF CallStop, CallAt, CallPC
  <2> QED BY <1>2, <2>1 DEF CallStop, StopProcess, CallType
<1>3. CASE CallPull(o)
  <2>1. call' \in [Calls -> CallType]
    BY <1>3, <1>b DEF CallPull, CallAt, CallPC
  <2>2. worker' \in [Actors -> WorkerState] /\ tree' \in Commits \cup {None}
    BY <1>3, <1>a DEF CallPull, PullTree, WorkerState, Busy
  <2> QED BY <1>3, <2>1, <2>2 DEF CallPull, PullTree, CallType
<1>4. CASE CallLaunched(o)
  <2>1. call' \in [Calls -> CallType]
    BY <1>4, <1>a DEF CallLaunched, CallType, CallPC
  <2>2. worker' \in [Actors -> WorkerState]
    BY <1>4, <1>a DEF CallLaunched, WorkerState
  <2> QED BY <1>4, <2>1, <2>2 DEF CallLaunched, CallType
<1>5. CASE CallWrite(o)
  <2>1. call' \in [Calls -> CallType]
    BY <1>5, <1>b DEF CallWrite, CallAt, CallPC
  <2>2. status' \in ProjectStatus \cup {"deleted"}
    BY <1>5, <1>a DEF CallWrite, SetStatus, CallType, ProjectStatus
  <2> QED BY <1>5, <2>1, <2>2 DEF CallWrite, CallType
<1>6. CASE CallDelete(o)
  <2>1. call' \in [Calls -> CallType]
    BY <1>6, <1>b DEF CallDelete, CallAt, CallPC
  <2> QED BY <1>6, <2>1 DEF CallDelete, CallType
<1> QED BY <1>1, <1>2, <1>3, <1>4, <1>5, <1>6 DEF CallStep

LEMMA EnvironmentTyped ==
  ASSUME TInv, ProcessExit \/ Crash
  PROVE  TInv'
<1> USE DEF TInv, TypeOK, LocalInv, FaultKinds, Fault, db, sched, machine
<1>1. CASE ProcessExit
  BY <1>1 DEF ProcessExit
<1>2. CASE Crash
  <2>1. caller' \in [Callers -> [at: {"idle", "insert", "spawn"},
                                 run: Runs \cup {None}, commit: Commits \cup {None}]]
    BY <1>2 DEF Crash, Idle
  <2>2. call' \in [Calls -> [at: CallPC, kind: Handlers, was: BOOLEAN,
                             verdict: {"running", "stopped"}]]
    <3>1. ASSUME NEW o \in Calls
          PROVE  [call[o] EXCEPT !.at = "done"] \in CallType /\ call[o] \in CallType
      <4>1. call[o] \in CallType
        BY DEF CallType
      <4> QED BY <4>1 DEF CallType, CallPC
    <3> QED BY <1>2, <3>1 DEF Crash, CallType
  <2>3. arrived' \in Seq(Tasks)
    BY <1>2 DEF Crash
  <2>4. /\ pc' \in [Tasks -> {"idle", "done"}]
        /\ worker' \in [Actors -> {"none"}]
    BY <1>2 DEF Crash
  <2>5. LocalInv'
    BY <1>2, <2>4 DEF Crash, Idle, Tasks
  <2> QED BY <1>2, <2>1, <2>2, <2>3, <2>4, <2>5 DEF Crash, PCs, WorkerState
<1> QED BY <1>1, <1>2

LEMMA NextTyped == TInv /\ [Next]_vars => TInv'
<1> SUFFICES ASSUME TInv, [Next]_vars PROVE TInv'
  OBVIOUS
<1>1. CASE UNCHANGED vars
  BY <1>1 DEF TInv, TypeOK, LocalInv, vars
<1>2. CASE Next
  BY <1>1, <1>2, IssueTyped, RunTyped, JobTyped, WorkerTyped, CallTyped, EnvironmentTyped
     DEF Next, Quiet
<1> QED BY <1>1, <1>2

\* Every variable keeps its type, for every number of runs, callers and
\* calls; in particular a run only ever gets one of the six statuses.
THEOREM TypeCorrect == Spec => []TypeOK
<1>1. Spec => []TInv
  BY InitTyped, NextTyped, PTL DEF Spec
<1> QED BY <1>1, PTL DEF TInv

-----------------------------------------------------------------------------
(* How the steps of a job move it *)

\* Awaits of a run that was started and is not finished.
Underway == Body \ {"publish"}

\* What most steps do to the rows: the runs stay as they are, and the row of
\* the project does not come back.
RowsKept == UNCHANGED <<run, commit>> /\ (status = "deleted" => status' = "deleted")

\* The job t goes on from one await to another, inside the lock it holds or
\* leaving it, and touches neither the runs nor the callers.
JobMove(t, l) ==
    /\ InFlight(t)
    /\ pc' = [pc EXCEPT ![t] = l]
    /\ UNCHANGED <<run, caller, crowd, slot>> /\ RowsKept
    /\ l \in Underway => pc[t] \in Underway
    /\ l # "acquire"
    /\ \/ /\ {pc[t], l} \subseteq Critical
          /\ UNCHANGED lock
       \/ /\ l \notin Critical
          /\ lock' = IF lock = t THEN None ELSE lock
       \/ /\ l \in Critical /\ lock = None
          /\ lock' = t

Places == PCs \ {"idle", "begin"}

LEMMA JobMoves ==
  ASSUME NEW t \in Tasks, JobStep(t)
  PROVE  \E l \in Places : JobMove(t, l)
<1> USE DEF JobMove, InFlight, Underway, RowsKept, SetStatus, Places, PCs, Body, Critical,
            Except, Go, Scheduled, Unlock, Leave, db, sched
<1>1. CASE Acquire(t)
  BY <1>1, JobMove(t, "read") DEF Acquire, LockFree
<1>2. CASE ReadProject(t)
  BY <1>2, JobMove(t, "mark") \/ JobMove(t, "judge") \/ JobMove(t, "done") DEF ReadProject
<1>3. CASE MarkDeploying(t)
  BY <1>3, JobMove(t, "checkout") \/ JobMove(t, "launch") \/ JobMove(t, "settle")
     DEF MarkDeploying
<1>4. CASE CheckedOut(t)
  BY <1>4, JobMove(t, "resolve") \/ JobMove(t, "settle") DEF CheckedOut
<1>5. CASE Resolve(t)
  BY <1>5, JobMove(t, "judge") \/ JobMove(t, "done") \/ JobMove(t, "settle")
           \/ JobMove(t, "launch") DEF Resolve
<1>6. CASE Launched(t)
  BY <1>6, JobMove(t, "proxy") DEF Launched
<1>7. CASE ApplyProxy(t)
  BY <1>7, JobMove(t, "judge") \/ JobMove(t, "done") DEF ApplyProxy
<1>8. CASE Settle(t)
  BY <1>8, JobMove(t, "judge") \/ JobMove(t, "done") DEF Settle
<1>9. CASE Raise(t)
  BY <1>9, JobMove(t, "failing") \/ JobMove(t, "done") DEF Raise, OnRaise
<1> QED BY <1>1, <1>2, <1>3, <1>4, <1>5, <1>6, <1>7, <1>8, <1>9 DEF JobStep

-----------------------------------------------------------------------------
(* The lock *)

\* A task suspended inside "async with" holds the lock.
LockInv == \A t \in Tasks : pc[t] \in Critical => lock = t

LEMMA InitLocked == Init => LockInv
  BY DEF Init, LockInv, Critical

LEMMA NextLocked == TInv /\ LockInv /\ [Next]_vars => LockInv'
<1> SUFFICES ASSUME TInv, LockInv, [Next]_vars PROVE LockInv'
  OBVIOUS
<1> USE DEF LockInv, Critical
<1>1. ASSUME NEW t \in Tasks, JobStep(t)
      PROVE  LockInv'
  <2>1. PICK l \in Places : JobMove(t, l)
    BY <1>1, JobMoves
  <2>2. CASE pc[t] \in Critical /\ UNCHANGED lock
    BY <2>1, <2>2 DEF JobMove, TInv, TypeOK
  <2>3. CASE l \notin Critical /\ lock' = IF lock = t THEN None ELSE lock
    BY <2>1, <2>3 DEF JobMove, TInv, TypeOK
  <2>4. CASE lock = None /\ lock' = t
    BY <2>1, <2>4 DEF JobMove, TInv, TypeOK, Tasks
  <2> QED BY <2>1, <2>2, <2>3, <2>4 DEF JobMove
<1>2. ASSUME NEW r \in Runs, RunStep(r)
      PROVE  LockInv'
  <2> USE DEF TInv, TypeOK, Tasks, Go, sched
  <2>1. CASE Deliver(r)
    <3>1. PICK l \in {"cancelling", "done"} : pc' = [pc EXCEPT ![r] = l]
      BY <2>1 DEF Deliver, OnCancel
    <3> QED BY <2>1, <3>1 DEF Deliver, Unlock
  <2>2. CASE Begin(r) \/ Judge(r) \/ Record(r) \/ FinishRun(r) \/ Publish(r) \/ RecordAbort(r)
    BY <1>2, <2>2 DEF Begin, Judge, Record, FinishRun, Publish, RecordAbort
  <2> QED BY <1>2, <2>1, <2>2 DEF RunStep
<1>3. ASSUME NEW c \in Callers, IssueSpawn(c)
      PROVE  LockInv'
  BY <1>3 DEF IssueSpawn, Go, TInv, TypeOK, LocalInv, Tasks
<1>4. CASE Crash
  BY <1>4 DEF Crash
<1>5. CASE UNCHANGED <<pc, lock>>
  BY <1>5
<1>6. CASE \/ \E c \in Callers, sha \in Commits \cup {None} : IssueCheck(c, sha)
           \/ \E c \in Callers : IssueAborted(c)
           \/ \E c \in Callers, r \in Runs : IssueInsert(c, r)
           \/ CancelDeploy
           \/ \E r \in Runs : ClearSlot(r)
           \/ \E a \in Actors : WorkerStep(a)
           \/ ProcessExit
           \/ Quiet
           \/ UNCHANGED vars
  <2>1. UNCHANGED <<pc, lock>>
    BY <1>6 DEF IssueCheck, IssueAborted, IssueInsert, CancelDeploy, ClearSlot, WorkerStep,
                ProcessExit,
                Quiet, vars, sched
  <2> QED BY <1>5, <2>1
<1>7. ASSUME NEW o \in Calls, CallStep(o) \/ \E k \in CallKinds : CallBegin(o, k)
      PROVE  LockInv'
  <2>1. UNCHANGED <<pc, lock>>
    BY <1>7 DEF CallStep, CallBegin, CallStop, CallPull, CallLaunched, CallWrite,
                CallDelete, sched
  <2> QED BY <1>5, <2>1
<1> QED BY <1>1, <1>2, <1>3, <1>4, <1>6, <1>7 DEF Next

\* The per-project asyncio lock keeps the deploy threads of a project apart:
\* whatever is issued, cancelled, raised or restarted, two threads are at
\* work at once only if the task of one of them has given it up.
THEOREM ThreadsExclusive == Spec => []OneAwaitedThread
<1>1. Spec => [](TInv /\ LockInv)
  BY InitTyped, NextTyped, InitLocked, NextLocked, PTL DEF Spec
<1>2. LockInv => OneAwaitedThread
  BY DEF LockInv, OneAwaitedThread
<1> QED BY <1>1, <1>2, PTL

-----------------------------------------------------------------------------
(* The deployment history *)

\* A run is queued until its task takes its first step, and no two callers
\* are about to spawn a task for the same run.
RunInv ==
    /\ \A r \in Runs : pc[r] = "begin" => run[r] = "queued"
    /\ \A r \in Runs : run[r] = "none" => pc[r] = "idle"
    /\ \A c \in Callers : caller[c].at = "spawn" =>
          run[caller[c].run] = "queued" /\ pc[caller[c].run] = "idle"
    /\ \A c, d \in Callers :
          c # d /\ caller[c].at = "spawn" /\ caller[d].at = "spawn"
              => caller[c].run # caller[d].run

LEMMA InitHistory == Init => RunInv
  BY DEF Init, RunInv, Tasks, Idle

\* A task that is past its creation moves and leaves the history alone.
LEMMA MoveHistory ==
  ASSUME TInv, RunInv, NEW t \in Tasks, NEW l \in Places,
         pc[t] # "idle", pc' = [pc EXCEPT ![t] = l], UNCHANGED <<run, caller>>
  PROVE  RunInv'
  BY DEF TInv, TypeOK, LocalInv, RunInv, Places, Tasks

\* A task that is past its creation moves and writes the status of its run.
LEMMA WriteHistory ==
  ASSUME TInv, RunInv, NEW r \in Runs, NEW l \in Places, NEW s \in RunStatus \ {"none"},
         pc[r] # "idle", pc' = [pc EXCEPT ![r] = l], run' = [run EXCEPT ![r] = s],
         UNCHANGED caller
  PROVE  RunInv'
  BY DEF TInv, TypeOK, LocalInv, RunInv, Places, Tasks, RunStatus, Terminal

LEMMA NextHistory ==
  ASSUME TInv, RunInv, [Next]_vars
  PROVE  /\ RunInv'
         /\ \A r \in Runs : run[r] \in Terminal => run'[r] \in Terminal
<1> DEFINE Kept == \A r \in Runs : run[r] \in Terminal => run'[r] \in Terminal
<1> SUFFICES RunInv' /\ Kept
  OBVIOUS
<1>0. UNCHANGED run => Kept
  OBVIOUS
<1>1. ASSUME NEW t \in Tasks, JobStep(t)
      PROVE  RunInv' /\ Kept
  <2>1. PICK l \in Places : JobMove(t, l)
    BY <1>1, JobMoves
  <2> QED BY <1>0, <2>1, MoveHistory DEF JobMove, InFlight
<1>2. ASSUME NEW r \in Runs, RunStep(r)
      PROVE  RunInv' /\ Kept
  <2> USE DEF Go, Scheduled, Places, PCs, Body, Except
  <2>0. r \in Tasks /\ pc \in [Tasks -> PCs] /\ run \in [Runs -> RunStatus]
    BY DEF TInv, TypeOK, Tasks
  <2>1. CASE Begin(r)
    <3>1. RunInv'
      BY <2>0, <2>1, WriteHistory DEF Begin, RunStatus
    <3>2. run[r] = "queued" /\ run' = [run EXCEPT ![r] = "running"]
      BY <2>1 DEF Begin, RunInv
    <3> QED BY <2>0, <3>1, <3>2 DEF Terminal
  <2>2. CASE FinishRun(r)
    <3>1. verdict[r] \in {"succeeded", "failed"}
      BY <2>2 DEF FinishRun, TInv, LocalInv
    <3>2. RunInv'
      BY <2>0, <2>2, <3>1, WriteHistory DEF FinishRun, RunStatus, Terminal
    <3> QED BY <2>0, <2>2, <3>1, <3>2 DEF FinishRun, Terminal
  <2>3. CASE RecordAbort(r)
    <3>1. PICK s \in {"cancelled", "failed"} : run' = [run EXCEPT ![r] = s]
      BY <2>3 DEF RecordAbort
    <3>2. RunInv'
      BY <2>0, <2>3, <3>1, WriteHistory DEF RecordAbort, RunStatus, Terminal
    <3> QED BY <2>0, <3>1, <3>2 DEF Terminal
  <2>4. CASE Deliver(r)
    <3>1. UNCHANGED <<run, caller>> /\ pc[r] # "idle"
      BY <2>4 DEF Deliver, InFlight, db
    <3>2. PICK l \in Places : pc' = [pc EXCEPT ![r] = l]
      BY <2>4 DEF Deliver, OnCancel
    <3> QED BY <1>0, <2>0, <3>1, <3>2, MoveHistory
  <2>5. CASE Judge(r) \/ Record(r) \/ Publish(r)
    <3>1. UNCHANGED <<run, caller>> /\ pc[r] # "idle"
      BY <2>5 DEF Judge, Record, Publish, db
    <3>2. PICK l \in {"record", "finish", "done"} : pc' = [pc EXCEPT ![r] = l]
      BY <2>5 DEF Judge, Record, Publish
    <3> QED BY <1>0, <2>0, <3>1, <3>2, MoveHistory
  <2> QED BY <1>2, <2>1, <2>2, <2>3, <2>4, <2>5 DEF RunStep
<1>3. ASSUME NEW c \in Callers, NEW r \in Runs, IssueInsert(c, r)
      PROVE  RunInv' /\ Kept
  BY <1>3 DEF IssueInsert, RunInv, TInv, TypeOK, LocalInv, Terminal
<1>4. ASSUME NEW c \in Callers, IssueSpawn(c)
      PROVE  RunInv' /\ Kept
  <2>1. UNCHANGED run
    BY <1>4 DEF IssueSpawn, db
  <2>2. RunInv'
    BY <1>4, <2>1 DEF IssueSpawn, Go, Idle, RunInv, TInv, TypeOK, LocalInv, Tasks
  <2> QED BY <1>0, <2>1, <2>2
<1>5. ASSUME NEW c \in Callers, NEW sha \in Commits \cup {None}, IssueCheck(c, sha)
      PROVE  RunInv' /\ Kept
  BY <1>5 DEF IssueCheck, RunInv, TInv, TypeOK, LocalInv, db
<1>a. ASSUME NEW c \in Callers, IssueAborted(c)
      PROVE  RunInv' /\ Kept
  BY <1>a DEF IssueAborted, Idle, RunInv, TInv, TypeOK, LocalInv, db
<1>6. CASE Crash
  <2>1. UNCHANGED run /\ pc \in [Tasks -> PCs]
    BY <1>6 DEF Crash, db, TInv, TypeOK
  <2>2. RunInv'
    BY <1>6, <2>1 DEF Crash, RunInv, Idle, Tasks
  <2> QED BY <1>0, <2>1, <2>2
<1>7. CASE UNCHANGED <<run, pc, caller>>
  BY <1>0, <1>7 DEF RunInv
<1>8. CASE \/ CancelDeploy
           \/ \E r \in Runs : ClearSlot(r)
           \/ \E a \in Actors : WorkerStep(a)
           \/ ProcessExit
           \/ Quiet
           \/ UNCHANGED vars
  <2>1. UNCHANGED <<run, pc, caller>>
    BY <1>8 DEF CancelDeploy, ClearSlot, WorkerStep, ProcessExit, Quiet, vars, db
  <2> QED BY <1>7, <2>1
<1>9. ASSUME NEW o \in Calls, CallStep(o) \/ \E k \in CallKinds : CallBegin(o, k)
      PROVE  RunInv' /\ Kept
  <2>1. UNCHANGED <<run, pc, caller>>
    BY <1>9 DEF CallStep, CallBegin, CallStop, CallPull, CallLaunched, CallWrite,
                CallDelete, db
  <2> QED BY <1>7, <2>1
<1> QED BY <1>1, <1>2, <1>3, <1>4, <1>5, <1>6, <1>8, <1>9, <1>a DEF Next

\* The deployment history is append-only in this sense: a run that has
\* succeeded, failed or been cancelled is never shown as queued or running
\* again.
THEOREM HistoryKept == Spec => TerminalStays
<1>1. Spec => [](TInv /\ RunInv)
  <2>1. TInv /\ RunInv /\ [Next]_vars => (TInv /\ RunInv)'
    BY NextTyped, NextHistory
  <2> QED BY InitTyped, InitHistory, <2>1, PTL DEF Spec
<1>2. TInv /\ RunInv /\ [Next]_vars
        => [\A r \in Runs : run[r] \in Terminal => run'[r] \in Terminal]_vars
  BY NextHistory
<1> QED BY <1>1, <1>2, PTL DEF Spec, TerminalStays

-----------------------------------------------------------------------------
(* The abstract specification *)

\* A run whose task is between its first await and the write of its outcome
\* is shown as running.
StartedInv == \A r \in Runs : pc[r] \in Underway => run[r] = "running"

BookStep == [Book!BookNext]_(Book!bookVars)

LEMMA InitStarted == Init => StartedInv /\ Book!BookInit
  BY DEF Init, StartedInv, Underway, Body, Critical, Book!BookInit, Tasks

\* Rows that are kept are a step of the book: its own stutter, or a removal.
LEMMA KeptInBook ==
  ASSUME RowsKept
  PROVE  BookStep
<1>1. CASE (status # "deleted")' = (status # "deleted")
  BY <1>1 DEF RowsKept, BookStep, Book!bookVars
<1>2. CASE (status # "deleted")' # (status # "deleted")
  <2>1. Book!Unlist
    BY <1>2 DEF RowsKept, Book!Unlist
  <2> QED BY <2>1 DEF BookStep, Book!BookNext
<1> QED BY <1>1, <1>2

\* Every step that writes neither runs nor commits, nor brings the project
\* back, and moves no run past its start, is a step of the book.
LEMMA MoveStarted ==
  ASSUME TInv, StartedInv, NEW t \in Tasks, NEW l \in PCs, pc' = [pc EXCEPT ![t] = l],
         RowsKept, l \in Underway => pc[t] \in Underway
  PROVE  StartedInv' /\ BookStep
  BY KeptInBook DEF TInv, TypeOK, StartedInv, RowsKept, Tasks

\* A run that is in the book changes its status.
LEMMA WriteStarted ==
  ASSUME TInv, StartedInv, NEW r \in Runs, NEW l \in PCs, NEW s \in RunStatus,
         pc' = [pc EXCEPT ![r] = l], run' = [run EXCEPT ![r] = s],
         UNCHANGED <<status, commit>>,
         \/ run[r] = "queued" /\ s = "running"
         \/ run[r] = "running" /\ s = "succeeded" /\ l \notin Underway
         \/ run[r] # "none" /\ s \in {"failed", "cancelled"} /\ l \notin Underway
  PROVE  StartedInv' /\ BookStep
<1>1. StartedInv'
  BY DEF TInv, TypeOK, StartedInv, Tasks
<1>2. run[r] \in RunStatus
  BY DEF TInv, TypeOK
<1>3. CASE run[r] = "queued" /\ s = "running"
  BY <1>1, <1>3 DEF BookStep, Book!BookNext, Book!StartRun, Book!Proceed
<1>4. CASE run[r] = "running" /\ s = "succeeded"
  BY <1>1, <1>4 DEF BookStep, Book!BookNext, Book!Succeed, Book!Proceed
<1>5. CASE run[r] # "none" /\ s \in {"failed", "cancelled"}
  BY <1>1, <1>2, <1>5 DEF BookStep, Book!BookNext, Book!Abandon, Book!Proceed, RunStatus, Terminal
<1> QED BY <1>3, <1>4, <1>5

LEMMA NextBook ==
  ASSUME TInv, RunInv, StartedInv, [Next]_vars
  PROVE  StartedInv' /\ BookStep
<1>1. ASSUME NEW t \in Tasks, JobStep(t)
      PROVE  StartedInv' /\ BookStep
  <2>1. PICK l \in Places : JobMove(t, l)
    BY <1>1, JobMoves
  <2>2. l \in PCs /\ RowsKept /\ (l \in Underway => pc[t] \in Underway)
        /\ pc' = [pc EXCEPT ![t] = l]
    BY <2>1 DEF JobMove, Places
  <2> QED BY <2>2, MoveStarted
<1>2. ASSUME NEW r \in Runs, RunStep(r)
      PROVE  StartedInv' /\ BookStep
  <2> USE DEF Go, Scheduled, PCs, Body, Except, Critical, Underway
  <2>0. r \in Tasks /\ run[r] \in RunStatus
    BY DEF TInv, TypeOK, Tasks
  <2>1. CASE Begin(r)
    <3>1. run[r] = "queued"
      BY <2>1 DEF Begin, RunInv
    <3> QED BY <2>0, <2>1, <3>1, WriteStarted DEF Begin, RunStatus
  <2>2. CASE FinishRun(r)
    <3>1. verdict[r] \in {"succeeded", "failed"} /\ run[r] = "running"
      BY <2>2 DEF FinishRun, TInv, LocalInv, StartedInv
    <3> QED BY <2>2, <3>1, WriteStarted DEF FinishRun, RunStatus, Terminal
  <2>3. CASE RecordAbort(r)
    <3>1. PICK s \in {"cancelled", "failed"} : run' = [run EXCEPT ![r] = s]
      BY <2>3 DEF RecordAbort
    <3>2. run[r] # "none"
      BY <2>3 DEF RecordAbort, RunInv
    <3> QED BY <2>3, <3>1, <3>2, WriteStarted DEF RecordAbort, RunStatus, Terminal
  <2>4. CASE Deliver(r)
    <3>1. PICK l \in PCs \ Underway : pc' = [pc EXCEPT ![r] = l]
      BY <2>4 DEF Deliver, OnCancel
    <3>2. RowsKept
      BY <2>4 DEF Deliver, RowsKept, db
    <3> QED BY <2>0, <3>1, <3>2, MoveStarted
  <2>5. CASE Judge(r) \/ Record(r) \/ Publish(r)
    <3>1. RowsKept
      BY <2>5 DEF Judge, Record, Publish, RowsKept, SetStatus, db
    <3>2. PICK l \in {"record", "finish", "done"} :
             pc' = [pc EXCEPT ![r] = l] /\ (l \in Underway => pc[r] \in Underway)
      BY <2>5 DEF Judge, Record, Publish
    <3> QED BY <2>0, <3>1, <3>2, MoveStarted
  <2> QED BY <1>2, <2>1, <2>2, <2>3, <2>4, <2>5 DEF RunStep
<1>3. ASSUME NEW c \in Callers, NEW r \in Runs, IssueInsert(c, r)
      PROVE  StartedInv' /\ BookStep
  <2>1. caller[c].commit \in Commits \cup {None}
    BY DEF TInv, TypeOK
  <2>2. Book!Enter(r, caller[c].commit)
    BY <1>3 DEF IssueInsert, Book!Enter
  <2>3. StartedInv'
    BY <1>3 DEF IssueInsert, StartedInv, RunInv, TInv, TypeOK, Underway, Body, Critical
  <2> QED BY <2>1, <2>2, <2>3 DEF BookStep, Book!BookNext
<1>4. ASSUME NEW c \in Callers, IssueSpawn(c)
      PROVE  StartedInv' /\ BookStep
  <2>1. caller[c].run \in Tasks /\ RowsKept /\ pc' = [pc EXCEPT ![caller[c].run] = "begin"]
    BY <1>4 DEF IssueSpawn, RowsKept, Go, db, TInv, LocalInv, Tasks
  <2> QED BY <2>1, MoveStarted DEF PCs, Body, Critical, Underway
<1>5. CASE Crash
  <2>1. RowsKept
    BY <1>5 DEF Crash, RowsKept, db
  <2>2. StartedInv'
    BY <1>5 DEF Crash, StartedInv, Tasks, Underway, Body, Critical
  <2> QED BY <2>1, <2>2, KeptInBook
<1>6. CASE RowsKept /\ UNCHANGED pc
  BY <1>6, KeptInBook DEF StartedInv, RowsKept
<1>7. CASE \/ \E c \in Callers, sha \in Commits \cup {None} : IssueCheck(c, sha)
           \/ \E c \in Callers : IssueAborted(c)
           \/ CancelDeploy
           \/ \E r \in Runs : ClearSlot(r)
           \/ \E a \in Actors : WorkerStep(a)
           \/ ProcessExit
           \/ Quiet
           \/ UNCHANGED vars
  <2>1. RowsKept /\ UNCHANGED pc
    BY <1>7 DEF IssueCheck, IssueAborted, CancelDeploy, ClearSlot, WorkerStep, ProcessExit, Quiet, vars,
                db,
                RowsKept
  <2> QED BY <1>6, <2>1
<1>8. ASSUME NEW o \in Calls, CallStep(o) \/ \E k \in CallKinds : CallBegin(o, k)
      PROVE  StartedInv' /\ BookStep
  <2>1. RowsKept /\ UNCHANGED pc
    BY <1>8 DEF CallStep, CallBegin, CallStop, CallPull, CallLaunched, CallWrite, CallDelete,
                RowsKept, SetStatus, db
  <2> QED BY <1>6, <2>1
<1> QED BY <1>1, <1>2, <1>3, <1>4, <1>5, <1>7, <1>8 DEF Next

\* The deployment engine implements the book of runs: for any number of runs,
\* callers, lifecycle calls and faults, its rows change only as RunBook lets
\* them.
THEOREM Implements == Spec => ImplementsRunBook
<1>1. TInv /\ RunInv /\ StartedInv /\ [Next]_vars => (TInv /\ RunInv /\ StartedInv)' /\ BookStep
  BY NextTyped, NextHistory, NextBook
<1>2. Init => TInv /\ RunInv /\ StartedInv /\ Book!BookInit
  BY InitTyped, InitHistory, InitStarted
<1> QED BY <1>1, <1>2, PTL DEF Spec, BookStep, ImplementsRunBook, Book!BookSpec
-----------------------------------------------------------------------------
(* No task is lost *)

\* The fault of this kind does not happen.
Never(k) == MaxFaults[k] = 0

\* While a handler is between its check of the slot and create_task, no run
\* is in flight and no other handler is, unless handlers were let in together.
SlotInv == crowd # "now" =>
    /\ \A r \in Runs : InFlight(r) => slot = r
    /\ \A c \in Callers : caller[c].at # "idle" =>
          /\ \A r \in Runs : ~InFlight(r)
          /\ \A d \in Callers : caller[d].at # "idle" => d = c

LEMMA InitSlot == Init => SlotInv
  BY DEF Init, SlotInv, InFlight, Tasks, Idle

\* A task in flight moves, and slot and callers are left alone.
LEMMA MoveSlot ==
  ASSUME TInv, SlotInv, NEW t \in Tasks, NEW l \in PCs,
         InFlight(t), pc' = [pc EXCEPT ![t] = l], UNCHANGED <<slot, caller, crowd>>
  PROVE  SlotInv'
  BY DEF TInv, TypeOK, SlotInv, InFlight, Tasks

LEMMA NextSlot ==
  ASSUME TInv, SlotInv, [Next]_vars
  PROVE  SlotInv'
<1>1. ASSUME NEW t \in Tasks, JobStep(t)
      PROVE  SlotInv'
  <2>1. PICK l \in Places : JobMove(t, l)
    BY <1>1, JobMoves
  <2> QED BY <2>1, MoveSlot DEF JobMove, Places
<1>2. ASSUME NEW r \in Runs, RunStep(r)
      PROVE  SlotInv'
  <2>0. r \in Tasks /\ pc \in [Tasks -> PCs]
    BY DEF Tasks, TInv, TypeOK
  <2>1. InFlight(r) /\ UNCHANGED <<slot, caller, crowd>>
    BY <1>2 DEF RunStep, Begin, Judge, Record, FinishRun, Publish, RecordAbort, Deliver,
                Scheduled, InFlight, sched
  <2>2. \E l \in PCs : pc' = [pc EXCEPT ![r] = l]
    BY <1>2 DEF RunStep, Begin, Judge, Record, FinishRun, Publish, RecordAbort, Deliver,
                OnCancel, Go, PCs, Body, Except
  <2> QED BY <2>0, <2>1, <2>2, MoveSlot
<1>3. ASSUME NEW c \in Callers, NEW sha \in Commits \cup {None}, IssueCheck(c, sha)
      PROVE  SlotInv'
  <2> SUFFICES ASSUME crowd' # "now" PROVE SlotInv'
    BY DEF SlotInv
  <2>1. ~OthersInside(c) /\ (crowd = "now" => \A r \in Runs : ~InFlight(r))
    BY <1>3 DEF IssueCheck
  <2>2. \A r \in Runs : ~InFlight(r)
    BY <1>3, <2>1 DEF IssueCheck, SlotFree, SlotInv, InFlight
  <2>3. UNCHANGED <<pc, slot>> /\ \A d \in Callers \ {c} : caller'[d] = caller[d]
    BY <1>3 DEF IssueCheck, sched, TInv, TypeOK
  <2> QED BY <2>1, <2>2, <2>3 DEF SlotInv, OthersInside, InFlight
<1>4. ASSUME NEW c \in Callers, NEW r \in Runs, IssueInsert(c, r)
      PROVE  SlotInv'
  BY <1>4 DEF IssueInsert, SlotInv, InFlight, TInv, TypeOK, sched
<1>5. ASSUME NEW c \in Callers, IssueSpawn(c)
      PROVE  SlotInv'
  <2> SUFFICES ASSUME crowd' # "now" PROVE SlotInv'
    BY DEF SlotInv
  <2>1. crowd # "now" /\ caller[c].at # "idle"
    BY <1>5 DEF IssueSpawn
  <2>2. \A r \in Runs : ~InFlight(r)
    BY <2>1 DEF SlotInv
  <2>3. caller'[c].at = "idle" /\ slot' = caller[c].run /\ caller[c].run \in Runs
    BY <1>5 DEF IssueSpawn, Idle, TInv, TypeOK, LocalInv
  <2>4. pc' = [pc EXCEPT ![caller[c].run] = "begin"]
    BY <1>5 DEF IssueSpawn, Go
  <2>5. \A d \in Callers : caller'[d].at = "idle"
    BY <1>5, <2>1, <2>3 DEF IssueSpawn, SlotInv, TInv, TypeOK
  <2> QED BY <2>2, <2>3, <2>4, <2>5 DEF SlotInv, InFlight, TInv, TypeOK, Tasks
<1>6. ASSUME NEW r \in Runs, ClearSlot(r)
      PROVE  SlotInv'
  BY <1>6 DEF ClearSlot, AfterDone, SlotInv, InFlight
<1>7. CASE Crash
  BY <1>7 DEF Crash, SlotInv, InFlight, Idle, Tasks
<1>8. CASE UNCHANGED <<pc, slot, caller, crowd>>
  BY <1>8 DEF SlotInv, InFlight
<1>9. CASE \/ CancelDeploy
           \/ \E a \in Actors : WorkerStep(a)
           \/ ProcessExit
           \/ Quiet
           \/ UNCHANGED vars
  <2>1. UNCHANGED <<pc, slot, caller, crowd>>
    BY <1>9 DEF CancelDeploy, WorkerStep, ProcessExit, Quiet, vars, sched
  <2> QED BY <1>8, <2>1
<1>10. ASSUME NEW o \in Calls, CallStep(o) \/ \E k \in CallKinds : CallBegin(o, k)
       PROVE  SlotInv'
  <2>1. UNCHANGED <<pc, slot, caller, crowd>>
    BY <1>10 DEF CallStep, CallBegin, CallStop, CallPull, CallLaunched, CallWrite,
                 CallDelete, sched
  <2> QED BY <1>8, <2>1
<1>11. ASSUME NEW c \in Callers, IssueAborted(c)
       PROVE  SlotInv'
  BY <1>11 DEF IssueAborted, Idle, SlotInv, InFlight, TInv, TypeOK, sched
<1> QED BY <1>1, <1>2, <1>3, <1>4, <1>5, <1>6, <1>7, <1>9, <1>10, <1>11 DEF Next

\* No cancellation is waiting to be delivered.
CalmInv == \A r \in Runs : ~pending[r]

\* No fault of a kind that is excluded.
LEMMA NeverFaults ==
  ASSUME TypeOK, NEW k \in FaultKinds, Never(k), Fault(k)
  PROVE  FALSE
<1>1. faults[k] \in Nat /\ faults[k] < 0
  BY DEF TypeOK, Never, Fault
<1> QED BY <1>1

LEMMA NextCalm ==
  ASSUME Never("cancel"), TInv, CalmInv, [Next]_vars
  PROVE  CalmInv'
<1> USE DEF CalmInv
<1>0. ~CancelDeploy /\ \A r \in Runs : ~Deliver(r)
  BY NeverFaults DEF TInv, FaultKinds, CancelDeploy, Deliver
<1>1. ASSUME NEW r \in Runs, RunStep(r)
      PROVE  CalmInv'
  BY <1>0, <1>1 DEF RunStep, Begin, Judge, Record, FinishRun, Publish, RecordAbort, sched
<1>2. ASSUME NEW t \in Tasks, JobStep(t)
      PROVE  CalmInv'
  BY <1>2 DEF JobStep, Acquire, ReadProject, MarkDeploying, CheckedOut, Resolve, Launched,
              ApplyProxy, Settle, Raise, sched
<1>3. ASSUME NEW o \in Calls, CallStep(o) \/ \E k \in CallKinds : CallBegin(o, k)
      PROVE  CalmInv'
  BY <1>3 DEF CallStep, CallBegin, CallStop, CallPull, CallLaunched, CallWrite, CallDelete,
              sched
<1>4. CASE \/ \E c \in Callers, sha \in Commits \cup {None} : IssueCheck(c, sha)
           \/ \E c \in Callers, r \in Runs : IssueInsert(c, r)
           \/ \E c \in Callers : IssueSpawn(c) \/ IssueAborted(c)
           \/ \E r \in Runs : ClearSlot(r)
           \/ \E a \in Actors : WorkerStep(a)
           \/ ProcessExit \/ Crash \/ Quiet \/ UNCHANGED vars
  BY <1>4 DEF IssueCheck, IssueInsert, IssueSpawn, IssueAborted, ClearSlot, WorkerStep,
              ProcessExit, Crash, Quiet, vars, sched
<1> QED BY <1>0, <1>1, <1>2, <1>3, <1>4 DEF Next

-----------------------------------------------------------------------------
(* Which fault is to blame *)

\* Faults are counted and never forgotten.
Counted == \A k \in FaultKinds : faults'[k] \in Nat /\ faults[k] <= faults'[k]

LEMMA FaultsGrow ==
  ASSUME TInv, [Next]_vars
  PROVE  Counted
<1>1. faults \in [FaultKinds -> Nat]
  BY DEF TInv, TypeOK
<1>2. ASSUME NEW k \in FaultKinds, Fault(k)
      PROVE  Counted
  BY <1>1, <1>2 DEF Fault, Counted
<1>3. CASE UNCHANGED faults
  BY <1>1, <1>3 DEF Counted
<1>k. {"raise", "cancel", "crash", "exit"} \subseteq FaultKinds
  BY DEF FaultKinds
<1>4. ASSUME NEW t \in Tasks, JobStep(t)
      PROVE  UNCHANGED faults \/ Fault("raise")
  BY <1>4 DEF JobStep, Acquire, ReadProject, MarkDeploying, CheckedOut, Resolve, Launched,
              ApplyProxy, Settle, Raise
<1>5. ASSUME NEW r \in Runs, RunStep(r)
      PROVE  UNCHANGED faults
  BY <1>5 DEF RunStep, Begin, Judge, Record, FinishRun, Publish, RecordAbort, Deliver
<1>6. ASSUME NEW a \in Actors, WorkerStep(a)
      PROVE  UNCHANGED faults \/ Fault("raise")
  BY <1>6 DEF WorkerStep
<1>7. ASSUME NEW o \in Calls, CallStep(o) \/ \E k \in CallKinds : CallBegin(o, k)
      PROVE  UNCHANGED faults
  BY <1>7 DEF CallStep, CallBegin, CallStop, CallPull, CallLaunched, CallWrite, CallDelete
<1>8. CASE \/ \E c \in Callers, sha \in Commits \cup {None} : IssueCheck(c, sha)
           \/ \E c \in Callers, r \in Runs : IssueInsert(c, r)
           \/ \E c \in Callers : IssueSpawn(c)
           \/ \E r \in Runs : ClearSlot(r)
           \/ Quiet \/ UNCHANGED vars
  BY <1>3, <1>8 DEF IssueCheck, IssueInsert, IssueSpawn, ClearSlot, Quiet, vars
<1>9. CASE CancelDeploy \/ ProcessExit \/ Crash \/ \E c \in Callers : IssueAborted(c)
  <2>1. Fault("cancel") \/ Fault("exit") \/ Fault("crash") \/ Fault("raise")
    BY <1>9 DEF CancelDeploy, ProcessExit, Crash, IssueAborted
  <2> QED BY <1>2, <1>k, <2>1
<1> QED BY <1>2, <1>3, <1>k, <1>4, <1>5, <1>6, <1>7, <1>8, <1>9 DEF Next

Blamed(k) == faults[k] > 0

\* What a raised exception and a cancellation leave behind until they are
\* handled.
BlameInv ==
    /\ \A a \in Actors : worker[a] = "raised" => Blamed("raise")
    /\ \A r \in Runs : pending[r] \/ pc[r] = "cancelling" => Blamed("cancel")
    /\ \A r \in Runs : pc[r] = "failing" => Blamed("raise")

\* A fault of this kind happens, or has happened.
LEMMA StaysBlamed ==
  ASSUME TInv, Counted, NEW k \in FaultKinds
  PROVE  /\ Blamed(k) => Blamed(k)'
         /\ Fault(k) => Blamed(k)' /\ (Blamed(k) => faults'[k] > 1)
         /\ faults[k] > 1 => faults'[k] > 1
<1>1. faults \in [FaultKinds -> Nat]
  BY DEF TInv, TypeOK
<1>2. faults[k] \in Nat /\ faults'[k] \in Nat /\ faults[k] <= faults'[k]
  BY <1>1 DEF Counted
<1>3. Fault(k) => faults'[k] = faults[k] + 1
  BY <1>1 DEF Fault
<1> QED BY <1>2, <1>3 DEF Blamed

LEMMA InitBlame == Init => BlameInv
  BY DEF Init, BlameInv, Actors, Tasks

LEMMA NextBlame ==
  ASSUME TInv, BlameInv, [Next]_vars
  PROVE  BlameInv'
<1>t. /\ pc \in [Tasks -> PCs] /\ worker \in [Actors -> WorkerState]
      /\ pending \in [Runs -> BOOLEAN]
      /\ Tasks \subseteq Actors /\ Runs \subseteq Tasks
  BY DEF TInv, TypeOK, Tasks, Actors
<1>b. \A k \in {"raise", "cancel"} : (Blamed(k) => Blamed(k)') /\ (Fault(k) => Blamed(k)')
  BY FaultsGrow, StaysBlamed DEF FaultKinds
<1>1. ASSUME \A a \in Actors : worker'[a] = "raised" => worker[a] = "raised" \/ Fault("raise"),
             \A r \in Runs : pending'[r] => pending[r] \/ Fault("cancel"),
             \A r \in Runs : pc'[r] = "cancelling" => pc[r] = "cancelling" \/ pending[r],
             \A r \in Runs : pc'[r] = "failing" => pc[r] = "failing" \/ Blamed("raise")
                                                   \/ Fault("raise")
      PROVE  BlameInv'
  BY <1>1, <1>b DEF BlameInv
<1>2. ASSUME NEW t \in Tasks, JobStep(t)
      PROVE  BlameInv'
  <2>1. UNCHANGED pending
    BY <1>2 DEF JobStep, Acquire, ReadProject, MarkDeploying, CheckedOut, Resolve, Launched,
                ApplyProxy, Settle, Raise, sched
  <2>2. \A a \in Actors : worker'[a] = "raised" => worker[a] = "raised"
    BY <1>2, <1>t DEF JobStep, Acquire, ReadProject, MarkDeploying, CheckedOut, Resolve,
                      Launched, ApplyProxy, Settle, Raise
  <2>3. \A r \in Runs : pc'[r] = "cancelling" => pc[r] = "cancelling"
    BY <1>2, <1>t DEF JobStep, Acquire, ReadProject, MarkDeploying, CheckedOut, Resolve,
                      Launched, ApplyProxy, Settle, Raise, OnRaise, Leave, Go
  <2>4. CASE Raise(t)
    <3>1. Blamed("raise") \/ Fault("raise")
      BY <1>t, <2>4 DEF Raise, BlameInv
    <3> QED BY <1>1, <2>1, <2>2, <2>3, <3>1
  <2>5. CASE ~Raise(t)
    <3>1. \A r \in Runs : pc'[r] = "failing" => pc[r] = "failing"
      BY <1>2, <1>t, <2>5 DEF JobStep, Acquire, ReadProject, MarkDeploying, CheckedOut, Resolve,
                              Launched, ApplyProxy, Settle, Leave, Go
    <3> QED BY <1>1, <2>1, <2>2, <2>3, <3>1
  <2> QED BY <2>4, <2>5
<1>3. ASSUME NEW r \in Runs, RunStep(r)
      PROVE  BlameInv'
  <2>1. CASE Deliver(r)
    <3>1. PICK l \in {"cancelling", "done"} : pc' = [pc EXCEPT ![r] = l]
      BY <2>1 DEF Deliver, OnCancel, Go
    <3> QED BY <1>1, <1>t, <2>1, <3>1 DEF Deliver
  <2>2. CASE ~Deliver(r)
    <3>1. UNCHANGED <<worker, pending>>
      BY <1>3, <2>2 DEF RunStep, Begin, Judge, Record, FinishRun, Publish, RecordAbort, sched
    <3>2. \E l \in {"acquire", "record", "finish", "publish", "done", "leaving"} :
             pc' = [pc EXCEPT ![r] = l]
      BY <1>3, <2>2 DEF RunStep, Begin, Judge, Record, FinishRun, Publish, RecordAbort, Go
    <3> QED BY <1>1, <1>t, <3>1, <3>2
  <2> QED BY <2>1, <2>2
<1>4. ASSUME NEW c \in Callers, IssueSpawn(c)
      PROVE  BlameInv'
  <2>1. UNCHANGED <<worker, pending>> /\ pc' = [pc EXCEPT ![caller[c].run] = "begin"]
    BY <1>4 DEF IssueSpawn, Go
  <2> QED BY <1>1, <1>t, <2>1
<1>5. ASSUME NEW a \in Actors, WorkerStep(a)
      PROVE  BlameInv'
  <2>1. UNCHANGED <<pc, pending>>
    BY <1>5 DEF WorkerStep, sched
  <2>2. \A b \in Actors : worker'[b] = "raised" => worker[b] = "raised" \/ Fault("raise")
    <3>1. CASE worker[a] = "checkout"
      BY <1>5, <1>t, <3>1 DEF WorkerStep
    <3>2. CASE worker[a] # "checkout"
      BY <1>5, <1>t, <3>2 DEF WorkerStep
    <3> QED BY <3>1, <3>2
  <2> QED BY <1>1, <2>1, <2>2
<1>6. ASSUME NEW o \in Calls, CallStep(o) \/ \E k \in CallKinds : CallBegin(o, k)
      PROVE  BlameInv'
  <2>1. UNCHANGED <<pc, pending>>
    BY <1>6 DEF CallStep, CallBegin, CallStop, CallPull, CallLaunched, CallWrite, CallDelete,
                sched
  <2>2. \A b \in Actors : worker'[b] = "raised" => worker[b] = "raised"
    BY <1>6, <1>t DEF CallStep, CallBegin, CallStop, CallPull, CallLaunched, CallWrite,
                      CallDelete, Actors
  <2> QED BY <1>1, <2>1, <2>2
<1>7. CASE CancelDeploy
  BY <1>1, <1>7, <1>t DEF CancelDeploy
<1>8. CASE Crash
  BY <1>8 DEF Crash, BlameInv, Actors, Tasks
<1>9. CASE \/ \E c \in Callers, sha \in Commits \cup {None} : IssueCheck(c, sha)
           \/ \E c \in Callers, r \in Runs : IssueInsert(c, r)
           \/ \E c \in Callers : IssueAborted(c)
           \/ \E r \in Runs : ClearSlot(r)
           \/ ProcessExit \/ Quiet \/ UNCHANGED vars
  <2>1. UNCHANGED <<pc, worker, pending>>
    BY <1>9 DEF IssueCheck, IssueInsert, IssueAborted, ClearSlot, ProcessExit, Quiet, vars, sched
  <2> QED BY <1>1, <2>1
<1> QED BY <1>2, <1>3, <1>4, <1>5, <1>6, <1>7, <1>8, <1>9 DEF Next

-----------------------------------------------------------------------------
(* Open rows *)

\* A row tells where the task of its run is: not yet created, at work, or past
\* the write of the outcome; or a fault has left it.
OpenInv ==
    /\ \A r \in Runs : pc[r] = "idle" /\ run[r] # "none" =>
          RowsMayBeLeft \/ \E c \in Callers : caller[c].at = "spawn" /\ caller[c].run = r
    /\ \A r \in Runs : pc[r] \in {"publish", "leaving"} => run[r] \in Terminal
    /\ \A r \in Runs : pc[r] = "done" => run[r] \in Terminal \/ RowsMayBeLeft

LEMMA InitOpen == Init => CalmInv /\ OpenInv
  BY DEF Init, CalmInv, OpenInv, Tasks

\* Rows that may have been left may have been left ever since; a cancellation
\* or a restart leaves some, and so does a second exception.
LEMMA StaysLeft ==
  ASSUME TInv, Counted
  PROVE  /\ RowsMayBeLeft => RowsMayBeLeft'
         /\ Fault("cancel") \/ Fault("crash") \/ Blamed("cancel") => RowsMayBeLeft'
         /\ Fault("raise") /\ Blamed("raise") => RowsMayBeLeft'
<1>1. \A k \in {"cancel", "crash", "raise"} :
         /\ faults[k] \in Nat /\ faults'[k] \in Nat
         /\ faults[k] <= faults'[k]
         /\ Fault(k) => faults'[k] = faults[k] + 1
  BY DEF TInv, TypeOK, Counted, FaultKinds, Fault
<1> QED BY <1>1 DEF RowsMayBeLeft, Blamed

LEMMA MoveOpen ==
  ASSUME TInv, OpenInv, Counted, NEW r \in Runs, NEW l \in PCs \ {"idle"},
         pc' = [pc EXCEPT ![r] = l], UNCHANGED <<run, caller>>,
         l \in {"publish", "leaving"} => run[r] \in Terminal,
         l = "done" => run[r] \in Terminal \/ RowsMayBeLeft'
  PROVE  OpenInv'
<1>1. RowsMayBeLeft => RowsMayBeLeft'
  BY StaysLeft
<1> QED BY <1>1 DEF OpenInv, TInv, TypeOK, Tasks

LEMMA NextOpen ==
  ASSUME TInv, RunInv, BlameInv, OpenInv, [Next]_vars
  PROVE  OpenInv'
<1>c. Counted
  BY FaultsGrow
<1>l. RowsMayBeLeft => RowsMayBeLeft'
  BY <1>c, StaysLeft
<1>t. pc \in [Tasks -> PCs] /\ run \in [Runs -> RunStatus] /\ Runs \subseteq Tasks
  BY DEF TInv, TypeOK, Tasks
<1>1. ASSUME NEW t \in Tasks, JobStep(t)
      PROVE  OpenInv'
  <2>0. UNCHANGED <<run, caller>>
    BY <1>1 DEF JobStep, Acquire, ReadProject, MarkDeploying, CheckedOut, Resolve, Launched,
                ApplyProxy, Settle, Raise, db, sched
  <2>1. CASE t \notin Runs
    <3>1. \A r \in Runs : pc'[r] = pc[r]
      BY <1>1, <1>t, <2>1 DEF JobStep, Acquire, ReadProject, MarkDeploying, CheckedOut, Resolve,
                Launched, ApplyProxy, Settle, Raise, Leave, Go
    <3> QED BY <1>l, <2>0, <3>1 DEF OpenInv
  <2>2. CASE t \in Runs /\ ~Raise(t)
    <3>1. \E l \in PCs \ {"idle", "publish", "leaving", "done"} : pc' = [pc EXCEPT ![t] = l]
      BY <1>1, <2>2 DEF JobStep, Acquire, ReadProject, MarkDeploying, CheckedOut, Resolve,
                Launched, ApplyProxy, Settle, Leave, Go, Tasks, PCs, Body, Critical, Except
    <3> QED BY <1>c, <2>0, <2>2, <3>1, MoveOpen
  <2>3. CASE t \in Runs /\ Raise(t)
    <3>1. CASE pc[t] \in Except
      <4>1. Fault("raise") /\ (Blamed("raise") \/ Blamed("cancel"))
        BY <2>3, <3>1 DEF Raise, Except, BlameInv, Body, Critical
      <4>2. RowsMayBeLeft'
        BY <1>c, <4>1, StaysLeft
      <4>3. pc' = [pc EXCEPT ![t] = "done"] /\ "done" \in PCs \ {"idle"}
        BY <2>3, <3>1 DEF Raise, OnRaise, Go, PCs
      <4> QED BY <1>c, <2>0, <2>3, <4>2, <4>3, MoveOpen
    <3>2. CASE pc[t] \notin Except
      <4>1. pc' = [pc EXCEPT ![t] = "failing"] /\ "failing" \in PCs \ {"idle"}
        BY <2>3, <3>2 DEF Raise, OnRaise, Go, PCs, Except
      <4> QED BY <1>c, <2>0, <2>3, <4>1, MoveOpen
    <3> QED BY <3>1, <3>2
  <2> QED BY <2>1, <2>2, <2>3
<1>2. ASSUME NEW r \in Runs, RunStep(r)
      PROVE  OpenInv'
  <2> USE DEF Go, Scheduled, PCs, Body, Except
  <2>1. CASE Begin(r)
    BY <1>l, <1>t, <2>1 DEF Begin, OpenInv
  <2>2. CASE Judge(r) \/ Record(r)
    <3>1. UNCHANGED <<run, caller>>
      BY <2>2 DEF Judge, Record, db, sched
    <3>2. \E l \in {"record", "finish"} : pc' = [pc EXCEPT ![r] = l]
      BY <2>2 DEF Judge, Record
    <3> QED BY <1>c, <3>1, <3>2, MoveOpen
  <2>3. CASE FinishRun(r)
    <3>1. verdict[r] \in Terminal
      BY <2>3 DEF FinishRun, TInv, LocalInv, Terminal
    <3> QED BY <1>l, <1>t, <2>3, <3>1 DEF FinishRun, OpenInv
  <2>4. CASE Publish(r)
    <3>1. run[r] \in Terminal /\ UNCHANGED <<run, caller>> /\ pc' = [pc EXCEPT ![r] = "done"]
      BY <2>4 DEF Publish, OpenInv, db
    <3> QED BY <1>c, <3>1, MoveOpen
  <2>5. CASE RecordAbort(r)
    <3>1. \E s \in {"cancelled", "failed"} : run' = [run EXCEPT ![r] = s]
      BY <2>5 DEF RecordAbort
    <3> QED BY <1>l, <1>t, <2>5, <3>1 DEF RecordAbort, OpenInv, Terminal
  <2>6. CASE Deliver(r)
    <3>1. PICK l \in {"cancelling", "done"} : pc' = [pc EXCEPT ![r] = l]
      BY <2>6 DEF Deliver, OnCancel
    <3>2. RowsMayBeLeft'
      BY <1>c, <2>6, StaysLeft DEF Deliver, BlameInv
    <3> QED BY <1>c, <2>6, <3>1, <3>2, MoveOpen DEF Deliver, db
  <2> QED BY <1>2, <2>1, <2>2, <2>3, <2>4, <2>5, <2>6 DEF RunStep
<1>3. ASSUME NEW c \in Callers, NEW r \in Runs, IssueInsert(c, r)
      PROVE  OpenInv'
  BY <1>3, <1>l DEF IssueInsert, OpenInv, RunInv, TInv, TypeOK, Tasks, sched
<1>4. ASSUME NEW c \in Callers, IssueSpawn(c)
      PROVE  OpenInv'
  BY <1>4, <1>l DEF IssueSpawn, OpenInv, Go, TInv, TypeOK, LocalInv, Tasks, db
<1>5. ASSUME NEW c \in Callers, NEW sha \in Commits \cup {None}, IssueCheck(c, sha)
      PROVE  OpenInv'
  BY <1>5, <1>l DEF IssueCheck, OpenInv, TInv, TypeOK, db, sched
<1>6. ASSUME NEW c \in Callers, IssueAborted(c)
      PROVE  OpenInv'
  <2>0. UNCHANGED <<run, pc>> /\ caller' = [caller EXCEPT ![c] = Idle]
    BY <1>6 DEF IssueAborted, db
  <2>1. CASE caller[c].at # "spawn"
    BY <1>l, <2>0, <2>1 DEF OpenInv, Idle, TInv, TypeOK
  <2>2. CASE caller[c].at = "spawn"
    <3>1. RowsMayBeLeft'
      BY <1>6, <1>c, <2>2, StaysLeft DEF IssueAborted
    <3> QED BY <2>0, <3>1 DEF OpenInv
  <2> QED BY <2>1, <2>2
<1>7. CASE Crash
  <2>1. RowsMayBeLeft'
    BY <1>7, <1>c, StaysLeft DEF Crash
  <2>2. \A r \in Runs : pc'[r] \in {"idle", "done"}
    BY <1>7, <1>t DEF Crash
  <2> QED BY <2>1, <2>2 DEF OpenInv
<1>8. CASE \/ CancelDeploy
           \/ \E r \in Runs : ClearSlot(r)
           \/ \E a \in Actors : WorkerStep(a)
           \/ ProcessExit
           \/ Quiet
           \/ UNCHANGED vars
  <2>1. UNCHANGED <<run, pc, caller>>
    BY <1>8 DEF CancelDeploy, ClearSlot, WorkerStep, ProcessExit, Quiet, vars, db, sched
  <2> QED BY <1>l, <2>1 DEF OpenInv
<1>9. ASSUME NEW o \in Calls, CallStep(o) \/ \E k \in CallKinds : CallBegin(o, k)
      PROVE  OpenInv'
  <2>1. UNCHANGED <<run, pc, caller>>
    BY <1>9 DEF CallStep, CallBegin, CallStop, CallPull, CallLaunched, CallWrite,
                CallDelete, db, sched
  <2> QED BY <1>l, <2>1 DEF OpenInv
<1> QED BY <1>1, <1>2, <1>3, <1>4, <1>5, <1>6, <1>7, <1>8, <1>9 DEF Next

LEMMA OpenTracked ==
  ASSUME TInv, RunInv, OpenInv
  PROVE  OpenRunHasTask
  BY DEF OpenRunHasTask, OpenInv, InFlight, TInv, TypeOK, Tasks, Terminal

-----------------------------------------------------------------------------
(* The status "deploying" *)

\* While nothing has cut a deploy short, the status "deploying" belongs to a
\* task that holds the lock and will write another one before it leaves.
Marked == Critical \ {"read", "mark"}

Unhurt == \A k \in {"raise", "cancel", "crash"} : faults[k] = 0

DeployingInv ==
    /\ \A t \in Tasks : pc[t] = "proxy" => status # "deploying"
    /\ status = "deploying" /\ Unhurt => \E t \in Tasks : pc[t] \in Marked

LEMMA InitDeploying == Init => DeployingInv
  BY DEF Init, DeployingInv, Tasks

\* Nothing that has cut a deploy short is forgotten.
LEMMA StaysHurt ==
  ASSUME TInv, Counted
  PROVE  /\ Unhurt' => Unhurt
         /\ \A k \in {"raise", "cancel", "crash"} : Fault(k) \/ Blamed(k) => ~Unhurt'
<1>1. \A k \in {"cancel", "crash", "raise"} :
         /\ faults[k] \in Nat /\ faults'[k] \in Nat
         /\ faults[k] <= faults'[k]
         /\ Fault(k) => faults'[k] = faults[k] + 1
  BY DEF TInv, TypeOK, Counted, FaultKinds, Fault
<1> QED BY <1>1 DEF Unhurt, Blamed

\* A task that is not about to leave the lock moves, and the status does not
\* become "deploying".
LEMMA MoveDeploying ==
  ASSUME TInv, DeployingInv, Counted, NEW t \in Tasks, NEW l \in PCs,
         pc' = [pc EXCEPT ![t] = l],
         status' = "deploying" => status = "deploying",
         l # "proxy" \/ status' # "deploying",
         pc[t] \in Marked /\ status' = "deploying" => l \in Marked \/ ~Unhurt'
  PROVE  DeployingInv'
<1>1. ASSUME status' = "deploying", Unhurt'
      PROVE  \E s \in Tasks : pc'[s] \in Marked
  <2>1. PICK s \in Tasks : pc[s] \in Marked
    BY <1>1, StaysHurt DEF DeployingInv
  <2> QED BY <1>1, <2>1 DEF TInv, TypeOK
<1> QED BY <1>1 DEF DeployingInv, TInv, TypeOK

LEMMA NextDeploying ==
  ASSUME TInv, LockInv, RunInv, BlameInv, DeployingInv, [Next]_vars
  PROVE  DeployingInv'
<1> USE DEF Marked, Critical
<1>c. Counted
  BY FaultsGrow
<1>h. /\ Unhurt' => Unhurt
      /\ \A k \in {"raise", "cancel", "crash"} : Fault(k) \/ Blamed(k) => ~Unhurt'
  BY <1>c, StaysHurt
<1>1. ASSUME NEW t \in Tasks, JobStep(t)
      PROVE  DeployingInv'
  <2> USE DEF Go, Scheduled, Leave, PCs, Body, Except, db, machine
  <2>t. pc \in [Tasks -> PCs] /\ worker \in [Actors -> WorkerState] /\ t \in Actors
    BY DEF TInv, TypeOK, Actors
  <2>1. CASE Acquire(t)
    BY <2>1, <1>c, MoveDeploying, <2>t DEF Acquire
  <2>2. CASE ReadProject(t)
    BY <2>2, <1>c, MoveDeploying, <2>t DEF ReadProject
  <2>3. CASE MarkDeploying(t)
    <3>1. \A s \in Tasks \ {t} : pc[s] # "proxy"
      BY <2>3 DEF MarkDeploying, LockInv
    <3>2. PICK l \in Marked \ {"proxy"} : pc' = [pc EXCEPT ![t] = l]
      BY <2>3 DEF MarkDeploying
    <3> QED BY <3>1, <3>2, <2>t DEF DeployingInv
  <2>4. CASE CheckedOut(t)
    BY <2>4, <1>c, MoveDeploying, <2>t DEF CheckedOut
  <2>5. CASE Resolve(t)
    BY <2>5, <1>c, MoveDeploying, <2>t DEF Resolve
  <2>6. CASE Launched(t)
    BY <2>6, <1>c, MoveDeploying, <2>t DEF Launched, SetStatus, LaunchStatus
  <2>7. CASE ApplyProxy(t)
    BY <2>7, <1>c, MoveDeploying, <2>t DEF ApplyProxy, DeployingInv
  <2>8. CASE Settle(t)
    <3>1. status' # "deploying"
      BY <2>8 DEF Settle, SetStatus, TInv, LocalInv
    <3> QED BY <2>8, <3>1, <1>c, MoveDeploying, <2>t DEF Settle
  <2>9. CASE Raise(t)
    <3>1. ~Unhurt'
      BY <2>9, <1>h, <2>t DEF Raise, BlameInv
    <3>2. UNCHANGED status /\ \E l \in {"done", "failing"} : pc' = [pc EXCEPT ![t] = l]
      BY <2>9 DEF Raise, OnRaise
    <3> QED BY <3>1, <3>2, <2>t DEF DeployingInv
  <2> QED BY <1>1, <2>1, <2>2, <2>3, <2>4, <2>5, <2>6, <2>7, <2>8, <2>9 DEF JobStep
<1>2. ASSUME NEW r \in Runs, RunStep(r)
      PROVE  DeployingInv'
  <2> USE DEF Go, Scheduled, PCs, Body, Except
  <2>0. r \in Tasks /\ pc \in [Tasks -> PCs]
    BY DEF Tasks, TInv, TypeOK
  <2>1. CASE Deliver(r)
    <3>1. PICK l \in {"cancelling", "done"} : pc' = [pc EXCEPT ![r] = l]
      BY <2>1 DEF Deliver, OnCancel
    <3>2. ~Unhurt' /\ UNCHANGED status
      BY <1>h, <2>1 DEF Deliver, BlameInv, db
    <3> QED BY <2>0, <3>1, <3>2 DEF DeployingInv
  <2>2. CASE ~Deliver(r)
    <3>1. status' = "deploying" => status = "deploying"
      BY <1>2, <2>2 DEF RunStep, Begin, Judge, Record, FinishRun, Publish, RecordAbort,
                        SetStatus, db
    <3>2. PICK l \in {"acquire", "record", "finish", "publish", "done", "leaving"} :
             pc' = [pc EXCEPT ![r] = l] /\ pc[r] \notin Marked
      BY <1>2, <2>2 DEF RunStep, Begin, Judge, Record, FinishRun, Publish, RecordAbort
    <3> QED BY <1>c, <2>0, <3>1, <3>2, MoveDeploying
  <2> QED BY <2>1, <2>2
<1>3. ASSUME NEW c \in Callers, IssueSpawn(c)
      PROVE  DeployingInv'
  <2>1. PICK r \in Tasks : r = caller[c].run
    BY <1>3 DEF IssueSpawn, TInv, LocalInv, Tasks
  <2>2. UNCHANGED status /\ pc' = [pc EXCEPT ![r] = "begin"]
    BY <1>3, <2>1 DEF IssueSpawn, Go, db
  <2>3. pc[r] = "idle" /\ "begin" \in PCs
    BY <1>3, <2>1 DEF IssueSpawn, RunInv, PCs
  <2>4. status' = "deploying" => status = "deploying"
    BY <2>2
  <2> QED BY <1>c, <2>2, <2>3, <2>4, MoveDeploying
<1>4. ASSUME UNCHANGED pc, status' = "deploying" => status = "deploying"
      PROVE  DeployingInv'
  BY <1>4, <1>h DEF DeployingInv
<1>5. ASSUME NEW o \in Calls, CallStep(o) \/ \E k \in CallKinds : CallBegin(o, k)
      PROVE  DeployingInv'
  <2>1. UNCHANGED pc
    BY <1>5 DEF CallStep, CallBegin, CallStop, CallPull, CallLaunched, CallWrite, CallDelete
  <2>2. status' = "deploying" => status = "deploying"
    BY <1>5 DEF CallStep, CallBegin, CallStop, CallPull, CallLaunched, CallWrite, CallDelete,
                SetStatus, TInv, TypeOK, db
  <2> QED BY <1>4, <2>1, <2>2
<1>6. CASE Crash
  <2>1. ~Unhurt' /\ \A t \in Tasks : pc'[t] \in {"idle", "done"}
    BY <1>6, <1>h DEF Crash
  <2> QED BY <2>1 DEF DeployingInv
<1>7. CASE \/ \E c \in Callers, sha \in Commits \cup {None} : IssueCheck(c, sha)
           \/ \E c \in Callers : IssueAborted(c)
           \/ \E c \in Callers, r \in Runs : IssueInsert(c, r)
           \/ CancelDeploy \/ \E r \in Runs : ClearSlot(r)
           \/ \E a \in Actors : WorkerStep(a)
           \/ ProcessExit \/ Quiet \/ UNCHANGED vars
  <2>1. UNCHANGED <<status, pc>>
    BY <1>7 DEF IssueCheck, IssueAborted, IssueInsert, CancelDeploy, ClearSlot, WorkerStep,
                ProcessExit, Quiet, vars, db
  <2> QED BY <1>4, <2>1
<1> QED BY <1>1, <1>2, <1>3, <1>5, <1>6, <1>7 DEF Next

\* The slot of a project holds the task that is under way, whatever is
\* cancelled, raised or restarted and whoever calls: a second deploy is then
\* refused and a cancellation reaches the first.  The exception is the one of
\* the code, handlers of issue_deploy that are let in together because the
\* slot is tested before an await and taken after it, and it ends with the
\* deploys of these handlers.
THEOREM SlotKept == Spec => []SlotHoldsTask
<1>1. Spec => [](TInv /\ SlotInv)
  BY InitTyped, NextTyped, InitSlot, NextSlot, PTL DEF Spec
<1>2. SlotInv => SlotHoldsTask
  BY DEF SlotInv, SlotHoldsTask
<1> QED BY <1>1, <1>2, PTL

\* No task is lost, for any callers and faults: every task under way is in the
\* slot, every run that is still open has a task that will close it, and the
\* status "deploying" has one that will replace it, with the exceptions that
\* TasksTracked names (handlers let in together; a cancellation, a restart or
\* a second exception that leaves a row; a deploy that was cut short), through
\* exits of the service and the unlocked lifecycle handlers.
THEOREM TasksKept == Spec => []TasksTracked
<1> DEFINE IInv == TInv /\ LockInv /\ RunInv /\ SlotInv /\ BlameInv /\ OpenInv /\ DeployingInv
<1>1. Init => IInv
  BY InitTyped, InitLocked, InitHistory, InitSlot, InitBlame, InitOpen, InitDeploying
<1>2. IInv /\ [Next]_vars => IInv'
  BY NextTyped, NextLocked, NextHistory, NextSlot, NextBlame, NextOpen, NextDeploying
<1>3. IInv => TasksTracked
  BY OpenTracked DEF TasksTracked, SlotInv, SlotHoldsTask, DeployingInv, Marked, Unhurt,
                     DeployingHasTask
<1> QED BY <1>1, <1>2, <1>3, PTL DEF Spec
-----------------------------------------------------------------------------
(* The engine as its callers see it *)

SlotStep == [Engine!SlotNext]_(Engine!slotVars)

Inside == {c \in Callers : caller[c].at # "idle"}
Going  == {<<r, commit[r]>> : r \in InProgress}
Newest == IF slot \in InProgress THEN slot ELSE None

LEMMA InitSlotStep == Init => Engine!SlotInit
<1>1. Init => InProgress = {} /\ \A c \in Callers : caller[c].at = "idle"
  BY DEF Init, InProgress, InFlight, Tasks, Idle
<1> QED BY <1>1 DEF Init, Engine!SlotInit

\* What leaves the runs in flight, their commits, the slot, the callers and the
\* row alone is not seen.
LEMMA SlotStutters ==
  ASSUME InProgress' = InProgress, \A r \in InProgress : commit'[r] = commit[r],
         Newest' = Newest, Inside' = Inside, UNCHANGED <<deployed, crowd>>
  PROVE  SlotStep
<1>1. Going' = Going
  BY DEF Going
<1> QED BY <1>1 DEF SlotStep, Engine!slotVars, Going, Newest, Inside

\* A run in flight goes on or comes to its end.
LEMMA SlotMove ==
  ASSUME TypeOK, NEW t \in Tasks, NEW l \in Places, InFlight(t),
         pc' = [pc EXCEPT ![t] = l], UNCHANGED <<commit, deployed, slot, caller, crowd>>
  PROVE  SlotStep
<1>1. pc \in [Tasks -> PCs] /\ Runs \subseteq Tasks
  BY DEF TypeOK, Tasks
<1>0. Inside' = Inside
  BY DEF Inside
<1>2. CASE t \notin Runs \/ l # "done"
  <2>1. InProgress' = InProgress
    BY <1>1, <1>2 DEF InProgress, InFlight, Places
  <2> QED BY <1>0, <2>1, SlotStutters DEF Newest
<1>3. CASE t \in Runs /\ l = "done"
  <2>1. InProgress' = InProgress \ {t} /\ t \in InProgress
    BY <1>1, <1>3 DEF InProgress, InFlight
  <2>2. PICK g \in Going : g[1] = t /\ Going' = Going \ {g}
    <3>1. <<t, commit[t]>> \in Going /\ Going' = Going \ {<<t, commit[t]>>}
      BY <2>1 DEF Going
    <3> QED BY <3>1
  <2>3. Newest' = IF Newest = t THEN None ELSE Newest
    BY <1>3, <2>1 DEF Newest, InProgress
  <2>4. Engine!EndDeploy(g)
    BY <1>0, <2>2, <2>3 DEF Engine!EndDeploy, Going, Newest, Inside
  <2> QED BY <2>2, <2>4 DEF SlotStep, Engine!SlotNext, Going
<1> QED BY <1>2, <1>3

LEMMA NextSlotStep ==
  ASSUME TInv, RunInv, [Next]_vars
  PROVE  SlotStep
<1>t. /\ pc \in [Tasks -> PCs] /\ Runs \subseteq Tasks /\ TypeOK /\ None \notin Runs
      /\ commit \in [Runs -> Commits \cup {None}]
      /\ caller \in [Callers -> [at: {"idle", "insert", "spawn"},
                                 run: Runs \cup {None}, commit: Commits \cup {None}]]
  BY DEF TInv, TypeOK, Tasks
<1>1. ASSUME NEW t \in Tasks, JobStep(t)
      PROVE  SlotStep
  <2>1. PICK l \in Places : JobMove(t, l)
    BY <1>1, JobMoves
  <2>2. UNCHANGED <<commit, deployed>>
    BY <1>1 DEF JobStep, Acquire, ReadProject, MarkDeploying, CheckedOut, Resolve, Launched,
                ApplyProxy, Settle, Raise, db
  <2> QED BY <1>t, <2>1, <2>2, SlotMove DEF JobMove
<1>2. ASSUME NEW r \in Runs, RunStep(r)
      PROVE  SlotStep
  <2>1. InFlight(r) /\ UNCHANGED <<slot, caller, crowd>>
    BY <1>2 DEF RunStep, Begin, Judge, Record, FinishRun, Publish, RecordAbort, Deliver,
                Scheduled, InFlight, sched
  <2>2. CASE Record(r)
    <3>1. InProgress' = InProgress
      BY <1>t, <2>2 DEF Record, Go, InProgress, InFlight, Scheduled
    <3>2. UNCHANGED commit
      BY <2>2 DEF Record
    <3>3. Newest' = Newest /\ Inside' = Inside /\ Going' = Going
      BY <2>1, <3>1, <3>2 DEF Newest, Inside, Going
    <3>4. CASE UNCHANGED deployed
      BY <2>1, <3>1, <3>2, <3>3, <3>4, SlotStutters
    <3>5. CASE ~UNCHANGED deployed
      <4>1. commit[r] # None /\ deployed' = commit[r]
        BY <2>2, <3>5 DEF Record
      <4>2. <<r, commit[r]>> \in Going
        BY <2>1 DEF Going, InProgress
      <4>3. Engine!Land(<<r, commit[r]>>)
        BY <2>1, <3>3, <4>1, <4>2 DEF Engine!Land, Going, Newest, Inside
      <4> QED BY <4>2, <4>3 DEF SlotStep, Engine!SlotNext, Going
    <3> QED BY <3>4, <3>5
  <2>3. CASE ~Record(r)
    <3>1. UNCHANGED <<commit, deployed>>
      BY <1>2, <2>3 DEF RunStep, Begin, Judge, FinishRun, Publish, RecordAbort, Deliver, db
    <3>2. \E l \in Places : pc' = [pc EXCEPT ![r] = l]
      BY <1>2, <2>3 DEF RunStep, Begin, Judge, FinishRun, Publish, RecordAbort, Deliver, Go,
                        OnCancel, Places, PCs, Body, Except
    <3> QED BY <1>t, <2>1, <3>1, <3>2, SlotMove
  <2> QED BY <2>2, <2>3
<1>3. ASSUME NEW c \in Callers, NEW r \in Runs, IssueInsert(c, r)
      PROVE  SlotStep
  <2>1. UNCHANGED <<pc, slot, deployed, crowd>>
    BY <1>3 DEF IssueInsert, sched
  <2>2. InProgress' = InProgress /\ r \notin InProgress
    BY <1>3, <2>1 DEF IssueInsert, InProgress, InFlight, RunInv
  <2>3. \A s \in InProgress : commit'[s] = commit[s]
    BY <1>3, <1>t, <2>2 DEF IssueInsert, InProgress
  <2>4. Newest' = Newest
    BY <2>1, <2>2 DEF Newest
  <2>5. Inside' = Inside
    BY <1>3, <1>t DEF IssueInsert, Inside
  <2> QED BY <2>1, <2>2, <2>3, <2>4, <2>5, SlotStutters
<1>4. ASSUME NEW c \in Callers, IssueSpawn(c)
      PROVE  SlotStep
  <2>1. PICK r \in Runs : r = caller[c].run
    BY <1>4 DEF IssueSpawn, TInv, LocalInv
  <2>2. pc[r] = "idle" /\ pc' = [pc EXCEPT ![r] = "begin"]
    BY <1>4, <2>1 DEF IssueSpawn, Go, RunInv
  <2>3. UNCHANGED <<commit, deployed, crowd>> /\ slot' = r
    BY <1>4, <2>1 DEF IssueSpawn, db
  <2>4. InProgress' = InProgress \cup {r} /\ r \notin InProgress
    BY <1>t, <2>2 DEF InProgress, InFlight
  <2>5. Going' = Going \cup {<<r, commit[r]>>} /\ \A g \in Going : g[1] # r
    BY <2>3, <2>4 DEF Going
  <2>6. Newest' = r
    BY <2>3, <2>4 DEF Newest
  <2>7. c \in Inside /\ Inside' = Inside \ {c}
    BY <1>4, <1>t DEF IssueSpawn, Inside, Idle
  <2>8. PICK sha \in Commits \cup {None} : sha = commit[r]
    BY <1>t
  <2>9. Engine!BeginDeploy(c, r, sha)
    BY <2>3, <2>5, <2>6, <2>7, <2>8 DEF Engine!BeginDeploy, Going, Newest, Inside
  <2> QED BY <2>9 DEF SlotStep, Engine!SlotNext
<1>5. ASSUME NEW c \in Callers, NEW sha \in Commits \cup {None}, IssueCheck(c, sha)
      PROVE  SlotStep
  <2>1. UNCHANGED <<pc, slot, commit, deployed>>
    BY <1>5 DEF IssueCheck, db, sched
  <2>2. InProgress' = InProgress /\ Going' = Going
    BY <2>1 DEF InProgress, InFlight, Going
  <2>3. Newest = None /\ Newest' = None
    BY <1>5, <2>1, <2>2, <1>t DEF IssueCheck, SlotFree, Newest, InProgress, InFlight
  <2>4. c \notin Inside /\ Inside' = Inside \cup {c}
    BY <1>5, <1>t DEF IssueCheck, Inside
  <2>5. OthersInside(c) <=> Inside # {}
    BY <2>4 DEF OthersInside, Inside
  <2>6. (\E r \in Runs : InFlight(r)) <=> Going # {}
    <3>1. (\E r \in Runs : InFlight(r)) <=> InProgress # {}
      BY DEF InProgress
    <3>2. InProgress # {} => Going # {}
      <4>1. \A r \in InProgress : <<r, commit[r]>> \in Going
        BY DEF Going
      <4> QED BY <4>1
    <3>3. Going # {} => InProgress # {}
      <4>1. InProgress = {} => Going = {}
        BY DEF Going
      <4> QED BY <4>1
    <3> QED BY <3>1, <3>2, <3>3
  <2>7. (crowd = "now")' = (Inside # {} \/ (crowd = "now" /\ Going # {}))
    BY <1>5, <2>5, <2>6 DEF IssueCheck
  <2>8. Engine!LetIn(c)
    BY <2>1, <2>2, <2>3, <2>4, <2>7 DEF Engine!LetIn, Going, Newest, Inside
  <2> QED BY <2>8 DEF SlotStep, Engine!SlotNext
<1>6. ASSUME NEW c \in Callers, IssueAborted(c)
      PROVE  SlotStep
  <2>1. UNCHANGED <<pc, slot, commit, deployed, crowd>>
    BY <1>6 DEF IssueAborted, db, sched
  <2>2. InProgress' = InProgress /\ Going' = Going
    BY <2>1 DEF InProgress, InFlight, Going
  <2>3. Newest' = Newest
    BY <2>1, <2>2 DEF Newest
  <2>4. c \in Inside /\ Inside' = Inside \ {c}
    BY <1>6, <1>t DEF IssueAborted, Inside, Idle
  <2>5. Engine!GiveUp(c)
    BY <2>1, <2>2, <2>3, <2>4 DEF Engine!GiveUp, Going, Newest, Inside
  <2> QED BY <2>5 DEF SlotStep, Engine!SlotNext
<1>7. CASE Crash
  <2>1. InProgress' = {}
    BY <1>7, <1>t DEF Crash, InFlight, InProgress
  <2>2. Going' = {} /\ Newest' = None
    BY <2>1 DEF Going, Newest
  <2>3. Inside' = {} /\ crowd' # "now" /\ UNCHANGED deployed
    BY <1>7 DEF Crash, Inside, Idle, db
  <2>4. Engine!Halt
    BY <2>2, <2>3 DEF Engine!Halt, Going, Newest, Inside
  <2> QED BY <2>4 DEF SlotStep, Engine!SlotNext
<1>8. CASE UNCHANGED <<pc, slot, commit, deployed, caller, crowd>>
  <2>1. InProgress' = InProgress /\ Inside' = Inside
    BY <1>8 DEF InProgress, InFlight, Inside
  <2>2. Newest' = Newest
    BY <1>8, <2>1 DEF Newest
  <2> QED BY <1>8, <2>1, <2>2, SlotStutters
<1>9. ASSUME NEW r \in Runs, ClearSlot(r)
      PROVE  SlotStep
  <2>1. UNCHANGED <<pc, commit, deployed, caller, crowd>> /\ slot = r /\ slot' = None
    BY <1>9 DEF ClearSlot, AfterDone, db
  <2>2. InProgress' = InProgress /\ Inside' = Inside /\ r \notin InProgress
    BY <1>9, <2>1 DEF InProgress, InFlight, Inside, ClearSlot
  <2>3. Newest' = Newest
    BY <1>t, <2>1, <2>2 DEF Newest, InProgress
  <2> QED BY <2>1, <2>2, <2>3, SlotStutters
<1>10. CASE \/ CancelDeploy
            \/ \E a \in Actors : WorkerStep(a)
            \/ ProcessExit \/ Quiet \/ UNCHANGED vars
  <2>1. UNCHANGED <<pc, slot, commit, deployed, caller, crowd>>
    BY <1>10 DEF CancelDeploy, WorkerStep, ProcessExit, Quiet, vars, db, sched
  <2> QED BY <1>8, <2>1
<1>11. ASSUME NEW o \in Calls, CallStep(o) \/ \E k \in CallKinds : CallBegin(o, k)
       PROVE  SlotStep
  <2>1. UNCHANGED <<pc, slot, commit, deployed, caller, crowd>>
    BY <1>11 DEF CallStep, CallBegin, CallStop, CallPull, CallLaunched, CallWrite, CallDelete,
                 db, sched
  <2> QED BY <1>8, <2>1
<1> QED BY <1>1, <1>2, <1>3, <1>4, <1>5, <1>6, <1>7, <1>9, <1>10, <1>11 DEF Next

\* The engine implements the slot that the branch check and the releases are
\* modelled with, for any number of callers that race and under any
\* cancellations, exceptions, exits, restarts and lifecycle calls: nobody is
\* let in while the deploy that was begun last goes on, and
\* last_deployed_commit is only written by deploys that are in progress, with
\* the commit they were accepted for.
THEOREM ImplementsEngine == Spec => ImplementsSlot
<1>1. TInv /\ RunInv /\ [Next]_vars => (TInv /\ RunInv)' /\ SlotStep
  BY NextTyped, NextHistory, NextSlotStep
<1>2. Init => TInv /\ RunInv /\ Engine!SlotInit
  BY InitTyped, InitHistory, InitSlotStep
<1> QED BY <1>1, <1>2, PTL DEF Spec, SlotStep, ImplementsSlot, Engine!SlotSpec

\* A handler is refused only while a deploy is in progress: the test of the
\* slot, which may still hold a finished task, refuses nobody without reason.
\* And it lets nobody in while one is, unless handlers were let in together.
RefusedWhileDeploying ==
    /\ ~SlotFree => InProgress # {}
    /\ InProgress # {} /\ SlotFree => crowd = "now"

\* The slot names a task that was created.
NamedInv == slot # None => slot \in Runs /\ pc[slot] # "idle"

LEMMA NextNamed ==
  ASSUME TInv, NamedInv, [Next]_vars
  PROVE  NamedInv'
<1>t. pc \in [Tasks -> PCs] /\ Runs \subseteq Tasks
  BY DEF TInv, TypeOK, Tasks
<1> USE DEF NamedInv
<1>1. ASSUME NEW t \in Tasks, JobStep(t)
      PROVE  NamedInv'
  <2>1. PICK l \in Places : JobMove(t, l)
    BY <1>1, JobMoves
  <2> QED BY <1>t, <2>1 DEF JobMove, Places
<1>2. ASSUME NEW r \in Runs, RunStep(r)
      PROVE  NamedInv'
  <2>1. UNCHANGED slot
    BY <1>2 DEF RunStep, Begin, Judge, Record, FinishRun, Publish, RecordAbort, Deliver, sched
  <2>2. \E l \in Places : pc' = [pc EXCEPT ![r] = l]
    BY <1>2 DEF RunStep, Begin, Judge, Record, FinishRun, Publish, RecordAbort, Deliver, Go,
                OnCancel, Places, PCs, Body, Except
  <2> QED BY <1>t, <2>1, <2>2 DEF Places
<1>3. ASSUME NEW c \in Callers, IssueSpawn(c)
      PROVE  NamedInv'
  BY <1>3, <1>t DEF IssueSpawn, Go, TInv, LocalInv
<1>4. CASE Crash \/ \E r \in Runs : ClearSlot(r)
  BY <1>4 DEF ClearSlot, AfterDone, Crash
<1>5. CASE UNCHANGED <<slot, pc>>
  BY <1>5
<1>6. CASE \/ \E c \in Callers, sha \in Commits \cup {None} : IssueCheck(c, sha)
           \/ \E c \in Callers : IssueAborted(c)
           \/ \E c \in Callers, r \in Runs : IssueInsert(c, r)
           \/ CancelDeploy
           \/ \E a \in Actors : WorkerStep(a)
           \/ ProcessExit \/ Quiet \/ UNCHANGED vars
  <2>1. UNCHANGED <<slot, pc>>
    BY <1>6 DEF IssueCheck, IssueAborted, IssueInsert, CancelDeploy, WorkerStep, ProcessExit,
                Quiet, vars, sched
  <2> QED BY <1>5, <2>1
<1>7. ASSUME NEW o \in Calls, CallStep(o) \/ \E k \in CallKinds : CallBegin(o, k)
      PROVE  NamedInv'
  <2>1. UNCHANGED <<slot, pc>>
    BY <1>7 DEF CallStep, CallBegin, CallStop, CallPull, CallLaunched, CallWrite, CallDelete, sched
  <2> QED BY <1>5, <2>1
<1> QED BY <1>1, <1>2, <1>3, <1>4, <1>6, <1>7 DEF Next

\* Refusals are exact, for any callers and under every fault, but for handlers
\* that are let in together: what BranchDeploy and Releases branch on is what
\* the engine answers.
THEOREM RefusalsExact == Spec => []RefusedWhileDeploying
<1>1. Init => TInv /\ SlotInv /\ NamedInv
  BY InitTyped, InitSlot DEF Init, NamedInv
<1>2. TInv /\ SlotInv /\ NamedInv /\ [Next]_vars => (TInv /\ SlotInv /\ NamedInv)'
  BY NextTyped, NextSlot, NextNamed
<1>3. SlotInv /\ NamedInv => RefusedWhileDeploying
  BY DEF SlotInv, NamedInv, RefusedWhileDeploying, SlotFree, InProgress, InFlight
<1> QED BY <1>1, <1>2, <1>3, PTL DEF Spec

-----------------------------------------------------------------------------
(* A run that succeeded was started from its commit *)

Back == {"ok", "error", "raised"}

\* Without cancellations a task has a thread only while it awaits it, and a
\* call that was not made has none.
WorkerInv ==
    /\ \A t \in Tasks :
          \/ worker[t] = "none"
          \/ pc[t] = "checkout" /\ worker[t] \in {"checkout"} \cup Back
          \/ pc[t] = "launch" /\ worker[t] \in {"clearing", "starting", "confirming"} \cup Back
    /\ \A o \in Calls : call[o].at = "idle" => worker[o] = "none"

\* The task of "create and deploy" asked for the lock before every run did,
\* so no run passes it.
Waiting(t) == pc[t] = "acquire"

\* Where the UPDATE that starts a run takes it when it raises.
Ended == {"failing", "leaving", "done"}

FirstInv ==
    /\ Waiting(Initial) => \A i \in 1..Len(arrived) : arrived[i] = Initial <=> i = 1
    /\ Waiting(Initial) => Len(arrived) > 0
    /\ \A r \in Runs : Waiting(r) => \E i \in 1..Len(arrived) : arrived[i] = r
    /\ InFlight(Initial) =>
          /\ pc[Initial] \in {"acquire"} \cup Critical
          /\ \A r \in Runs : pc[r] \in {"idle", "begin", "acquire"} \cup Ended

\* A process of the run was started, from its commit if it has one.
Aligned(r) == source[r] # Unstarted /\ (commit[r] # None => source[r] = commit[r])

\* The workspace is at the commit of the run.
AtCommit(r) == commit[r] # None => tree = commit[r]

NoCalls == \A o \in Calls : call[o].at = "idle"

\* What carries the commit of a run from the checkout to the final status.
RunSource(r) ==
    /\ pc[r] = "checkout" /\ worker[r] = "ok" => AtCommit(r)
    /\ pc[r] = "resolve" => AtCommit(r)
    /\ pc[r] = "launch" /\ worker[r] \in {"clearing", "starting"} => AtCommit(r)
    /\ pc[r] = "launch" /\ worker[r] \in {"confirming", "ok"} => Aligned(r)
    /\ pc[r] \in {"proxy", "judge"} /\ status = "running" => Aligned(r)
    /\ pc[r] \in {"record", "finish"} /\ verdict[r] = "succeeded" => Aligned(r)
    /\ run[r] = "succeeded" => Aligned(r)

SourceInv == crowd = "none" /\ NoCalls => \A r \in Runs : RunSource(r)

LEMMA InitWorker == Init => WorkerInv
  BY DEF Init, WorkerInv, Actors

\* A step of one actor's thread, or of its task, leaves the others' alone.
LEMMA MoveWorker ==
  ASSUME TInv, WorkerInv, NEW t \in Tasks, NEW l \in PCs, NEW w \in WorkerState,
         pc' = [pc EXCEPT ![t] = l], worker' = [worker EXCEPT ![t] = w], UNCHANGED call,
         \/ w = "none"
         \/ l = "checkout" /\ w \in {"checkout"} \cup Back
         \/ l = "launch" /\ w \in {"clearing", "starting", "confirming"} \cup Back
  PROVE  WorkerInv'
  BY DEF TInv, TypeOK, WorkerInv, Actors, Tasks

\* A task that awaits no thread has none.
LEMMA NoWorker ==
  ASSUME TInv, WorkerInv, NEW t \in Tasks, pc[t] \notin {"checkout", "launch"}
  PROVE  worker[t] = "none" /\ worker = [worker EXCEPT ![t] = "none"]
  BY DEF TInv, TypeOK, WorkerInv, Actors

LEMMA NextWorker ==
  ASSUME TInv, RunInv, CalmInv, WorkerInv, [Next]_vars
  PROVE  WorkerInv'
<1> USE DEF WorkerState, Busy, Back
<1>1. ASSUME NEW t \in Tasks, JobStep(t)
      PROVE  WorkerInv'
  <2> USE DEF Go, Scheduled, Leave, PCs, Body, Critical, Except
  <2>0. pc[t] \notin {"checkout", "launch"} /\ UNCHANGED worker
          => worker' = [worker EXCEPT ![t] = "none"]
    BY NoWorker
  <2>1. CASE Acquire(t)
    BY <2>1, <2>0, MoveWorker DEF Acquire
  <2>2. CASE ReadProject(t)
    BY <2>2, <2>0, MoveWorker DEF ReadProject
  <2>3. CASE MarkDeploying(t)
    BY <2>3, <2>0, MoveWorker DEF MarkDeploying
  <2>4. CASE CheckedOut(t)
    BY <2>4, MoveWorker DEF CheckedOut
  <2>5. CASE Resolve(t)
    BY <2>5, <2>0, MoveWorker DEF Resolve
  <2>6. CASE Launched(t)
    BY <2>6, MoveWorker DEF Launched
  <2>7. CASE ApplyProxy(t)
    BY <2>7, <2>0, MoveWorker DEF ApplyProxy
  <2>8. CASE Settle(t)
    BY <2>8, <2>0, MoveWorker DEF Settle
  <2>9. CASE Raise(t)
    BY <2>9, <2>0, MoveWorker DEF Raise, OnRaise
  <2> QED BY <1>1, <2>1, <2>2, <2>3, <2>4, <2>5, <2>6, <2>7, <2>8, <2>9 DEF JobStep
<1>2. ASSUME NEW r \in Runs, RunStep(r)
      PROVE  WorkerInv'
  <2>1. pc[r] \notin {"checkout", "launch"} /\ UNCHANGED <<worker, call>> /\ r \in Tasks
    BY <1>2 DEF RunStep, Begin, Judge, Record, FinishRun, Publish, RecordAbort, Scheduled,
                CalmInv, Deliver, Tasks
  <2>2. PICK l \in PCs : pc' = [pc EXCEPT ![r] = l]
    BY <1>2 DEF RunStep, Begin, Judge, Record, FinishRun, Publish, RecordAbort, Go,
                CalmInv, Deliver, PCs, Body, Except
  <2>3. worker' = [worker EXCEPT ![r] = "none"]
    BY <2>1, NoWorker
  <2> QED BY <2>1, <2>2, <2>3, MoveWorker
<1>3. ASSUME NEW c \in Callers, IssueSpawn(c)
      PROVE  WorkerInv'
  <2>1. PICK r \in Runs : r = caller[c].run /\ r \in Tasks
    BY <1>3 DEF IssueSpawn, TInv, LocalInv, Tasks
  <2>2. UNCHANGED <<worker, call>> /\ pc' = [pc EXCEPT ![r] = "begin"]
    BY <1>3, <2>1 DEF IssueSpawn, Go
  <2>3. pc[r] = "idle" /\ "begin" \in PCs
    BY <1>3, <2>1 DEF IssueSpawn, RunInv, PCs
  <2> QED BY <2>1, <2>2, <2>3, NoWorker, MoveWorker
<1>4. ASSUME NEW a \in Actors, WorkerStep(a)
      PROVE  WorkerInv'
  <2>1. UNCHANGED <<pc, call>>
    BY <1>4 DEF WorkerStep
  <2>2. PICK w \in WorkerState :
           /\ worker' = [worker EXCEPT ![a] = w]
           /\ \/ worker[a] = "checkout" /\ w \in Back
              \/ /\ worker[a] \in {"clearing", "starting", "confirming"}
                 /\ w \in {"starting", "confirming"} \cup Back
    <3>1. CASE worker[a] = "checkout"
      BY <1>4, <3>1 DEF WorkerStep
    <3>2. CASE worker[a] # "checkout"
      BY <1>4, <3>2 DEF WorkerStep
    <3> QED BY <3>1, <3>2
  <2> QED BY <2>1, <2>2 DEF WorkerInv, TInv, TypeOK, Actors
<1>5. ASSUME NEW o \in Calls, NEW k \in CallKinds, CallBegin(o, k)
      PROVE  WorkerInv'
  <2>1. call'[o].at # "idle" /\ \A p \in Calls \ {o} : call'[p] = call[p]
    BY <1>5 DEF CallBegin, TInv, TypeOK, Handlers
  <2> QED BY <1>5, <2>1 DEF CallBegin, WorkerInv, TInv, TypeOK, Actors, Tasks
<1>6. ASSUME NEW o \in Calls, CallStep(o)
      PROVE  WorkerInv'
  <2>1. UNCHANGED pc /\ o \notin Tasks /\ o \in Actors
    BY <1>6 DEF CallStep, CallStop, CallPull, CallLaunched, CallWrite, CallDelete, Tasks,
                Actors
  <2>2. \A p \in Actors : p # o => worker'[p] = worker[p]
    BY <1>6 DEF CallStep, CallStop, CallPull, CallLaunched, CallWrite, CallDelete, TInv, TypeOK
  <2>3. \A p \in Calls : call'[p].at = "idle" => p # o /\ call'[p] = call[p]
    <3>0. call \in [Calls -> CallType]
      BY DEF TInv, TypeOK, CallType
    <3>1. CASE CallStop(o)
      <4>1. \E l \in {"write", "delete", "pulling"} : call' = [call EXCEPT ![o].at = l]
        BY <3>1 DEF CallStop, CallAt
      <4> QED BY <3>0, <4>1 DEF CallType
    <3>2. CASE CallPull(o) \/ CallWrite(o) \/ CallDelete(o)
      <4>1. \E l \in {"done", "launching"} : call' = [call EXCEPT ![o].at = l]
        BY <3>2 DEF CallPull, CallWrite, CallDelete, CallAt
      <4> QED BY <3>0, <4>1 DEF CallType
    <3>3. CASE CallLaunched(o)
      BY <3>0, <3>3 DEF CallLaunched, CallType
    <3> QED BY <1>6, <3>1, <3>2, <3>3 DEF CallStep
  <2> QED BY <2>1, <2>2, <2>3 DEF WorkerInv, Actors
<1>7. CASE Crash
  BY <1>7 DEF Crash, WorkerInv, Actors
<1>8. CASE UNCHANGED <<pc, worker, call>>
  BY <1>8 DEF WorkerInv
<1>9. CASE \/ \E c \in Callers, sha \in Commits \cup {None} : IssueCheck(c, sha)
           \/ \E c \in Callers : IssueAborted(c)
           \/ \E c \in Callers, r \in Runs : IssueInsert(c, r)
           \/ CancelDeploy
           \/ \E r \in Runs : ClearSlot(r)
           \/ ProcessExit
           \/ Quiet
           \/ UNCHANGED vars
  <2>1. UNCHANGED <<pc, worker, call>>
    BY <1>9 DEF IssueCheck, IssueAborted, IssueInsert, CancelDeploy, ClearSlot, ProcessExit, Quiet,
                vars
  <2> QED BY <1>8, <2>1
<1> QED BY <1>1, <1>2, <1>3, <1>4, <1>5, <1>6, <1>7, <1>9 DEF Next

LEMMA InitFirst == Init => FirstInv
<1> SUFFICES ASSUME Init PROVE FirstInv
  OBVIOUS
<1>1. PICK now \in DeployNow :
         /\ pc = [t \in Tasks |-> IF now /\ t = Initial THEN "acquire" ELSE "idle"]
         /\ arrived = IF now THEN <<Initial>> ELSE <<>>
  BY DEF Init
<1>2. CASE now
  BY <1>1, <1>2 DEF FirstInv, Waiting, InFlight, Tasks
<1>3. CASE ~now
  BY <1>1, <1>3 DEF FirstInv, Waiting, InFlight, Tasks
<1> QED BY <1>2, <1>3

\* No run takes the lock while the first deploy waits for it.
LEMMA FirstServed ==
  ASSUME TInv, LockInv, FirstInv, NEW r \in Runs, Acquire(r)
  PROVE  ~InFlight(Initial)
<1> SUFFICES ASSUME InFlight(Initial) PROVE FALSE
  OBVIOUS
<1>0. Initial \in Tasks /\ r \in Tasks /\ r # Initial
  BY DEF Tasks
<1>1. CASE pc[Initial] \in Critical
  BY <1>0, <1>1 DEF LockInv, Acquire, LockFree
<1>2. CASE Waiting(Initial)
  <2>1. Position(Initial) = 1 /\ Position(r) \in 1..Len(arrived)
    <3>1. Len(arrived) \in Nat /\ 1 \in 1..Len(arrived)
      BY <1>2 DEF FirstInv, TInv, TypeOK
    <3>2. Waiting(r)
      BY DEF Acquire, Scheduled, Waiting
    <3> QED BY <1>2, <3>1, <3>2 DEF Position, FirstInv
  <2>2. Position(r) < Position(Initial)
    BY <1>0, <1>2 DEF Acquire, Waiting
  <2> QED BY <2>1, <2>2
<1> QED BY <1>1, <1>2 DEF FirstInv, Waiting

LEMMA NextFirst ==
  ASSUME TInv, LockInv, RunInv, CalmInv, FirstInv, [Next]_vars
  PROVE  FirstInv'
<1> USE DEF FirstInv, Waiting, InFlight, Ended
<1>t. pc \in [Tasks -> PCs] /\ Initial \in Tasks /\ Runs \subseteq Tasks /\ Initial \notin Runs
  BY DEF TInv, TypeOK, Tasks
<1>1. ASSUME NEW t \in Tasks, JobStep(t)
      PROVE  FirstInv'
  <2>1. UNCHANGED arrived /\ pc[t] \notin {"idle", "done"}
    BY <1>1 DEF JobStep, Acquire, ReadProject, MarkDeploying, CheckedOut, Resolve, Launched,
                ApplyProxy, Settle, Raise, Scheduled, sched, Body, Critical
  <2>2. PICK l \in PCs : /\ pc' = [pc EXCEPT ![t] = l]
                         /\ l # "acquire"
                         /\ t = Initial => l \in {"done"} \cup Critical
    BY <1>1 DEF JobStep, Acquire, ReadProject, MarkDeploying, CheckedOut, Resolve, Launched,
                ApplyProxy, Settle, Raise, OnRaise, Leave, Go, PCs, Body, Critical, Except
  <2>3. CASE t = Initial
    BY <1>t, <2>1, <2>2, <2>3
  <2>4. CASE t \in Runs
    <3>1. CASE Raise(t)
      <4>1. pc[t] # "acquire" /\ \E e \in Ended : pc' = [pc EXCEPT ![t] = e]
        BY <1>t, <2>4, <3>1 DEF Raise, OnRaise, Go, Body
      <4> QED BY <1>t, <2>1, <2>4, <4>1
    <3>2. CASE ~Raise(t)
      <4>1. ~InFlight(Initial)
        <5>1. CASE Acquire(t)
          BY <2>4, <5>1, FirstServed
        <5>2. CASE ~Acquire(t)
          <6>1. pc[t] \in Critical
            BY <1>1, <3>2, <5>2 DEF JobStep, ReadProject, MarkDeploying, CheckedOut, Resolve,
                  Launched, ApplyProxy, Settle, Scheduled, Critical
          <6> QED BY <2>1, <2>4, <6>1 DEF Critical
        <5> QED BY <5>1, <5>2
      <4> QED BY <1>t, <2>1, <2>2, <2>4, <4>1
    <3> QED BY <3>1, <3>2
  <2> QED BY <2>3, <2>4 DEF Tasks
<1>2. ASSUME NEW r \in Runs, RunStep(r)
      PROVE  FirstInv'
  <2>1. CASE Begin(r)
    <3>1. /\ arrived' = Append(arrived, r)
          /\ pc' = [pc EXCEPT ![r] = "acquire"]
          /\ pc[r] = "begin"
      BY <2>1 DEF Begin, Go, Scheduled
    <3>2. /\ Len(arrived') = Len(arrived) + 1
          /\ Len(arrived) \in Nat
          /\ \A i \in 1..Len(arrived) : arrived'[i] = arrived[i]
          /\ arrived'[Len(arrived) + 1] = r
      BY <1>t, <3>1 DEF TInv, TypeOK
    <3>3. Waiting(Initial)' => \A i \in 1..Len(arrived') : arrived'[i] = Initial <=> i = 1
      BY <1>t, <3>1, <3>2
    <3>4. Waiting(Initial)' => Len(arrived') > 0
      BY <3>2
    <3>5. ASSUME NEW s \in Runs, Waiting(s)'
          PROVE  \E i \in 1..Len(arrived') : arrived'[i] = s
      <4>1. CASE s = r
        BY <3>2, <4>1
      <4>2. CASE s # r
        <5>1. PICK i \in 1..Len(arrived) : arrived[i] = s
          BY <1>t, <3>1, <3>5, <4>2
        <5> QED BY <3>2, <5>1
      <4> QED BY <4>1, <4>2
    <3> QED BY <1>t, <3>1, <3>3, <3>4, <3>5
  <2>2. CASE ~Begin(r)
    <3>1. /\ UNCHANGED arrived
          /\ pc[r] \notin {"idle", "begin", "acquire"}
          /\ \E l \in {"record", "finish", "publish", "done", "leaving"} :
                /\ pc' = [pc EXCEPT ![r] = l]
                /\ pc[r] \in Ended => l \in Ended
      BY <1>2, <2>2 DEF RunStep, Judge, Record, FinishRun, Publish, RecordAbort, Scheduled,
                        Go, CalmInv, Deliver, sched
    <3> QED BY <1>t, <3>1
  <2> QED BY <2>1, <2>2
<1>3. ASSUME NEW c \in Callers, IssueSpawn(c)
      PROVE  FirstInv'
  <2>1. PICK r \in Runs : r = caller[c].run
    BY <1>3 DEF IssueSpawn, TInv, LocalInv
  <2>2. UNCHANGED arrived /\ pc' = [pc EXCEPT ![r] = "begin"]
    BY <1>3, <2>1 DEF IssueSpawn, Go
  <2> QED BY <1>t, <2>1, <2>2
<1>4. CASE Crash
  BY <1>4 DEF Crash, Tasks
<1>5. CASE UNCHANGED <<pc, arrived>>
  BY <1>5
<1>6. CASE \/ \E c \in Callers, sha \in Commits \cup {None} : IssueCheck(c, sha)
           \/ \E c \in Callers : IssueAborted(c)
           \/ \E c \in Callers, r \in Runs : IssueInsert(c, r)
           \/ CancelDeploy
           \/ \E r \in Runs : ClearSlot(r)
           \/ \E a \in Actors : WorkerStep(a)
           \/ ProcessExit
           \/ Quiet
           \/ UNCHANGED vars
  <2>1. UNCHANGED <<pc, arrived>>
    BY <1>6 DEF IssueCheck, IssueAborted, IssueInsert, CancelDeploy, ClearSlot, WorkerStep,
                ProcessExit,
                Quiet, vars, sched
  <2> QED BY <1>5, <2>1
<1>7. ASSUME NEW o \in Calls, CallStep(o) \/ \E k \in CallKinds : CallBegin(o, k)
      PROVE  FirstInv'
  <2>1. UNCHANGED <<pc, arrived>>
    BY <1>7 DEF CallStep, CallBegin, CallStop, CallPull, CallLaunched, CallWrite,
                CallDelete, sched
  <2> QED BY <1>5, <2>1
<1> QED BY <1>1, <1>2, <1>3, <1>4, <1>6, <1>7 DEF Next

LEMMA InitSource == Init => SourceInv
  BY DEF Init, SourceInv, RunSource, Tasks

\* A step that is not the run's own: it leaves the run's row, its task and
\* its process alone, the workspace too while the run depends on it, and it
\* does not make the project run while the run waits to be judged.
LEMMA OtherSource ==
  ASSUME NEW r \in Runs, RunSource(r),
         pc'[r] = pc[r], worker'[r] = worker[r], verdict'[r] = verdict[r],
         run'[r] = run[r], commit'[r] = commit[r], source'[r] = source[r],
         pc[r] \in {"checkout", "resolve", "launch"} => tree' = tree,
         pc[r] \in {"proxy", "judge"} /\ status' = "running" => status = "running"
  PROVE  RunSource(r)'
  BY DEF RunSource, Aligned, AtCommit

\* What the states of a run exclude.
LEMMA Alone ==
  ASSUME TInv, LockInv, SlotInv, crowd = "none", FirstInv,
         NEW r \in Runs, NEW t \in Tasks, t # r,
         pc[t] \in Critical
  PROVE  pc[r] \notin Critical \cup {"judge"}
<1>1. pc[r] \notin Critical
  BY DEF LockInv, Tasks
<1>2. CASE t = Initial
  BY <1>1, <1>2 DEF FirstInv, InFlight, Critical, Ended
<1>3. CASE t \in Runs
  BY <1>1, <1>3 DEF SlotInv, InFlight, Critical
<1> QED BY <1>1, <1>2, <1>3 DEF Tasks

LEMMA JobSource ==
  ASSUME TInv, LockInv, SlotInv, crowd = "none", FirstInv, StartedInv, WorkerInv,
         NEW r \in Runs, RunSource(r), NEW t \in Tasks, JobStep(t)
  PROVE  RunSource(r)'
<1>t. /\ r \in Tasks /\ t \in Actors /\ r \in Actors
      /\ pc \in [Tasks -> PCs] /\ worker \in [Actors -> WorkerState]
      /\ verdict \in [Tasks -> ProjectStatus \cup {"succeeded"}]
  BY DEF Tasks, Actors, TInv, TypeOK
<1>m. UNCHANGED <<run, commit, tree, source>>
  BY DEF JobStep, Acquire, ReadProject, MarkDeploying, CheckedOut, Resolve, Launched,
         ApplyProxy, Settle, Raise, db, machine
<1>1. CASE t # r
  <2>1. pc'[r] = pc[r] /\ worker'[r] = worker[r] /\ verdict'[r] = verdict[r]
    BY <1>1, <1>t DEF JobStep, Acquire, ReadProject, MarkDeploying, CheckedOut, Resolve,
                      Launched, ApplyProxy, Settle, Raise, Go, Leave
  <2>2. CASE Launched(t)
    <3>1. pc[r] \notin {"proxy", "judge"}
      BY <1>1, <2>2, Alone DEF Launched, Scheduled, Critical
    <3> QED BY <1>m, <2>1, <3>1, OtherSource
  <2>3. CASE ~Launched(t)
    <3>1. status' = "running" => status = "running"
      <4>1. CASE Settle(t)
        BY <4>1 DEF Settle, Scheduled, SetStatus, TInv, LocalInv
      <4>2. CASE MarkDeploying(t)
        BY <4>2 DEF MarkDeploying, SetStatus
      <4> QED BY <2>3, <4>1, <4>2 DEF JobStep, Acquire, ReadProject, CheckedOut, Resolve,
                  ApplyProxy, Raise, db
    <3> QED BY <1>m, <2>1, <3>1, OtherSource
  <2> QED BY <2>2, <2>3
<1>2. CASE t = r
  <2>0. pc[r] \in Underway => run[r] # "succeeded"
    BY DEF StartedInv
  <2>g. ASSUME NEW l \in PCs, pc' = [pc EXCEPT ![r] = l]
        PROVE  pc'[r] = l
    BY <1>t, <2>g
  <2> USE DEF RunSource, Aligned, AtCommit, Go, Leave, Scheduled, Underway, Body, Critical,
              PCs, Except, db, machine
  <2>1. CASE Acquire(t)
    BY <1>2, <1>t, <1>m, <2>0, <2>1 DEF Acquire
  <2>2. CASE ReadProject(t)
    BY <1>2, <1>t, <1>m, <2>0, <2>2 DEF ReadProject
  <2>3. CASE MarkDeploying(t)
    BY <1>2, <1>t, <1>m, <2>0, <2>3 DEF MarkDeploying, Pin
  <2>4. CASE CheckedOut(t)
    BY <1>2, <1>t, <1>m, <2>0, <2>4 DEF CheckedOut
  <2>5. CASE Resolve(t)
    BY <1>2, <1>t, <1>m, <2>0, <2>5 DEF Resolve
  <2>6. CASE Launched(t)
    BY <1>2, <1>t, <1>m, <2>0, <2>6 DEF Launched, SetStatus, LaunchStatus
  <2>7. CASE ApplyProxy(t)
    BY <1>2, <1>t, <1>m, <2>0, <2>7 DEF ApplyProxy
  <2>8. CASE Settle(t)
    BY <1>2, <1>t, <1>m, <2>0, <2>8 DEF Settle, SetStatus, TInv, LocalInv
  <2>9. CASE Raise(t)
    BY <1>2, <1>t, <1>m, <2>0, <2>9 DEF Raise, OnRaise
  <2> QED BY <2>1, <2>2, <2>3, <2>4, <2>5, <2>6, <2>7, <2>8, <2>9 DEF JobStep
<1> QED BY <1>1, <1>2

LEMMA RunStepSource ==
  ASSUME TInv, RunInv, CalmInv, NEW r \in Runs, RunSource(r), NEW s \in Runs, RunStep(s)
  PROVE  RunSource(r)'
<1>t. /\ r \in Tasks /\ s \in Tasks /\ pc \in [Tasks -> PCs] /\ run \in [Runs -> RunStatus]
      /\ verdict \in [Tasks -> ProjectStatus \cup {"succeeded"}]
  BY DEF Tasks, TInv, TypeOK
<1>m. UNCHANGED <<commit, worker, tree, source>> /\ (status' = "running" => status = "running")
  BY DEF RunStep, Begin, Judge, Record, FinishRun, Publish, RecordAbort, CalmInv, Deliver,
         SetStatus, db, machine
<1>1. CASE s # r
  <2>1. pc'[r] = pc[r] /\ run'[r] = run[r] /\ verdict'[r] = verdict[r]
    BY <1>1, <1>t DEF RunStep, Begin, Judge, Record, FinishRun, Publish, RecordAbort,
                      CalmInv, Deliver, Go, db
  <2> QED BY <1>m, <2>1, OtherSource
<1>2. CASE s = r
  <2> USE DEF RunSource, Aligned, Go, Scheduled, db
  <2>1. CASE Begin(s)
    BY <1>2, <1>t, <1>m, <2>1 DEF Begin
  <2>2. CASE Judge(s)
    BY <1>2, <1>t, <1>m, <2>2 DEF Judge, Outcome
  <2>3. CASE Record(s)
    BY <1>2, <1>t, <1>m, <2>3 DEF Record
  <2>4. CASE FinishRun(s)
    BY <1>2, <1>t, <1>m, <2>4 DEF FinishRun
  <2>5. CASE Publish(s)
    BY <1>2, <1>t, <1>m, <2>5 DEF Publish
  <2>6. CASE RecordAbort(s)
    BY <1>2, <1>t, <1>m, <2>6 DEF RecordAbort
  <2> QED BY <2>1, <2>2, <2>3, <2>4, <2>5, <2>6 DEF RunStep, CalmInv, Deliver
<1> QED BY <1>1, <1>2

LEMMA WorkerSource ==
  ASSUME TInv, LockInv, SlotInv, crowd = "none", FirstInv, StartedInv, WorkerInv, NoCalls,
         NEW r \in Runs, RunSource(r), NEW a \in Actors, WorkerStep(a)
  PROVE  RunSource(r)'
<1>t. /\ r \in Tasks /\ r \in Actors /\ worker \in [Actors -> WorkerState]
      /\ source \in [Actors -> Commits \cup {None, Unstarted}]
      /\ tree # Unstarted
  BY DEF Tasks, Actors, TInv, TypeOK
<1>m. UNCHANGED <<status, pc, verdict, run, commit>>
  BY DEF WorkerStep, db
<1>0. a \in Tasks
  BY DEF WorkerStep, WorkerInv, NoCalls, Actors, Tasks
<1>a. \/ pc[a] = "checkout" /\ worker[a] = "checkout"
      \/ pc[a] = "launch" /\ worker[a] \in {"clearing", "starting", "confirming"}
  BY <1>0 DEF WorkerStep, WorkerInv, Back
<1>1. CASE a # r
  <2>1. worker'[r] = worker[r] /\ source'[r] = source[r]
    BY <1>1, <1>t DEF WorkerStep, PullTree, StopProcess, SpawnProcess, ConfirmProcess,
                      RejectProcess, machine
  <2>2. pc[r] \notin {"checkout", "resolve", "launch"}
    BY <1>0, <1>1, <1>a, Alone DEF Critical
  <2> QED BY <1>m, <2>1, <2>2, OtherSource
<1>2. CASE a = r
  <2>0. run[r] # "succeeded"
    BY <1>2, <1>a DEF StartedInv, Underway, Body, Critical
  <2> USE DEF RunSource, Aligned, AtCommit
  <2>1. CASE worker[r] = "checkout"
    <3>1. \/ worker' = [worker EXCEPT ![r] = "ok"] /\ PullTree(Pin(r), TRUE)
          \/ worker'[r] \in {"error", "raised"}
      BY <1>2, <1>t, <2>1 DEF WorkerStep
    <3> QED BY <1>2, <1>a, <1>t, <1>m, <2>0, <2>1, <3>1 DEF PullTree, Pin
  <2>2. CASE worker[r] = "clearing"
    <3>1. worker' = [worker EXCEPT ![r] = "starting"] /\ UNCHANGED <<tree, source>>
      BY <1>2, <2>2 DEF WorkerStep, StopProcess
    <3> QED BY <1>2, <1>a, <1>t, <1>m, <2>0, <2>2, <3>1
  <2>3. CASE worker[r] = "starting"
    <3>1. \/ worker' = [worker EXCEPT ![r] = "confirming"] /\ source'[r] = tree
          \/ worker'[r] \in {"error", "raised"}
      BY <1>2, <1>t, <2>3 DEF WorkerStep, SpawnProcess
    <3> QED BY <1>2, <1>a, <1>t, <1>m, <2>0, <2>3, <3>1
  <2>4. CASE worker[r] = "confirming"
    <3>1. worker'[r] \in {"ok", "error"} /\ UNCHANGED source
      BY <1>2, <1>t, <2>4 DEF WorkerStep, ConfirmProcess, RejectProcess, StopProcess
    <3> QED BY <1>2, <1>a, <1>t, <1>m, <2>0, <2>4, <3>1
  <2> QED BY <1>2, <1>a, <2>1, <2>2, <2>3, <2>4
<1> QED BY <1>1, <1>2

\* A call that was made is never unmade.
LEMMA CallsStay ==
  ASSUME TInv, [Next]_vars, NoCalls'
  PROVE  /\ NoCalls
         /\ \A o \in Calls : ~CallStep(o) /\ \A k \in CallKinds : ~CallBegin(o, k)
<1>0. call \in [Calls -> CallType]
  BY DEF TInv, TypeOK, CallType
<1>1. ASSUME NEW o \in Calls, NEW k \in CallKinds, CallBegin(o, k)
      PROVE  FALSE
  <2>1. call'[o].at # "idle"
    BY <1>0, <1>1 DEF CallBegin, Handlers
  <2> QED BY <2>1 DEF NoCalls
<1>2. ASSUME NEW o \in Calls, CallStep(o)
      PROVE  FALSE
  <2>1. CASE CallStop(o)
    <3>1. \E l \in {"write", "delete", "pulling"} : call' = [call EXCEPT ![o].at = l]
      BY <2>1 DEF CallStop, CallAt
    <3> QED BY <1>0, <3>1 DEF CallType, NoCalls
  <2>2. CASE CallPull(o) \/ CallWrite(o) \/ CallDelete(o)
    <3>1. \E l \in {"done", "launching"} : call' = [call EXCEPT ![o].at = l]
      BY <2>2 DEF CallPull, CallWrite, CallDelete, CallAt
    <3> QED BY <1>0, <3>1 DEF CallType, NoCalls
  <2>3. CASE CallLaunched(o)
    BY <1>0, <2>3 DEF CallLaunched, CallType, NoCalls
  <2> QED BY <1>2, <2>1, <2>2, <2>3 DEF CallStep
<1>3. CASE Crash
  <2>1. \A o \in Calls : call'[o].at = "idle" => call[o].at = "idle"
    BY <1>0, <1>3 DEF Crash, CallType
  <2> QED BY <1>1, <1>2, <2>1 DEF NoCalls
<1>4. CASE \/ \E c \in Callers, sha \in Commits \cup {None} : IssueCheck(c, sha)
           \/ \E c \in Callers : IssueAborted(c)
           \/ \E c \in Callers, r \in Runs : IssueInsert(c, r)
           \/ \E c \in Callers : IssueSpawn(c)
           \/ CancelDeploy \/ \E r \in Runs : ClearSlot(r)
           \/ \E r \in Runs : RunStep(r)
           \/ \E a \in Actors : WorkerStep(a)
           \/ ProcessExit \/ Quiet \/ UNCHANGED vars
  <2>1. UNCHANGED call
    BY <1>4 DEF IssueCheck, IssueAborted, IssueInsert, IssueSpawn, CancelDeploy, ClearSlot, RunStep,
                Begin,
                Judge, Record, FinishRun, Publish, RecordAbort, Deliver, WorkerStep,
                ProcessExit, Quiet, vars
  <2> QED BY <1>1, <1>2, <2>1 DEF NoCalls
<1>5. ASSUME NEW t \in Tasks, JobStep(t)
      PROVE  UNCHANGED call
  BY <1>5 DEF JobStep, Acquire, ReadProject, MarkDeploying, CheckedOut, Resolve, Launched,
              ApplyProxy, Settle, Raise
<1> QED BY <1>1, <1>2, <1>3, <1>4, <1>5 DEF Next, NoCalls

\* Handlers that were let in together are not forgotten.
LEMMA CrowdStays ==
  ASSUME [Next]_vars, crowd' = "none"
  PROVE  crowd = "none"
<1>1. ASSUME NEW t \in Tasks, JobStep(t)
      PROVE  UNCHANGED crowd
  BY <1>1 DEF JobStep, Acquire, ReadProject, MarkDeploying, CheckedOut, Resolve, Launched,
              ApplyProxy, Settle, Raise
<1>2. ASSUME NEW o \in Calls, CallStep(o) \/ \E k \in CallKinds : CallBegin(o, k)
      PROVE  UNCHANGED crowd
  BY <1>2 DEF CallStep, CallBegin, CallStop, CallPull, CallLaunched, CallWrite, CallDelete
<1>3. CASE \/ \E c \in Callers, sha \in Commits \cup {None} : IssueCheck(c, sha)
           \/ Crash
  BY <1>3 DEF IssueCheck, Crash
<1>4. CASE \/ \E c \in Callers : IssueAborted(c) \/ IssueSpawn(c)
           \/ \E c \in Callers, r \in Runs : IssueInsert(c, r)
           \/ CancelDeploy \/ \E r \in Runs : ClearSlot(r)
           \/ \E r \in Runs : RunStep(r)
           \/ \E a \in Actors : WorkerStep(a)
           \/ ProcessExit \/ Quiet \/ UNCHANGED vars
  BY <1>4 DEF IssueAborted, IssueInsert, IssueSpawn, CancelDeploy, ClearSlot, RunStep, Begin,
              Judge, Record, FinishRun, Publish, RecordAbort, Deliver, WorkerStep,
              ProcessExit, Quiet, vars
<1> QED BY <1>1, <1>2, <1>3, <1>4 DEF Next

LEMMA NextSource ==
  ASSUME Never("cancel"), TInv, LockInv, RunInv, StartedInv, SlotInv, CalmInv, WorkerInv,
         FirstInv, SourceInv, [Next]_vars
  PROVE  SourceInv'
<1> SUFFICES ASSUME crowd' = "none", NoCalls', NEW r \in Runs PROVE RunSource(r)'
  BY DEF SourceInv
<1>0. /\ NoCalls /\ crowd = "none" /\ RunSource(r) /\ ~CancelDeploy
      /\ \A o \in Calls : ~CallStep(o) /\ \A k \in CallKinds : ~CallBegin(o, k)
  BY CallsStay, CrowdStays, NeverFaults DEF SourceInv, TInv, FaultKinds, CancelDeploy
<1>t. r \in Tasks /\ pc \in [Tasks -> PCs] /\ run \in [Runs -> RunStatus]
  BY DEF Tasks, TInv, TypeOK
<1>1. ASSUME NEW t \in Tasks, JobStep(t)
      PROVE  RunSource(r)'
  BY <1>0, <1>1, JobSource
<1>2. ASSUME NEW s \in Runs, RunStep(s)
      PROVE  RunSource(r)'
  BY <1>0, <1>2, RunStepSource
<1>3. ASSUME NEW a \in Actors, WorkerStep(a)
      PROVE  RunSource(r)'
  BY <1>0, <1>3, WorkerSource
<1>4. ASSUME NEW c \in Callers, NEW s \in Runs, IssueInsert(c, s)
      PROVE  RunSource(r)'
  <2>1. CASE s = r
    <3>1. pc'[r] = "idle" /\ run'[r] = "queued"
      BY <1>4, <1>t, <2>1 DEF IssueInsert, RunInv
    <3> QED BY <3>1 DEF RunSource
  <2>2. CASE s # r
    BY <1>0, <1>4, <1>t, <2>2, OtherSource DEF IssueInsert, TInv, TypeOK, machine
  <2> QED BY <2>1, <2>2
<1>5. ASSUME NEW c \in Callers, IssueSpawn(c)
      PROVE  RunSource(r)'
  <2>1. PICK s \in Runs : s = caller[c].run /\ run[s] = "queued" /\ s \in Tasks
    BY <1>5 DEF IssueSpawn, RunInv, TInv, LocalInv, Tasks
  <2>2. /\ UNCHANGED <<status, run, commit, verdict, worker, tree, source>>
        /\ pc' = [pc EXCEPT ![s] = "begin"]
    BY <1>5, <2>1 DEF IssueSpawn, Go, db, machine
  <2>3. CASE s = r
    BY <1>t, <2>1, <2>2, <2>3 DEF RunSource
  <2>4. CASE s # r
    BY <1>0, <1>t, <2>2, <2>4, OtherSource
  <2> QED BY <2>3, <2>4
<1>6. CASE Crash
  BY <1>0, <1>6, <1>t DEF Crash, RunSource, Aligned, db, machine
<1>7. CASE \/ \E c \in Callers, sha \in Commits \cup {None} : IssueCheck(c, sha)
           \/ \E c \in Callers : IssueAborted(c)
           \/ \E s \in Runs : ClearSlot(s)
           \/ ProcessExit
           \/ Quiet
           \/ UNCHANGED vars
  <2>1. UNCHANGED <<status, run, commit, pc, verdict, worker, tree, source>>
    BY <1>7 DEF IssueCheck, IssueAborted, ClearSlot, ProcessExit, Quiet, vars, db, machine
  <2> QED BY <1>0, <2>1, OtherSource
<1> QED BY <1>0, <1>1, <1>2, <1>3, <1>4, <1>5, <1>6, <1>7 DEF Next

\* "Checking out that immutable SHA after fetch keeps the deployed source
\* aligned with the recorded run": without lifecycle calls, cancellations and
\* handlers of issue_deploy that are let in together, a run recorded as
\* succeeded has started a process, from the commit it was recorded with,
\* through exceptions, exits of the service, restarts of the server, callers
\* that take turns and a first deploy that is still under way.
THEOREM SourceKept ==
  ASSUME Never("cancel")
  PROVE  Spec => []SourceAligned
<1> DEFINE IInv == TInv /\ LockInv /\ RunInv /\ StartedInv /\ SlotInv /\ CalmInv /\ WorkerInv
                    /\ FirstInv /\ SourceInv
<1>1. Init => IInv
  BY InitTyped, InitLocked, InitHistory, InitStarted, InitSlot, InitOpen, InitWorker,
     InitFirst, InitSource
<1>2. IInv /\ [Next]_vars => IInv'
  BY NextTyped, NextLocked, NextHistory, NextBook, NextSlot, NextCalm, NextWorker, NextFirst,
     NextSource
<1>3. IInv => SourceAligned
  BY DEF SourceAligned, SourceInv, NoCalls, RunSource, Aligned
<1> QED BY <1>1, <1>2, <1>3, PTL DEF Spec

-----------------------------------------------------------------------------
(* No process is lost *)

\* Without lifecycle calls, a start finds the machine empty, and the process
\* it creates is the only one until the pid file or the container name reaches
\* it.
ProcessInv == NoCalls =>
    /\ NoOrphanProcess
    /\ \A t \in Tasks : worker[t] = "starting" => live = {}
    /\ \A t \in Tasks : worker[t] = "confirming" =>
          live \subseteq {t} /\ (DeployType = "docker" => handle = t)

\* "running" is written for a process that was just confirmed, and the row
\* says something else while a task may kill it.
RunningInv == NoCalls =>
    /\ RunningIsLive
    /\ \A t \in Tasks : pc[t] = "launch" /\ worker[t] = "ok" => handle \in live
    /\ \A t \in Tasks : pc[t] \in {"checkout", "resolve", "launch"} => status # "running"

LEMMA InitProcess == Init => ProcessInv /\ RunningInv
  BY DEF Init, ProcessInv, RunningInv, NoOrphanProcess, RunningIsLive, Tasks, Actors

\* One thread at a time: the lock keeps the tasks apart and there are no
\* calls.
LEMMA OneThread ==
  ASSUME TInv, LockInv, WorkerInv, NoCalls, NEW a \in Actors, worker[a] # "none"
  PROVE  /\ a \in Tasks
         /\ pc[a] \in {"checkout", "launch"}
         /\ \A b \in Actors \ {a} : worker[b] = "none"
         /\ \A t \in Tasks \ {a} : pc[t] \notin Critical
  BY DEF LockInv, WorkerInv, NoCalls, Actors, Critical

LEMMA WorkerProcess ==
  ASSUME TInv, LockInv, WorkerInv, NoCalls, ProcessInv, NEW a \in Actors, WorkerStep(a)
  PROVE  ProcessInv'
<1> USE DEF ProcessInv, NoOrphanProcess
<1>t. worker \in [Actors -> WorkerState] /\ live \subseteq Actors /\ None \notin Actors
  BY DEF TInv, TypeOK, Actors, Tasks
<1>1. /\ a \in Tasks /\ Tasks \subseteq Actors
      /\ \A b \in Actors \ {a} : worker[b] = "none"
  BY OneThread DEF WorkerStep, Actors
<1>2. ASSUME NEW w \in WorkerState, worker' = [worker EXCEPT ![a] = w]
      PROVE  worker'[a] = w /\ \A b \in Actors \ {a} : worker'[b] = "none"
  BY <1>t, <1>1, <1>2
<1>3. CASE worker[a] = "checkout"
  <2>1. UNCHANGED <<live, handle>> /\ \E w \in Back : worker' = [worker EXCEPT ![a] = w]
    BY <1>3 DEF WorkerStep, PullTree, machine, Back
  <2> QED BY <1>t, <1>1, <1>2, <1>3, <2>1 DEF Back, WorkerState
<1>4. CASE worker[a] = "clearing"
  <2>1. StopProcess /\ worker' = [worker EXCEPT ![a] = "starting"]
    BY <1>4 DEF WorkerStep
  <2> QED BY <1>t, <1>1, <1>2, <1>4, <2>1 DEF StopProcess, WorkerState, Busy
<1>5. CASE worker[a] = "starting"
  <2>1. CASE SpawnProcess(a) /\ worker' = [worker EXCEPT ![a] = "confirming"]
    BY <1>t, <1>1, <1>2, <1>5, <2>1 DEF SpawnProcess, WorkerState, Busy
  <2>2. CASE \E w \in Back : worker' = [worker EXCEPT ![a] = w] /\ UNCHANGED <<live, handle>>
    BY <1>t, <1>1, <1>2, <1>5, <2>2 DEF Back, WorkerState
  <2> QED BY <1>5, <2>1, <2>2 DEF WorkerStep, Back, machine
<1>6. CASE worker[a] = "confirming"
  <2>0. live \subseteq {a} /\ (DeployType = "docker" => handle = a)
    BY <1>1, <1>6
  <2>1. CASE ConfirmProcess(a) /\ worker' = [worker EXCEPT ![a] = "ok"]
    <3>1. live' \subseteq {handle'}
      BY <2>0, <2>1 DEF ConfirmProcess
    <3> QED BY <1>1, <1>2, <2>1, <3>1 DEF WorkerState
  <2>2. CASE RejectProcess(a) /\ worker' = [worker EXCEPT ![a] = "error"]
    <3>1. live' = {}
      BY <2>0, <2>2 DEF RejectProcess, StopProcess
    <3> QED BY <1>1, <1>2, <2>2, <3>1 DEF WorkerState
  <2> QED BY <1>6, <2>1, <2>2 DEF WorkerStep
<1> QED BY <1>3, <1>4, <1>5, <1>6 DEF WorkerStep

\* Every other step keeps the threads that start a process where they are and
\* creates no process.
LEMMA OtherProcess ==
  ASSUME TInv, NoCalls, ProcessInv, live' \subseteq live, UNCHANGED handle,
         \A a \in Actors : \/ worker'[a] = worker[a]
                           \/ {worker[a], worker'[a]} \cap {"starting", "confirming"} = {}
  PROVE  ProcessInv'
<1>1. \A a \in Actors : /\ worker'[a] = "starting" => worker[a] = "starting"
                        /\ worker'[a] = "confirming" <=> worker[a] = "confirming"
  OBVIOUS
<1> QED BY <1>1 DEF ProcessInv, NoOrphanProcess, Actors

LEMMA NextProcess ==
  ASSUME Never("cancel"), Never("crash"), TInv, LockInv, WorkerInv, ProcessInv, [Next]_vars
  PROVE  ProcessInv'
<1> SUFFICES ASSUME NoCalls' PROVE ProcessInv'
  BY DEF ProcessInv
<1>0. /\ NoCalls /\ ~Crash
      /\ \A o \in Calls : ~CallStep(o) /\ \A k \in CallKinds : ~CallBegin(o, k)
  BY CallsStay, NeverFaults DEF TInv, FaultKinds, Crash
<1>1. ASSUME NEW t \in Tasks, JobStep(t)
      PROVE  ProcessInv'
  <2>1. UNCHANGED <<live, handle>>
    BY <1>1 DEF JobStep, Acquire, ReadProject, MarkDeploying, CheckedOut, Resolve, Launched,
                ApplyProxy, Settle, Raise, machine
  <2>2. \/ UNCHANGED worker
        \/ /\ worker[t] \in {"none"} \cup Back
           /\ \E w \in {"none", "checkout", "clearing"} : worker' = [worker EXCEPT ![t] = w]
    <3>1. CASE MarkDeploying(t) \/ Resolve(t)
      <4>1. worker[t] = "none"
        BY <3>1, NoWorker DEF MarkDeploying, Resolve, Scheduled
      <4> QED BY <3>1, <4>1 DEF MarkDeploying, Resolve
    <3>2. CASE ~(MarkDeploying(t) \/ Resolve(t))
      BY <1>1, <3>2 DEF JobStep, Acquire, ReadProject, CheckedOut, Launched, ApplyProxy,
                        Settle, Raise, Back
    <3> QED BY <3>1, <3>2
  <2>3. \A a \in Actors : \/ worker'[a] = worker[a]
                          \/ {worker[a], worker'[a]} \cap {"starting", "confirming"} = {}
    BY <2>2 DEF TInv, TypeOK, Back
  <2> QED BY <1>0, <2>1, <2>3, OtherProcess
<1>2. ASSUME NEW a \in Actors, WorkerStep(a)
      PROVE  ProcessInv'
  BY <1>0, <1>2, WorkerProcess
<1>3. CASE ProcessExit
  BY <1>0, <1>3, OtherProcess DEF ProcessExit
<1>4. CASE \/ \E c \in Callers, sha \in Commits \cup {None} : IssueCheck(c, sha)
           \/ \E c \in Callers : IssueAborted(c)
           \/ \E c \in Callers, r \in Runs : IssueInsert(c, r)
           \/ \E c \in Callers : IssueSpawn(c)
           \/ CancelDeploy \/ \E r \in Runs : ClearSlot(r)
           \/ \E r \in Runs : RunStep(r)
           \/ Quiet \/ UNCHANGED vars
  <2>1. UNCHANGED <<worker, live, handle>>
    BY <1>4 DEF IssueCheck, IssueAborted, IssueInsert, IssueSpawn, CancelDeploy, ClearSlot, RunStep,
                Begin,
                Judge, Record, FinishRun, Publish, RecordAbort, Deliver, Quiet, vars, machine
  <2> QED BY <1>0, <2>1, OtherProcess
<1> QED BY <1>0, <1>1, <1>2, <1>3, <1>4 DEF Next

LEMMA NextRunning ==
  ASSUME Never("cancel"), Never("crash"), Never("exit"), TInv, LockInv, RunInv, CalmInv,
         WorkerInv, ProcessInv, RunningInv, [Next]_vars
  PROVE  RunningInv'
<1> SUFFICES ASSUME NoCalls' PROVE RunningInv'
  BY DEF RunningInv
<1>0. /\ NoCalls /\ ~Crash /\ ~ProcessExit
      /\ \A o \in Calls : ~CallStep(o) /\ \A k \in CallKinds : ~CallBegin(o, k)
  BY CallsStay, NeverFaults DEF TInv, FaultKinds, Crash, ProcessExit
<1>t. /\ pc \in [Tasks -> PCs] /\ worker \in [Actors -> WorkerState]
      /\ Tasks \subseteq Actors /\ Runs \subseteq Tasks
  BY DEF TInv, TypeOK, Tasks, Actors
<1> USE DEF RunningInv, RunningIsLive
<1>1. ASSUME NEW t \in Tasks, JobStep(t)
      PROVE  RunningInv'
  <2> USE DEF Go, Scheduled, Leave, db, machine
  <2>1. CASE Acquire(t) \/ ReadProject(t) \/ ApplyProxy(t) \/ Raise(t)
    <3>1. UNCHANGED <<live, handle, status>>
      BY <2>1 DEF Acquire, ReadProject, ApplyProxy, Raise
    <3>2. \E l \in {"read", "mark", "judge", "done", "failing"} : pc' = [pc EXCEPT ![t] = l]
      BY <2>1 DEF Acquire, ReadProject, ApplyProxy, Raise, OnRaise
    <3>3. \A a \in Actors \ {t} : worker'[a] = worker[a]
      BY <2>1, <1>t DEF Acquire, ReadProject, ApplyProxy, Raise
    <3> QED BY <1>0, <1>t, <3>1, <3>2, <3>3
  <2>2. CASE MarkDeploying(t)
    <3>1. status' # "running" /\ UNCHANGED <<live, handle>>
      BY <2>2 DEF MarkDeploying, SetStatus
    <3>2. \A s \in Tasks : pc'[s] = "launch" /\ worker'[s] = "ok"
                              => pc[s] = "launch" /\ worker[s] = "ok"
      BY <2>2, <1>t DEF MarkDeploying
    <3> QED BY <1>0, <3>1, <3>2
  <2>3. CASE CheckedOut(t) \/ Resolve(t)
    <3>1. UNCHANGED <<live, handle, status>>
      BY <2>3 DEF CheckedOut, Resolve
    <3>2. pc[t] \in {"checkout", "resolve"}
      BY <2>3 DEF CheckedOut, Resolve
    <3>3. status # "running"
      BY <1>0, <3>2
    <3>4. \A s \in Tasks : pc'[s] = "launch" /\ worker'[s] = "ok"
                              => pc[s] = "launch" /\ worker[s] = "ok"
      BY <2>3, <1>t DEF CheckedOut, Resolve
    <3> QED BY <1>0, <3>1, <3>3, <3>4
  <2>4. CASE Launched(t)
    <3>1. \A s \in Tasks : pc'[s] \notin {"checkout", "resolve", "launch"}
      <4>1. \A s \in Tasks \ {t} : pc[s] \notin Critical
        BY <2>4 DEF Launched, LockInv, Critical
      <4> QED BY <2>4, <1>t, <4>1 DEF Launched, Critical
    <3>2. UNCHANGED <<live, handle>> /\ (status' = "running" => handle \in live)
      BY <1>0, <2>4 DEF Launched, SetStatus, LaunchStatus
    <3> QED BY <3>1, <3>2
  <2>5. CASE Settle(t)
    <3>1. status' # "running" /\ UNCHANGED <<live, handle, worker>>
      BY <2>5 DEF Settle, SetStatus, TInv, LocalInv
    <3>2. \E l \in {"done", "judge"} : pc' = [pc EXCEPT ![t] = l]
      BY <2>5 DEF Settle
    <3> QED BY <1>0, <1>t, <3>1, <3>2
  <2> QED BY <1>1, <2>1, <2>2, <2>3, <2>4, <2>5 DEF JobStep
<1>2. ASSUME NEW a \in Actors, WorkerStep(a)
      PROVE  RunningInv'
  <2>1. /\ a \in Tasks /\ UNCHANGED <<status, pc>>
        /\ pc[a] \in {"checkout", "launch"}
        /\ \A b \in Actors \ {a} : worker[b] = "none"
    BY <1>0, <1>2, OneThread DEF WorkerStep, db
  <2>2. status # "running"
    BY <1>0, <2>1
  <2>3. CASE worker'[a] = "ok" /\ pc[a] = "launch"
    <3>1. worker[a] = "confirming"
      BY <1>2, <1>t, <2>1, <2>3 DEF WorkerStep, WorkerInv, Back
    <3>2. ConfirmProcess(a) /\ (DeployType = "docker" => handle = a)
      BY <1>0, <1>2, <1>t, <2>1, <2>3, <3>1 DEF WorkerStep, ProcessInv
    <3>3. handle' \in live'
      BY <3>2 DEF ConfirmProcess
    <3> QED BY <2>1, <2>2, <3>3
  <2>4. CASE ~(worker'[a] = "ok" /\ pc[a] = "launch")
    <3>1. \A b \in Actors \ {a} : worker'[b] = worker[b]
      BY <1>2, <1>t DEF WorkerStep
    <3> QED BY <1>t, <2>1, <2>2, <2>4, <3>1
  <2> QED BY <2>3, <2>4
<1>3. ASSUME NEW r \in Runs, RunStep(r)
      PROVE  RunningInv'
  <2>1. UNCHANGED <<worker, live, handle>> /\ (status' = "running" => status = "running")
    BY <1>3 DEF RunStep, Begin, Judge, Record, FinishRun, Publish, RecordAbort, CalmInv,
                Deliver, SetStatus, db, machine
  <2>2. \E l \in {"acquire", "record", "finish", "publish", "done", "leaving"} :
           pc' = [pc EXCEPT ![r] = l]
    BY <1>3 DEF RunStep, Begin, Judge, Record, FinishRun, Publish, RecordAbort, CalmInv,
                Deliver, Go
  <2> QED BY <1>0, <1>t, <2>1, <2>2
<1>4. ASSUME NEW c \in Callers, IssueSpawn(c)
      PROVE  RunningInv'
  <2>1. PICK r \in Tasks : r = caller[c].run
    BY <1>4 DEF IssueSpawn, TInv, LocalInv, Tasks
  <2>2. UNCHANGED <<status, worker, live, handle>> /\ pc' = [pc EXCEPT ![r] = "begin"]
    BY <1>4, <2>1 DEF IssueSpawn, Go, db, machine
  <2> QED BY <1>0, <1>t, <2>2
<1>5. CASE \/ \E c \in Callers, sha \in Commits \cup {None} : IssueCheck(c, sha)
           \/ \E c \in Callers : IssueAborted(c)
           \/ \E c \in Callers, r \in Runs : IssueInsert(c, r)
           \/ CancelDeploy \/ \E r \in Runs : ClearSlot(r)
           \/ Quiet \/ UNCHANGED vars
  <2>1. UNCHANGED <<status, pc, worker, live, handle>>
    BY <1>5 DEF IssueCheck, IssueAborted, IssueInsert, CancelDeploy, ClearSlot, Quiet, vars, db, machine
  <2> QED BY <1>0, <2>1
<1> QED BY <1>0, <1>1, <1>2, <1>3, <1>4, <1>5 DEF Next

\* No process escapes and "running" is never a lie: without cancellations,
\* restarts, exits of the service and lifecycle calls, and even when handlers
\* of issue_deploy overlap and deploys raise, what is alive is what the pid
\* file or container name reaches, or is about to, and the status "running"
\* has it.
THEOREM ProcessesKept ==
  ASSUME Never("cancel"), Never("crash"), Never("exit")
  PROVE  Spec => [](NoCalls => ProcessesTracked)
<1> DEFINE IInv == TInv /\ LockInv /\ RunInv /\ CalmInv /\ WorkerInv /\ ProcessInv /\ RunningInv
<1>1. Init => IInv
  BY InitTyped, InitLocked, InitHistory, InitOpen, InitWorker, InitProcess
<1>2. IInv /\ [Next]_vars => IInv'
  BY NextTyped, NextLocked, NextHistory, NextCalm, NextWorker, NextProcess, NextRunning
<1>3. IInv => (NoCalls => ProcessesTracked)
  BY DEF ProcessInv, RunningInv, ProcessesTracked
<1> QED BY <1>1, <1>2, <1>3, PTL DEF Spec

\* No process escapes when the service exits by itself either.
THEOREM NoneEscapes ==
  ASSUME Never("cancel"), Never("crash")
  PROVE  Spec => [](NoCalls => NoOrphanProcess)
<1> DEFINE IInv == TInv /\ LockInv /\ RunInv /\ CalmInv /\ WorkerInv /\ ProcessInv
<1>1. Init => IInv
  BY InitTyped, InitLocked, InitHistory, InitOpen, InitWorker, InitProcess
<1>2. IInv /\ [Next]_vars => IInv'
  BY NextTyped, NextLocked, NextHistory, NextCalm, NextWorker, NextProcess
<1>3. IInv => (NoCalls => NoOrphanProcess)
  BY DEF ProcessInv
<1> QED BY <1>1, <1>2, <1>3, PTL DEF Spec
-----------------------------------------------------------------------------
(* The lock is never lost *)

\* A held lock has a task inside "async with", and a task that waits is in
\* the order of arrival.
HeldInv == lock # None => lock \in Tasks /\ pc[lock] \in Critical

ArrivedInv == \A t \in Tasks : Waiting(t) => \E i \in 1..Len(arrived) : arrived[i] = t

LEMMA NextHeld ==
  ASSUME TInv, RunInv, HeldInv, ArrivedInv, [Next]_vars
  PROVE  HeldInv' /\ ArrivedInv'
<1>t. /\ pc \in [Tasks -> PCs] /\ Runs \subseteq Tasks /\ None \notin Tasks
      /\ arrived \in Seq(Tasks)
  BY DEF TInv, TypeOK, Tasks
<1> USE DEF HeldInv, ArrivedInv, Waiting
<1>1. ASSUME NEW t \in Tasks, JobStep(t)
      PROVE  HeldInv' /\ ArrivedInv'
  <2>1. PICK l \in Places : JobMove(t, l)
    BY <1>1, JobMoves
  <2>2. UNCHANGED arrived
    BY <1>1 DEF JobStep, Acquire, ReadProject, MarkDeploying, CheckedOut, Resolve, Launched,
                ApplyProxy, Settle, Raise, sched
  <2> QED BY <1>t, <2>1, <2>2 DEF JobMove
<1>2. ASSUME NEW r \in Runs, RunStep(r)
      PROVE  HeldInv' /\ ArrivedInv'
  <2>1. CASE Begin(r)
    <3>1. pc[r] \notin Critical /\ UNCHANGED lock /\ pc' = [pc EXCEPT ![r] = "acquire"]
      BY <2>1 DEF Begin, Scheduled, Go, Critical
    <3>2. arrived' = Append(arrived, r)
      BY <2>1 DEF Begin
    <3>3. /\ Len(arrived') = Len(arrived) + 1 /\ arrived'[Len(arrived) + 1] = r
          /\ \A i \in 1..Len(arrived) : arrived'[i] = arrived[i]
      BY <1>t, <3>2
    <3>4. ArrivedInv'
      <4> SUFFICES ASSUME NEW t \in Tasks, Waiting(t)'
                   PROVE  \E i \in 1..Len(arrived') : arrived'[i] = t
        OBVIOUS
      <4>1. Len(arrived) \in Nat
        BY <1>t
      <4>2. CASE t = r
        BY <3>3, <4>1, <4>2
      <4>3. CASE t # r
        <5>1. PICK i \in 1..Len(arrived) : arrived[i] = t
          BY <1>t, <3>1, <4>3
        <5>2. i \in 1..Len(arrived') /\ arrived'[i] = t
          BY <3>3, <4>1, <5>1
        <5> QED BY <5>2
      <4> QED BY <4>2, <4>3
    <3> QED BY <1>t, <3>1, <3>4
  <2>2. CASE Deliver(r)
    <3>1. UNCHANGED arrived /\ lock' = IF lock = r THEN None ELSE lock
      BY <2>2 DEF Deliver, Unlock
    <3>2. PICK l \in {"cancelling", "done"} : pc' = [pc EXCEPT ![r] = l]
      BY <2>2 DEF Deliver, Go, OnCancel
    <3> QED BY <1>t, <3>1, <3>2
  <2>3. CASE ~Begin(r) /\ ~Deliver(r)
    <3>1. UNCHANGED <<arrived, lock>> /\ pc[r] \notin Critical
      BY <1>2, <2>3 DEF RunStep, Judge, Record, FinishRun, Publish, RecordAbort, Scheduled,
                        Critical, sched
    <3>2. \E l \in PCs \ {"acquire"} : pc' = [pc EXCEPT ![r] = l]
      BY <1>2, <2>3 DEF RunStep, Judge, Record, FinishRun, Publish, RecordAbort, Go, PCs, Body,
                        Except
    <3> QED BY <1>t, <3>1, <3>2
  <2> QED BY <2>1, <2>2, <2>3
<1>3. ASSUME NEW c \in Callers, IssueSpawn(c)
      PROVE  HeldInv' /\ ArrivedInv'
  <2>1. PICK r \in Runs : r = caller[c].run
    BY <1>3 DEF IssueSpawn, TInv, LocalInv
  <2>2. pc[r] = "idle" /\ pc' = [pc EXCEPT ![r] = "begin"] /\ UNCHANGED <<lock, arrived>>
    BY <1>3, <2>1 DEF IssueSpawn, Go, RunInv
  <2> QED BY <1>t, <2>2 DEF Critical
<1>4. CASE Crash
  BY <1>4 DEF Crash
<1>5. CASE UNCHANGED <<pc, lock, arrived>>
  BY <1>5
<1>6. CASE \/ \E c \in Callers, sha \in Commits \cup {None} : IssueCheck(c, sha)
           \/ \E c \in Callers : IssueAborted(c)
           \/ \E c \in Callers, r \in Runs : IssueInsert(c, r)
           \/ CancelDeploy \/ \E r \in Runs : ClearSlot(r)
           \/ \E a \in Actors : WorkerStep(a)
           \/ ProcessExit \/ Quiet \/ UNCHANGED vars
  <2>1. UNCHANGED <<pc, lock, arrived>>
    BY <1>6 DEF IssueCheck, IssueAborted, IssueInsert, CancelDeploy, ClearSlot, WorkerStep,
                ProcessExit,
                Quiet, vars, sched
  <2> QED BY <1>5, <2>1
<1>7. ASSUME NEW o \in Calls, CallStep(o) \/ \E k \in CallKinds : CallBegin(o, k)
      PROVE  HeldInv' /\ ArrivedInv'
  <2>1. UNCHANGED <<pc, lock, arrived>>
    BY <1>7 DEF CallStep, CallBegin, CallStop, CallPull, CallLaunched, CallWrite, CallDelete, sched
  <2> QED BY <1>5, <2>1
<1> QED BY <1>1, <1>2, <1>3, <1>4, <1>6, <1>7 DEF Next

\* Numbers are well-founded: a set of them has a smallest one.
Less == OpToRel(<, Nat)

LEMMA HasLeast ==
  ASSUME NEW T \in SUBSET Nat, T # {}
  PROVE  \E x \in T : \A y \in T : x <= y
<1>1. IsWellFoundedOn(Less, Nat)
  BY NatLessThanWellFounded DEF OpToRel, Less
<1>2. PICK x \in T : \A y \in T : <<y, x>> \notin Less
  BY <1>1, WFMin
<1>3. ASSUME NEW y \in T PROVE x <= y
  <2>1. x \in Nat /\ y \in Nat /\ <<y, x>> \notin Less
    BY <1>2
  <2> QED BY <2>1 DEF OpToRel, Less
<1> QED BY <1>3

\* Nobody waits for a lock that nobody can give: it is held by a task that is
\* still inside, or free for the first of those that wait.
LockServes ==
    /\ lock # None => pc[lock] \in Critical
    /\ lock = None /\ (\E t \in Tasks : Waiting(t)) =>
          \E t \in Tasks : /\ Waiting(t)
                           /\ \A s \in Tasks \ {t} : Waiting(s) => Position(t) < Position(s)

LEMMA FirstOfWaiting ==
  ASSUME TInv, ArrivedInv, NEW u \in Tasks, Waiting(u)
  PROVE  \E t \in Tasks : /\ Waiting(t)
                          /\ \A s \in Tasks \ {t} : Waiting(s) => Position(t) < Position(s)
<1> DEFINE Places0 == {i \in 1..Len(arrived) : \E t \in Tasks : Waiting(t) /\ i = Position(t)}
<1>1. ASSUME NEW t \in Tasks, Waiting(t)
      PROVE  Position(t) \in 1..Len(arrived) /\ arrived[Position(t)] = t
  BY <1>1 DEF ArrivedInv, Position
<1>2. Places0 \in SUBSET Nat /\ Places0 # {}
  BY <1>1 DEF TInv, TypeOK
<1>3. PICK p \in Places0 : \A q \in Places0 : p <= q
  BY <1>2, HasLeast
<1>4. PICK t \in Tasks : Waiting(t) /\ p = Position(t)
  BY <1>3
<1>5. ASSUME NEW s \in Tasks \ {t}, Waiting(s)
      PROVE  Position(t) < Position(s)
  <2>1. Position(s) \in Places0 /\ arrived[Position(s)] = s
    BY <1>1, <1>5
  <2>2. p <= Position(s) /\ p # Position(s)
    BY <1>1, <1>3, <1>4, <2>1
  <2>3. p \in Nat /\ Position(s) \in Nat
    BY <1>2, <2>1
  <2> QED BY <1>4, <2>2, <2>3
<1> QED BY <1>4, <1>5

\* The safety half of RunsSettle: through cancellations, exceptions and
\* restarts, with handlers that overlap, the project's lock is never left
\* behind by a task that is gone, and it always has a next holder.
THEOREM LockIsServed == Spec => []LockServes
<1>1. Init => TInv /\ RunInv /\ HeldInv /\ ArrivedInv
  <2>1. Init => ArrivedInv
    <3> SUFFICES ASSUME Init PROVE ArrivedInv
      OBVIOUS
    <3>1. PICK now \in DeployNow :
             /\ pc = [t \in Tasks |-> IF now /\ t = Initial THEN "acquire" ELSE "idle"]
             /\ arrived = IF now THEN <<Initial>> ELSE <<>>
      BY DEF Init
    <3>2. CASE now
      BY <3>1, <3>2 DEF ArrivedInv, Waiting
    <3>3. CASE ~now
      BY <3>1, <3>3 DEF ArrivedInv, Waiting
    <3> QED BY <3>2, <3>3
  <2>2. Init => HeldInv
    BY DEF Init, HeldInv
  <2> QED BY <2>1, <2>2, InitTyped, InitHistory
<1>2. TInv /\ RunInv /\ HeldInv /\ ArrivedInv /\ [Next]_vars
         => (TInv /\ RunInv /\ HeldInv /\ ArrivedInv)'
  BY NextTyped, NextHistory, NextHeld
<1>3. TInv /\ HeldInv /\ ArrivedInv => LockServes
  BY FirstOfWaiting DEF LockServes, HeldInv
<1> QED BY <1>1, <1>2, <1>3, PTL DEF Spec
=============================================================================
