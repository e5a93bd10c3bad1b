----------------------------- MODULE Supervisor -----------------------------
(***************************************************************************)
(* The supervisor (syte/supervisor.py): every 30 seconds one pass over a   *)
(* snapshot of the projects table restarts the services that are recorded  *)
(* as running but whose process is gone, and gives up on those that keep   *)
(* failing.  Operators start, stop and remove services while a pass is     *)
(* under way; processes exit at any time; the server itself may restart,   *)
(* which loses the failure counters but neither rows nor processes.        *)
(***************************************************************************)
EXTENDS Naturals

CONSTANTS
    N,            \* number of projects, visited in the order 1..N
    OpKinds,      \* operator calls considered: "start", "stop", "remove"
    MaxOps,       \* bound on the number of operator calls
    MaxReboots    \* bound on the number of server restarts

ASSUME SupConstantsAssumption ==
    /\ N \in Nat \ {0}
    /\ OpKinds \subseteq {"start", "stop", "remove"}
    /\ MaxOps \in Nat
    /\ MaxReboots \in Nat

Projects == 1..N

VARIABLES
    status,    \* projects.status of each row, "deleted" if the row is gone
    alive,     \* whether the service's process (container) is alive
    fails,     \* _fail_counts, 0 for a missing key
    snap,      \* the rows list_projects returned to the current pass
    cursor,    \* project the pass visits next; 0 while the loop sleeps
    op,        \* operator call under way on each project
    ops,       \* operator calls made so far
    reboots,   \* server restarts so far
    attempts   \* history: restarts tried since the service was last alive or
               \* the server came up (4 stands for more than three)

supVars == <<status, alive, fails, snap, cursor, op, ops, reboots, attempts>>
operator == <<op, ops>>

Status == {"running", "stopped", "deleted"}

SupTypeOK ==
    /\ status \in [Projects -> Status]
    /\ alive \in [Projects -> BOOLEAN]
    /\ fails \in [Projects -> 0..3]
    /\ snap \in [Projects -> Status]
    /\ cursor \in 0..N
    /\ op \in [Projects -> {"idle", "stopping", "removing", "started", "failed"}]
    /\ ops \in 0..MaxOps
    /\ reboots \in 0..MaxReboots
    /\ attempts \in [Projects -> 0..4]

\* The server starts on a machine that may have been rebooted: services
\* recorded as running may or may not be alive.
SupInit ==
    /\ status \in [Projects -> {"running", "stopped"}]
    /\ alive \in [Projects -> BOOLEAN]
    /\ \A p \in Projects : alive[p] => status[p] = "running"
    /\ fails = [p \in Projects |-> 0]
    /\ snap = status
    /\ cursor = 0
    /\ op = [p \in Projects |-> "idle"]
    /\ ops = 0
    /\ reboots = 0
    /\ attempts = [p \in Projects |-> 0]

-----------------------------------------------------------------------------
(* maintain *)

\* list_projects: the pass works on this snapshot to its end.
BeginPass ==
    /\ cursor = 0
    /\ cursor' = 1
    /\ snap' = status
    /\ UNCHANGED <<status, alive, fails, reboots, operator, attempts>>

\* After the last project the previews are expired and the loop sleeps.
Advance == cursor' = IF cursor = N THEN 0 ELSE cursor + 1

\* update_project(pid, {"status": "stopped"}); the counter is dropped.
GiveUp(p) == /\ status' = [status EXCEPT ![p] = IF @ = "deleted" THEN @ ELSE "stopped"]
             /\ fails' = [fails EXCEPT ![p] = 0]

Skip ==
    /\ cursor # 0
    /\ snap[cursor] # "running"
    /\ Advance
    /\ UNCHANGED <<status, alive, fails, snap, reboots, operator, attempts>>

\* npm is missing and cannot be installed: the service is recorded as
\* stopped without a look at its process.
RuntimeMissing ==
    /\ cursor # 0
    /\ snap[cursor] = "running"
    /\ GiveUp(cursor)
    /\ Advance
    /\ UNCHANGED <<alive, snap, reboots, operator, attempts>>

SeenAlive ==
    /\ cursor # 0
    /\ snap[cursor] = "running"
    /\ alive[cursor]
    /\ fails' = [fails EXCEPT ![cursor] = 0]
    /\ Advance
    /\ UNCHANGED <<status, alive, snap, reboots, operator, attempts>>

Tried(p) == attempts' = [attempts EXCEPT ![p] = IF @ < 4 THEN @ + 1 ELSE 4]

Down(p) == p # 0 /\ snap[p] = "running" /\ ~alive[p]

\* (mutant) there is no limit on the attempts
NeverTooOften(p) == FALSE

TooOften(p) == fails[p] + 1 > 3

TooManyFailures ==
    /\ Down(cursor)
    /\ TooOften(cursor)
    /\ GiveUp(cursor)
    /\ Advance
    /\ UNCHANGED <<alive, snap, reboots, operator, attempts>>

RestartOK ==
    /\ Down(cursor)
    /\ ~TooOften(cursor)
    /\ alive' = [alive EXCEPT ![cursor] = TRUE]
    /\ fails' = [fails EXCEPT ![cursor] = 0]
    /\ attempts' = [attempts EXCEPT ![cursor] = 0]
    /\ Advance
    /\ UNCHANGED <<status, snap, reboots, operator>>

\* (mutant) one failure is enough
LastChanceFirst(p) == fails[p] + 1 >= 1

LastChance(p) == fails[p] + 1 >= 2

\* start_project returned False: the first failure is counted, the second
\* one ends the attempts.
RestartFailed ==
    /\ Down(cursor)
    /\ ~TooOften(cursor)
    /\ Tried(cursor)
    /\ \/ /\ LastChance(cursor)
          /\ GiveUp(cursor)
       \/ /\ ~LastChance(cursor)
          /\ fails' = [fails EXCEPT ![cursor] = @ + 1]
          /\ UNCHANGED status
    /\ Advance
    /\ UNCHANGED <<alive, snap, reboots, operator>>

\* (mutant) the failure that raised is not counted
RaiseUncounted == fails' = [fails EXCEPT ![cursor] = 0]

CountRaise == fails' = [fails EXCEPT ![cursor] = @ + 1]

\* start_project raised: maintain ends here, the rest of the projects is not
\* visited in this pass; supervisor_loop logs the error and sleeps.
RestartRaised ==
    /\ Down(cursor)
    /\ ~TooOften(cursor)
    /\ Tried(cursor)
    /\ CountRaise
    /\ cursor' = 0
    /\ UNCHANGED <<status, alive, snap, reboots, operator>>

-----------------------------------------------------------------------------
(* Operators: start_service, stop_service and remove_service run their     *)
(* thread first and write the row afterwards.                              *)

OpBegin(p, k, result) ==
    /\ op[p] = "idle"
    /\ status[p] # "deleted"
    /\ ops < MaxOps
    /\ ops' = ops + 1
    /\ op' = [op EXCEPT ![p] = result]
    /\ \/ /\ k = "start"
          /\ result \in {"started", "failed"}
          /\ alive' = [alive EXCEPT ![p] = (result = "started")]
          /\ attempts' = [attempts EXCEPT ![p] = 0]
       \/ /\ k = "stop"
          /\ result = "stopping"
          /\ alive' = [alive EXCEPT ![p] = FALSE]
          /\ UNCHANGED attempts
       \/ /\ k = "remove"
          /\ result = "removing"
          /\ alive' = [alive EXCEPT ![p] = FALSE]
          /\ UNCHANGED attempts
    /\ UNCHANGED <<status, fails, snap, cursor, reboots>>

OpWrite(p) ==
    /\ op[p] # "idle"
    /\ LET s == CASE op[p] = "started"  -> "running"
                  [] op[p] = "removing" -> "deleted"
                  [] OTHER -> "stopped"
       IN status' = [status EXCEPT ![p] = IF @ = "deleted" THEN @ ELSE s]
    /\ op' = [op EXCEPT ![p] = "idle"]
    /\ UNCHANGED <<alive, fails, snap, cursor, ops, reboots, attempts>>

(* The environment *)

ProcessExit(p) ==
    /\ alive[p]
    /\ alive' = [alive EXCEPT ![p] = FALSE]
    /\ UNCHANGED <<status, fails, snap, cursor, reboots, operator, attempts>>

Reboot ==
    /\ reboots < MaxReboots
    /\ reboots' = reboots + 1
    /\ fails' = [p \in Projects |-> 0]
    /\ cursor' = 0
    /\ op' = [p \in Projects |-> "idle"]
    /\ attempts' = [p \in Projects |-> 0]
    /\ UNCHANGED <<status, alive, snap, ops>>

-----------------------------------------------------------------------------
Visit == \/ Skip \/ RuntimeMissing \/ SeenAlive \/ TooManyFailures
         \/ RestartOK \/ RestartFailed \/ RestartRaised

SupNext ==
    \/ BeginPass
    \/ Visit
    \/ \E p \in Projects, k \in OpKinds, result \in {"started", "failed", "stopping", "removing"} :
          OpBegin(p, k, result)
    \/ \E p \in Projects : OpWrite(p) \/ ProcessExit(p)
    \/ Reboot

SupSpec == SupInit /\ [][SupNext]_supVars

\* supervisor_loop catches every exception and sleeps 30 seconds between
\* passes, so the passes go on; handlers that were started finish.
SupFairness == /\ WF_supVars(BeginPass)
            /\ WF_supVars(Visit)
            /\ \A p \in Projects : WF_supVars(OpWrite(p))

SupFairSpec == SupSpec /\ SupFairness

-----------------------------------------------------------------------------
(* Properties *)

\* "Keep ... deployed services ... running": a service that is recorded as
\* running but is down gets restarted or is given up.  In particular a
\* project whose start raises, and so ends every pass before the projects
\* after it, is given up in the end and cannot starve them.
Healed ==
    \A p \in Projects :
        []<>(status[p] = "running" => alive[p])

\* As long as no operator steps in, the supervisor does not restart a broken
\* service for ever: at most three attempts without the service coming up,
\* whether they fail or raise.
AttemptsBounded == ops = 0 => \A p \in Projects : attempts[p] <= 3

\* It does not give up on a service at the first failed restart either: a
\* restart that fails and ends with "stopped" was preceded by another one,
\* as long as no operator steps in.
SecondChance ==
    [][ops = 0 => \A p \in Projects :
          attempts'[p] = attempts[p] + 1 /\ status[p] = "running" /\ status'[p] = "stopped"
              => attempts[p] >= 1]_supVars
=============================================================================
