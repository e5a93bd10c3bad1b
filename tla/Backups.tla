------------------------------- MODULE Backups -------------------------------
(***************************************************************************)
(* Backup schedules of managed databases: the scheduler loop               *)
(* (syte/platform/backup_scheduler.py), execute_backup and restore_backup  *)
(* (syte/platform/backup_manager.py) and the backup routes of              *)
(* syte/platform_api.py.  Time is counted in minutes, the resolution of a  *)
(* cron expression.  Dumps run in threads; manual runs, the loop and the   *)
(* removal of a database interleave with them.                             *)
(***************************************************************************)
EXTENDS Naturals, Sequences, FiniteSets, SequencesExt, FiniteSetsExt

CONSTANTS
    Schedules,    \* rows of platform_backups
    Databases,
    DatabaseOf,   \* the database of each schedule
    Matching,     \* pairs <<d, e>>: the retention pattern of d matches files of e
    Frequency,    \* cron expression of each schedule: the tokens of its minute field
    Retention,    \* retention_amount_locally of each schedule
    SaveLocally,  \* schedules with save_locally
    Stored,       \* schedules with an S3 storage
    LastMinute,   \* bound on the clock
    MaxRuns       \* bound on executions

ASSUME BackupsAssumption ==
    /\ IsFiniteSet(Schedules) /\ DatabaseOf \in [Schedules -> Databases]
    /\ \A d \in Databases : <<d, d>> \in Matching
    /\ Retention \in [Schedules -> Nat \ {0}]
    /\ SaveLocally \subseteq Schedules /\ Stored \subseteq Schedules
    /\ LastMinute \in Nat \ {0} /\ MaxRuns \in Nat

VARIABLES
    minute,       \* the clock
    exists,       \* databases that have a row
    lastRun,      \* last_run_at of each schedule, in minutes; 0 is NULL
    execution,    \* rows of platform_backup_executions, in the order of insertion
    running,      \* executions whose coroutine is alive, and its next step
    files,        \* the directory: artifacts <<database, number of the name>>, and the
                  \* order of their modification times
    loop,         \* the scheduler: its current minute, the rows it has still to
                  \* visit, and the execution it waits for (0: none)
    wakes,        \* the first minute at which its next pass may begin
    newest,       \* history: the artifact of the newest dump of each database; 0: none
    served        \* history: the last minute in which the loop began each schedule
                  \* since the server started; 0: none

backupVars == <<minute, exists, lastRun, execution, running, files, loop, wakes, newest, served>>

Runs == 1..MaxRuns
Minutes == 0..LastMinute + 2
Idle == [current |-> 0, rows |-> <<>>, run |-> 0]

BackupsTypeOK ==
    /\ minute \in 1..LastMinute
    /\ exists \subseteq Databases
    /\ lastRun \in [Schedules -> Minutes]
    /\ execution \in Seq([schedule : Schedules, file : Runs,
                          status : {"running", "failed", "finished"}])
    /\ Len(execution) <= MaxRuns
    /\ running \in [Runs -> {"none", "dump", "upload", "prune", "write", "stamp"}]
    /\ DOMAIN files \subseteq Databases \X Runs
    /\ files \in [DOMAIN files -> Nat]
    /\ loop \in [current : Minutes, rows : Seq(Schedules \X Minutes), run : 0..MaxRuns]
    /\ wakes \in Minutes
    /\ newest \in [Databases -> 0..MaxRuns]
    /\ served \in [Schedules -> Minutes]

BackupsInit ==
    /\ minute = 1
    /\ exists = Databases
    /\ lastRun = [s \in Schedules |-> 0]
    /\ execution = <<>>
    /\ running = [x \in Runs |-> "none"]
    /\ files = [a \in {} |-> 0]
    /\ loop = Idle
    /\ wakes = 1
    /\ newest = [d \in Databases |-> 0]
    /\ served = [s \in Schedules |-> 0]

-----------------------------------------------------------------------------
(* cron_matches, for the minute field: a list of tokens *)

\* A token is <<"every", step>>, <<"at", minute>> or anything else, which
\* matches nothing (ranges and names are not understood).
TokenMatches(value, token) ==
    \/ token[1] = "every" /\ value % (IF token[2] = 0 THEN 1 ELSE token[2]) = 0
    \/ token[1] = "at" /\ value = token[2]

Due(s, m) == \E token \in Frequency[s] : TokenMatches(m, token)

-----------------------------------------------------------------------------
(* execute_backup *)

ScheduleOf(x) == execution[x].schedule
DatabaseRun(x) == DatabaseOf[ScheduleOf(x)]
FileOf(x) == <<DatabaseRun(x), execution[x].file>>
RunGoto(x, step) == running' = [running EXCEPT ![x] = step]

\* Names carry the second: runs of a database that begin in the same second
\* write to the same file.
NewExecution(s) ==
    /\ Len(execution) < MaxRuns
    /\ \E x \in {y \in DOMAIN execution : running[y] = "dump" /\ DatabaseRun(y) = DatabaseOf[s]}
             \cup {Len(execution) + 1} :
          execution' = Append(execution, [schedule |-> s, status |-> "running",
                                          file |-> IF x \in DOMAIN execution
                                                   THEN execution[x].file ELSE x])
    /\ running' = [running EXCEPT ![Len(execution) + 1] = "dump"]

Fail(x) ==
    /\ execution' = [execution EXCEPT ![x].status = "failed"]
    /\ RunGoto(x, "none")

\* A modification time after those of all artifacts.
Now == Max({files[a] : a \in DOMAIN files} \cup {0}) + 1

\* docker exec, then docker cp: the artifact is there only when both succeed.
Dump(x) ==
    /\ running[x] = "dump"
    /\ \/ Fail(x) /\ UNCHANGED <<files, newest>>
       \/ /\ DatabaseRun(x) \in exists
          /\ files' = [a \in DOMAIN files \cup {FileOf(x)} |->
                        IF a = FileOf(x) THEN Now ELSE files[a]]
          /\ newest' = [newest EXCEPT ![DatabaseRun(x)] = execution[x].file]
          /\ RunGoto(x, IF ScheduleOf(x) \in Stored THEN "upload" ELSE "prune")
          /\ UNCHANGED execution
    /\ UNCHANGED <<minute, exists, lastRun, loop, wakes, served>>

\* A failed upload ends the run; its artifact stays.
Upload(x) ==
    /\ running[x] = "upload"
    /\ \/ Fail(x)
       \/ RunGoto(x, "prune") /\ UNCHANGED execution
    /\ UNCHANGED <<minute, exists, lastRun, files, loop, wakes, newest, served>>

Kept(x) == ScheduleOf(x) \in SaveLocally

Matches(d, a) == <<d, a[1]>> \in Matching

\* (mutant) the oldest artifacts are kept
SurvivorsOldest(d, keep, all) ==
    {a \in all : Matches(d, a) =>
        Cardinality({b \in all : Matches(d, b) /\ files[b] <= files[a]}) <= keep}

\* The newest artifacts that match the pattern of the database, and all others.
Survivors(d, keep, all) ==
    {a \in all : Matches(d, a) =>
        Cardinality({b \in all : Matches(d, b) /\ files[b] >= files[a]}) <= keep}

\* Local copy and retention, between two awaits.
Prune(x) ==
    /\ running[x] = "prune"
    /\ LET saved == IF Kept(x) THEN DOMAIN files ELSE DOMAIN files \ {FileOf(x)} IN
       files' = Restrict(files, Survivors(DatabaseRun(x), Retention[ScheduleOf(x)], saved))
    /\ RunGoto(x, "write")
    /\ UNCHANGED <<minute, exists, lastRun, execution, loop, wakes, newest, served>>

WriteFinished(x) ==
    /\ running[x] = "write"
    /\ execution' = [execution EXCEPT ![x].status = "finished"]
    /\ RunGoto(x, "stamp")
    /\ UNCHANGED <<minute, exists, lastRun, files, loop, wakes, newest, served>>

\* last_run_at is set by a run that succeeded only.
Stamp(x) ==
    /\ running[x] = "stamp"
    /\ lastRun' = [lastRun EXCEPT ![ScheduleOf(x)] = minute]
    /\ RunGoto(x, "none")
    /\ UNCHANGED <<minute, exists, execution, files, loop, wakes, newest, served>>

\* run_backup: the route reads schedule and database and runs at once.
ManualRun(s) ==
    /\ DatabaseOf[s] \in exists
    /\ NewExecution(s)
    /\ UNCHANGED <<minute, exists, lastRun, files, loop, wakes, newest, served>>

\* delete_managed_database deletes the row of the database only.
DeleteDatabase(d) ==
    /\ d \in exists
    /\ exists' = exists \ {d}
    /\ UNCHANGED <<minute, lastRun, execution, running, files, loop, wakes, newest, served>>

-----------------------------------------------------------------------------
(* run_due_backups and its loop *)

\* One read of the table with the last_run_at of that moment.
BeginPass ==
    /\ loop = Idle /\ minute >= wakes
    /\ loop' = [current |-> minute, run |-> 0,
                rows |-> [i \in 1..Cardinality(Schedules) |->
                            <<SetToSeq(Schedules)[i], lastRun[SetToSeq(Schedules)[i]]>>]]
    /\ UNCHANGED <<minute, exists, lastRun, execution, running, files, wakes, newest, served>>

Skipped(s, last) == ~Due(s, loop.current) \/ last = loop.current

\* The first row that is not skipped decides: the database is gone, or a run.
VisitRow ==
    /\ loop.rows # <<>> /\ loop.run = 0
    /\ LET s == Head(loop.rows)[1]
           next == [loop EXCEPT !.rows = Tail(loop.rows)] IN
       \/ /\ Skipped(s, Head(loop.rows)[2])
          /\ loop' = next
          /\ UNCHANGED <<lastRun, execution, running, served>>
       \/ /\ ~Skipped(s, Head(loop.rows)[2]) /\ DatabaseOf[s] \notin exists
          /\ lastRun' = [lastRun EXCEPT ![s] = loop.current]
          /\ loop' = next
          /\ UNCHANGED <<execution, running, served>>
       \/ /\ ~Skipped(s, Head(loop.rows)[2]) /\ DatabaseOf[s] \in exists
          /\ NewExecution(s)
          /\ loop' = [next EXCEPT !.run = Len(execution) + 1]
          /\ served' = [served EXCEPT ![s] = loop.current]
          /\ UNCHANGED lastRun
    /\ UNCHANGED <<minute, exists, files, wakes, newest>>

\* The loop waits for its run before it visits the next schedule.
Resume ==
    /\ loop.run # 0 /\ running[loop.run] = "none"
    /\ loop' = [loop EXCEPT !.run = 0]
    /\ UNCHANGED <<minute, exists, lastRun, execution, running, files, wakes, newest, served>>

\* (mutant) the loop does not sleep
WakeNow(m) == m

\* Sixty seconds after the end of a pass.
Wake(m) == m + 1

EndPass ==
    /\ loop # Idle /\ loop.rows = <<>> /\ loop.run = 0
    /\ loop' = Idle
    /\ wakes' = Wake(minute)
    /\ UNCHANGED <<minute, exists, lastRun, execution, running, files, newest, served>>

Tick ==
    /\ minute < LastMinute
    /\ minute' = minute + 1
    /\ UNCHANGED <<exists, lastRun, execution, running, files, loop, wakes, newest, served>>

\* The server dies and starts again; executions of dead coroutines stay
\* "running", and the first pass begins at once.
Restart ==
    /\ loop # Idle \/ \E x \in Runs : running[x] # "none"
    /\ running' = [x \in Runs |-> "none"]
    /\ loop' = Idle /\ wakes' = minute
    /\ served' = [s \in Schedules |-> 0]
    /\ UNCHANGED <<minute, exists, lastRun, execution, files, newest>>

\* The bound on time or on runs is reached, or every step waits for the clock.
BackupsQuiet ==
    /\ minute = LastMinute \/ Len(execution) = MaxRuns
    /\ \A x \in Runs : running[x] = "none"
    /\ UNCHANGED backupVars

RunStep(x) == Dump(x) \/ Upload(x) \/ Prune(x) \/ WriteFinished(x) \/ Stamp(x)
LoopStep == BeginPass \/ VisitRow \/ Resume \/ EndPass

BackupsNext ==
    \/ \E x \in Runs : RunStep(x)
    \/ \E s \in Schedules : ManualRun(s)
    \/ \E d \in Databases : DeleteDatabase(d)
    \/ LoopStep \/ Tick \/ Restart \/ BackupsQuiet

BackupsSpec == BackupsInit /\ [][BackupsNext]_backupVars

-----------------------------------------------------------------------------
(* Properties *)

\* Databases whose files are pruned by their own schedules only, all of which
\* keep what they dump.
Own == {d \in Databases :
          /\ \A e \in Databases \ {d} : <<e, d>> \notin Matching /\ <<d, e>> \notin Matching
          /\ \A s \in Schedules : DatabaseOf[s] = d => s \in SaveLocally}

\* Whatever runs overlap, fail or die, with whatever retentions, the artifact
\* of the newest successful dump of a database is there to be restored, unless
\* its name and that of another database make the retention of one match the
\* files of the other, or a schedule of the database removes its artifacts.
NewestDumpKept == \A d \in Own : newest[d] # 0 => <<d, newest[d]>> \in DOMAIN files

\* The loop begins a schedule once in a minute at most, also when the run
\* failed and last_run_at does not show it.
OncePerMinute ==
    [][\A s \in Schedules :
         loop.run = 0 /\ loop'.run # 0 /\ ScheduleOf(loop.run)' = s
         => loop.current # served[s]]_backupVars

=============================================================================
