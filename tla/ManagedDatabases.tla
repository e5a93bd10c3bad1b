--------------------------- MODULE ManagedDatabases ---------------------------
(***************************************************************************)
(* The lifecycle of one managed database (syte/platform/database_runtime.py *)
(* and the database routes of syte/platform_api.py): a row of              *)
(* platform_databases, a container and a named volume that outlives it.    *)
(* Every docker command is awaited in a thread, no lock is taken, and the  *)
(* row that a call works with is the one it read at its start.  Any of the *)
(* commands may fail, with its effect or without, as when the daemon does  *)
(* not answer, and most of the results are not looked at.                  *)
(***************************************************************************)
EXTENDS Naturals, FiniteSets

CONSTANTS
    DbCalls,      \* calls of the routes
    DbKinds       \* what a call may be

ASSUME DatabasesAssumption ==
    /\ IsFiniteSet(DbCalls)
    /\ DbKinds \subseteq {"create", "start", "stop", "delete", "wipe"}

VARIABLES
    dbRow,        \* the row: absent, or its status column
    container,    \* what docker knows under the name of the database
    volume,       \* generation of the data in its volume; 0 if there is none
    dbCall,       \* each call: kind, and the step it is about to take
    stale,        \* history: a start was under way after the last check of a deletion
    wiped,        \* history: a deletion that includes the volume was asked for
    unanswered    \* history: the last check of a deletion failed on a container that
                  \* was there, which counts as gone

dbVars == <<dbRow, container, volume, dbCall, stale, wiped, unanswered>>

Present == dbRow # "absent"

DbTypeOK ==
    /\ dbRow \in {"absent", "stopped", "running", "error"}
    /\ container \in {"none", "stopped", "running"}
    /\ volume \in 0..Cardinality(DbCalls)
    /\ dbCall \in [DbCalls -> [kind : DbKinds \cup {"none"},
                               pc : {"new", "network", "inspect", "up", "volume", "run", "down",
                                     "rm", "data", "gone", "drop", "ok", "broken", "stopped",
                                     "done"}]]
    /\ stale \in BOOLEAN /\ wiped \in BOOLEAN /\ unanswered \in BOOLEAN

DbInit ==
    /\ dbRow = "absent" /\ container = "none" /\ volume = 0
    /\ dbCall = [c \in DbCalls |-> [kind |-> "none", pc |-> "new"]]
    /\ stale = FALSE /\ wiped = FALSE /\ unanswered = FALSE

-----------------------------------------------------------------------------
DbAt(c, pc) == dbCall[c].pc = pc
DbGoto(c, pc) == dbCall' = [dbCall EXCEPT ![c].pc = pc]

\* Calls that work with a row they have read.
Working == {c \in DbCalls : dbCall[c].pc \notin {"new", "done"}}
Starting == {c \in Working : dbCall[c].kind \in {"create", "start"}}
Deleting == {c \in Working : dbCall[c].kind \in {"delete", "wipe"}}

FirstStep == [create |-> "network", start |-> "network", stop |-> "down", delete |-> "rm",
              wipe |-> "rm"]

\* create_database inserts the row and starts it; the others answer 404
\* without a row.
BeginDb(c, kind) ==
    /\ DbAt(c, "new")
    /\ (kind = "create") = ~Present
    /\ kind = "create" => \A d \in DbCalls : dbCall[d].kind # "create"
    /\ dbRow' = IF kind = "create" THEN "stopped" ELSE dbRow
    /\ dbCall' = [dbCall EXCEPT ![c] = [kind |-> kind, pc |-> FirstStep[kind]]]
    /\ wiped' = (wiped \/ kind = "wipe")
    /\ stale' = (stale \/ (kind = "start" /\ \E d \in DbCalls : DbAt(d, "drop")))
    /\ UNCHANGED <<container, volume, unanswered>>

\* ensure_network
EnsureNetwork(c) ==
    /\ DbAt(c, "network")
    /\ DbGoto(c, "inspect") \/ DbGoto(c, "done")
    /\ UNCHANGED <<dbRow, container, volume, stale, wiped, unanswered>>

NextStart == IF container # "none" THEN "up" ELSE "volume"

\* An inspect that fails means that there is no container.
InspectContainer(c) ==
    /\ DbAt(c, "inspect")
    /\ DbGoto(c, NextStart) \/ DbGoto(c, "volume")
    /\ UNCHANGED <<dbRow, container, volume, stale, wiped, unanswered>>

\* docker start: fails without a container, or for reasons of its own.
DockerStart(c) ==
    /\ DbAt(c, "up")
    /\ \/ /\ container # "none" /\ container' = "running"
          /\ DbGoto(c, "ok") \/ DbGoto(c, "broken")
       \/ DbGoto(c, "broken") /\ UNCHANGED container
    /\ UNCHANGED <<dbRow, volume, stale, wiped, unanswered>>

\* A generation of data that no earlier volume had.
WithVolume(c) == IF volume # 0 THEN volume
                 ELSE 1 + Cardinality({d \in DbCalls : dbCall[d].kind = "wipe"})

\* Its result is not looked at.
VolumeCreate(c) ==
    /\ DbAt(c, "volume")
    /\ volume' \in {volume, WithVolume(c)}
    /\ DbGoto(c, "run")
    /\ UNCHANGED <<dbRow, container, stale, wiped, unanswered>>

\* docker run: the name must be free; the volume is created if it is missing.
\* A container whose command fails is left behind, stopped.
DockerRun(c) ==
    /\ DbAt(c, "run")
    /\ \/ /\ container = "none"
          /\ volume' = WithVolume(c)
          /\ \/ container' = "running" /\ DbGoto(c, "ok")
             \/ container' \in {"stopped", "running"} /\ DbGoto(c, "broken")
       \/ DbGoto(c, "broken") /\ UNCHANGED <<container, volume>>
    /\ UNCHANGED <<dbRow, stale, wiped, unanswered>>

\* docker stop: fails without a container.
DockerStop(c) ==
    /\ DbAt(c, "down")
    /\ \/ /\ container # "none" /\ container' = "stopped"
          /\ DbGoto(c, "stopped") \/ DbGoto(c, "done")
       \/ DbGoto(c, "done") /\ UNCHANGED container
    /\ UNCHANGED <<dbRow, volume, stale, wiped, unanswered>>

StatusOf == [ok |-> "running", broken |-> "error", stopped |-> "stopped"]

\* update reads the row first and leaves a row that is gone alone.
WriteDbStatus(c) ==
    /\ dbCall[c].pc \in DOMAIN StatusOf
    /\ dbRow' = IF Present THEN StatusOf[dbCall[c].pc] ELSE dbRow
    /\ DbGoto(c, "done")
    /\ UNCHANGED <<container, volume, stale, wiped, unanswered>>

\* (mutant) the volume goes with every deletion
AfterRemoveAll(kind) == "data"

AfterRemove(kind) == IF kind = "wipe" THEN "data" ELSE "gone"

\* docker rm -f; its result is not looked at.
DockerRemove(c) ==
    /\ DbAt(c, "rm")
    /\ container' \in {"none", container}
    /\ DbGoto(c, AfterRemove(dbCall[c].kind))
    /\ UNCHANGED <<dbRow, volume, stale, wiped, unanswered>>

\* docker volume rm refuses a volume in use; its result is not looked at.
VolumeRemove(c) ==
    /\ DbAt(c, "data")
    /\ volume' = volume \/ (container = "none" /\ volume' = 0)
    /\ DbGoto(c, "gone")
    /\ UNCHANGED <<dbRow, container, stale, wiped, unanswered>>

\* (mutant) the container is not looked for before the row is deleted
GoneUnchecked == TRUE

Gone == container = "none"

\* docker inspect: the row stays if it finds the container (502), and goes if
\* it fails, for whatever reason.
InspectGone(c) ==
    /\ DbAt(c, "gone")
    /\ \/ DbGoto(c, IF Gone THEN "drop" ELSE "done") /\ UNCHANGED unanswered
       \/ /\ DbGoto(c, "drop")
          /\ unanswered' = (unanswered \/ container # "none")
    /\ stale' = (stale \/ (DbAt(c, "drop")' /\ Starting # {}))
    /\ UNCHANGED <<dbRow, container, volume, wiped>>

DropRow(c) ==
    /\ DbAt(c, "drop")
    /\ dbRow' = "absent"
    /\ DbGoto(c, "done")
    /\ UNCHANGED <<container, volume, stale, wiped, unanswered>>

\* The restart policy brings a container back that dies, so only an operator
\* of docker stops one.
DbQuiet == Working = {} /\ UNCHANGED dbVars

DbStep(c) ==
    \/ EnsureNetwork(c) \/ InspectContainer(c) \/ DockerStart(c) \/ VolumeCreate(c)
    \/ DockerRun(c) \/ DockerStop(c) \/ WriteDbStatus(c) \/ DockerRemove(c)
    \/ VolumeRemove(c) \/ InspectGone(c) \/ DropRow(c)

DbNext ==
    \/ \E c \in DbCalls, k \in DbKinds : BeginDb(c, k)
    \/ \E c \in DbCalls : DbStep(c)
    \/ DbQuiet

DbSpec == DbInit /\ [][DbNext]_dbVars

-----------------------------------------------------------------------------
(* Properties *)

\* A container without a row, which no route can stop or delete any more, is
\* there only if a start was under way at the last check of a deletion or
\* after it, or if docker did not answer that check: the check catches every
\* start that is over by then, and a removal that failed.
NoOrphanContainer == container # "none" => Present \/ stale \/ unanswered

\* The data of a database survives start, stop, failures and a deletion that
\* does not include the volume: what runs, or is said to run, has its volume.
DataKept ==
    ~wiped /\ (container # "none" \/ dbRow = "running") => volume # 0

\* When nobody works on the database, a row that says running has its
\* container, whatever the order in which the statuses were written: the only
\* calls that remove the container drop the row or find it back.
RunningHasContainer ==
    Working = {} /\ dbRow = "running" => container # "none"

\* Container, row and volume of a database match: none is left over, and none
\* is missing.
ContainerMatchesRow == NoOrphanContainer /\ RunningHasContainer /\ DataKept

=============================================================================
