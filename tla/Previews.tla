------------------------------- MODULE Previews -------------------------------
(***************************************************************************)
(* Development previews (syte/preview_manager.py): every project gets a    *)
(* stable port, and a preview process that start_preview, stop_preview,    *)
(* the status query and the expiry pass of the supervisor find through one *)
(* pid file per project.  The pid is written only when the process listens *)
(* or after twenty seconds, and nothing serialises the calls.  The calls   *)
(* of the agent run in the task of its turn, and stop_session cancels it   *)
(* at whatever await it has reached.                                       *)
(***************************************************************************)
EXTENDS Integers, FiniteSets

CONSTANTS
    Apps,         \* projects
    Calls,        \* calls of users and of the agent
    Removals,     \* those that may remove a project
    Kinds,        \* what a call may do: "start", "stop", "status", "remove"
    LastPort,     \* preview ports are 1..LastPort (4000-4999)
    MaxProcs      \* bound on the preview processes ever started

ASSUME PreviewsAssumption ==
    /\ Apps # {} /\ Kinds \subseteq {"start", "stop", "status", "remove"}
    /\ LastPort \in Nat \ {0} /\ MaxProcs \in Nat \ {0}

Procs == 1..MaxProcs
Ports == 1..LastPort

VARIABLES
    row,      \* the columns of projects: whether the row exists, preview_port (0 is
              \* NULL), preview_status, and preview_started_at as its age
    settled,  \* whether 45 seconds have passed since updated_at
    pid,      \* the pid file of each project; 0 if there is none
    proc,     \* preview processes: project, port and state
    user,     \* each call: kind, project, where it is suspended, and what it holds
    pass,     \* the expiry pass: the rows it read, the projects it has yet to
              \* visit, and the one whose status it is about to write
    races,    \* history: projects on which two calls, or a call and the expiry
              \* pass, worked at the same time
    clashes,  \* history: whether two calls allocated a port at the same time
    orphans,  \* history: processes whose start was cancelled before the pid was written
    undated   \* history: projects whose start was cancelled after that and before the
              \* row was, until the next write that sets or clears the time

cuts == <<orphans, undated>>
prevVars == <<row, settled, pid, proc, user, pass, races, clashes, cuts>>

Ages == {"none", "young", "old"}
Statuses == {"stopped", "starting", "running"}
Row == [present : BOOLEAN, port : Ports \cup {0}, status : Statuses, age : Ages]
ProcStates == {"unused", "up", "listening", "dying", "gone"}
Call == [kind : Kinds \cup {"none"}, app : Apps, proc : 0..MaxProcs, next : Statuses,
         port : Ports \cup {0}, status : Statuses,
         pc : {"new", "read", "pick", "store", "decide", "spawn", "wait", "publish", "write",
               "kill", "stopped", "delete", "done"}]

PrevTypeOK ==
    /\ row \in [Apps -> Row]
    /\ settled \in [Apps -> BOOLEAN]
    /\ pid \in [Apps -> 0..MaxProcs]
    /\ proc \in [Procs -> [app : Apps, port : Ports \cup {0}, state : ProcStates]]
    /\ \A k \in Procs : proc[k].state \in {"up", "listening", "dying"} => proc[k].port \in Ports
    /\ user \in [Calls -> Call]
    /\ pass \in [rows : [Apps -> Row], left : SUBSET Apps, writes : SUBSET Apps]
    /\ races \subseteq Apps
    /\ clashes \in BOOLEAN
    /\ orphans \subseteq Procs
    /\ undated \subseteq Apps

NewRow == [present |-> TRUE, port |-> 0, status |-> "stopped", age |-> "none"]
SomeApp == CHOOSE a \in Apps : TRUE
NoProc(s) == [app |-> SomeApp, port |-> 0, state |-> s]
NewCall == [kind |-> "none", app |-> SomeApp, proc |-> 0, next |-> "stopped", port |-> 0,
            status |-> "stopped", pc |-> "new"]
NewPass == [rows |-> [a \in Apps |-> NewRow], left |-> {}, writes |-> {}]

PrevInit ==
    /\ row = [a \in Apps |-> NewRow]
    /\ settled = [a \in Apps |-> FALSE]
    /\ pid = [a \in Apps |-> 0]
    /\ proc = [k \in Procs |-> NoProc("unused")]
    /\ user = [c \in Calls |-> NewCall]
    /\ pass = NewPass
    /\ races = {}
    /\ clashes = FALSE
    /\ orphans = {}
    /\ undated = {}

-----------------------------------------------------------------------------
(* Processes and the pid file *)

Alive(k) == proc[k].state \in {"up", "listening", "dying"}
Listening(p) == \E k \in Procs : Alive(k) /\ proc[k].port = p /\ proc[k].state # "up"

\* is_preview_running without the removal of a stale file.
Running(a) == pid[a] # 0 /\ Alive(pid[a])

\* The effect of is_preview_running on the pid file.
Checked(a) == IF Running(a) THEN pid ELSE [pid EXCEPT ![a] = 0]

\* (mutant) the pid file is removed, and the process goes on
KillForgets(a) == pid' = [pid EXCEPT ![a] = 0] /\ UNCHANGED proc

\* stop_preview: SIGTERM to the process group in the pid file; a server that is
\* shutting down may go on listening for a while.
Kill(a) ==
    /\ pid' = [pid EXCEPT ![a] = 0]
    /\ proc' = IF Running(a) /\ proc[pid[a]].state = "listening"
               THEN [proc EXCEPT ![pid[a]].state = "dying"]
               ELSE IF Running(a) /\ proc[pid[a]].state = "up"
               THEN [proc EXCEPT ![pid[a]] = NoProc("gone")]
               ELSE proc

Bind(k) ==
    /\ proc[k].state = "up"
    /\ ~Listening(proc[k].port)
    /\ proc' = [proc EXCEPT ![k].state = "listening"]
    /\ UNCHANGED <<row, settled, pid, user, pass, races, clashes, cuts>>

Exit(k) ==
    /\ Alive(k)
    /\ proc' = [proc EXCEPT ![k] = NoProc("gone")]
    /\ UNCHANGED <<row, settled, pid, user, pass, races, clashes, cuts>>

\* update_project of columns of a row that may be gone; updated_at is new.
Write(a, columns) ==
    IF row[a].present THEN /\ row' = [row EXCEPT ![a] = columns]
                           /\ settled' = [settled EXCEPT ![a] = FALSE]
    ELSE UNCHANGED <<row, settled>>

WithStatus(a, s) == [row[a] EXCEPT !.status = s]
Stopped(a) == [row[a] EXCEPT !.status = "stopped", !.age = "none"]

-----------------------------------------------------------------------------
(* Calls *)

At(c, pc) == user[c].pc = pc
Goto(c, pc) == user' = [user EXCEPT ![c].pc = pc]
Return(c) == user' = [user EXCEPT ![c] = [NewCall EXCEPT !.kind = user[c].kind, !.app = user[c].app,
                                                         !.pc = "done"]]
ThenWrite(c, s) == user' = [user EXCEPT ![c].next = s, ![c].pc = "write"]
Busy(a) == {c \in Calls : user[c].app = a /\ user[c].pc \notin {"new", "done"}}

\* A call that meets another one on its project, or the pass, is a race.
Races(a) == IF Busy(a) # {} \/ a \in pass.left \cup pass.writes THEN races \cup {a} ELSE races

Begin(c, kind, a) ==
    /\ At(c, "new") /\ row[a].present
    /\ kind = "remove" => c \in Removals
    /\ user' = [user EXCEPT ![c].kind = kind, ![c].app = a,
                            ![c].pc = IF kind \in {"stop", "remove"} THEN "kill" ELSE "read"]
    /\ races' = Races(a)
    /\ UNCHANGED <<row, settled, pid, proc, pass, clashes, cuts>>

\* (mutant) the project is taken to have its port
AfterReadAssigned(a) == "decide"

\* ensure_preview_address assigns a port to a project that has none.
AfterRead(a) == IF row[a].port = 0 THEN "pick" ELSE "decide"

\* get_project
ReadRow(c) ==
    /\ At(c, "read")
    /\ LET a == user[c].app IN
       IF row[a].present
       THEN user' = [user EXCEPT ![c].port = row[a].port, ![c].status = row[a].status,
                                 ![c].pc = AfterRead(a)]
       ELSE Return(c)
    /\ UNCHANGED <<row, settled, pid, proc, pass, races, clashes, cuts>>

\* (mutant) ports of other projects are not looked at
UsedNever == {}

Used == {row[a].port : a \in {b \in Apps : row[b].present}}

Free == {p \in Ports : p \notin Used /\ ~Listening(p)}

\* next_preview_port: the lock covers one read of the table and the choice,
\* which is a single step anyway; the port is stored by a later one.
PickPort(c) ==
    /\ At(c, "pick")
    /\ IF Free = {} THEN Return(c)
       ELSE user' = [user EXCEPT ![c].port = CHOOSE p \in Free : \A q \in Free : p <= q,
                                 ![c].pc = "store"]
    /\ clashes' = (clashes \/ \E d \in Calls \ {c} : At(d, "store"))
    /\ UNCHANGED <<row, settled, pid, proc, pass, races, cuts>>

StorePort(c) ==
    /\ At(c, "store")
    /\ LET a == user[c].app IN
       /\ Write(a, [row[a] EXCEPT !.port = user[c].port])
       /\ user' = [user EXCEPT ![c].status = IF row[a].present THEN row[a].status ELSE @,
                               ![c].pc = "decide"]
    /\ UNCHANGED <<pid, proc, pass, races, clashes, cuts>>

\* start_preview: a preview that runs and listens is left alone; otherwise what
\* the pid file names is killed, and the call ends here if there is no command.
DecideStart(c) ==
    /\ At(c, "decide") /\ user[c].kind = "start"
    /\ LET a == user[c].app IN
       \/ /\ Running(a) /\ Listening(user[c].port)
          /\ IF user[c].status = "running" THEN Return(c) ELSE ThenWrite(c, "running")
          /\ UNCHANGED <<pid, proc>>
       \/ /\ ~(Running(a) /\ Listening(user[c].port))
          /\ Kill(a)
          /\ \/ Goto(c, "spawn") \/ Return(c)
    /\ UNCHANGED <<row, settled, pass, races, clashes, cuts>>

\* Dependencies may fail to install; Popen otherwise.
Spawn(c) ==
    /\ At(c, "spawn")
    /\ \/ ThenWrite(c, "stopped") /\ UNCHANGED proc
       \/ \E k \in Procs :
             /\ proc[k].state = "unused" /\ \A j \in 1..(k - 1) : proc[j].state # "unused"
             /\ proc' = [proc EXCEPT ![k] = [app |-> user[c].app, port |-> user[c].port,
                                             state |-> "up"]]
             /\ user' = [user EXCEPT ![c].proc = k, ![c].pc = "wait"]
    /\ UNCHANGED <<row, settled, pid, pass, races, clashes, cuts>>

\* The loop over poll() and _port_listening, whose last round may see neither.
Waited(c) ==
    /\ At(c, "wait")
    /\ LET k == user[c].proc IN
       \/ ~Alive(k) /\ ThenWrite(c, "stopped") /\ UNCHANGED pid
       \/ /\ Alive(k)
          /\ pid' = [pid EXCEPT ![user[c].app] = k]
          /\ user' = [user EXCEPT ![c].next = IF Listening(user[c].port)
                                              THEN "running" ELSE "starting",
                                  ![c].pc = "publish"]
    /\ UNCHANGED <<row, settled, proc, pass, races, clashes, cuts>>

Publish(c) ==
    /\ At(c, "publish")
    /\ LET a == user[c].app IN
       Write(a, [row[a] EXCEPT !.port = user[c].port, !.status = user[c].next, !.age = "young"])
    /\ Return(c)
    /\ undated' = undated \ {user[c].app}
    /\ UNCHANGED <<pid, proc, pass, races, clashes, orphans>>

\* UPDATE of preview_status alone.
WriteStatus(c) ==
    /\ At(c, "write")
    /\ Write(user[c].app, WithStatus(user[c].app, user[c].next))
    /\ Return(c)
    /\ UNCHANGED <<pid, proc, pass, races, clashes, cuts>>

\* stop_preview_async
KillStop(c) ==
    /\ At(c, "kill")
    /\ Kill(user[c].app)
    /\ Goto(c, "stopped")
    /\ UNCHANGED <<row, settled, pass, races, clashes, cuts>>

WriteStopped(c) ==
    /\ At(c, "stopped")
    /\ Write(user[c].app, Stopped(user[c].app))
    /\ IF user[c].kind = "remove" THEN Goto(c, "delete") ELSE Return(c)
    /\ undated' = undated \ {user[c].app}
    /\ UNCHANGED <<pid, proc, pass, races, clashes, orphans>>

\* remove_service goes on to delete the row.
Delete(c) ==
    /\ At(c, "delete")
    /\ row' = [row EXCEPT ![user[c].app].present = FALSE]
    /\ Return(c)
    /\ UNCHANGED <<settled, pid, proc, pass, races, clashes, cuts>>

\* get_preview_status: what the status should be, from the row it has read, the
\* pid file and the port.
Judgement(a, status, up) ==
    CASE Running(a) -> IF up THEN "running" ELSE "starting"
      [] ~Running(a) /\ status # "stopped" /\ up -> "running"
      [] ~Running(a) /\ status = "starting" /\ ~up /\ ~settled[a] -> "starting"
      [] OTHER -> "stopped"

DecideStatus(c) ==
    /\ At(c, "decide") /\ user[c].kind = "status"
    /\ LET a == user[c].app
           s == Judgement(a, user[c].status, Listening(user[c].port)) IN
       /\ pid' = Checked(a)
       /\ IF s = user[c].status THEN Return(c) ELSE ThenWrite(c, s)
    /\ UNCHANGED <<row, settled, proc, pass, races, clashes, cuts>>

CallStep(c) ==
    \/ ReadRow(c) \/ PickPort(c) \/ StorePort(c) \/ DecideStart(c) \/ Spawn(c) \/ Waited(c)
    \/ Publish(c) \/ WriteStatus(c) \/ KillStop(c) \/ WriteStopped(c) \/ Delete(c)
    \/ DecideStatus(c)

\* The turn of the agent that is suspended in the call is cancelled, and what
\* comes after the await is never done.
Cancel(c) ==
    /\ user[c].pc \notin {"new", "kill", "done"} /\ user[c].kind # "remove"
    /\ Return(c)
    /\ orphans' = IF At(c, "wait") THEN orphans \cup {user[c].proc} ELSE orphans
    /\ undated' = IF At(c, "publish") THEN undated \cup {user[c].app} ELSE undated
    /\ UNCHANGED <<row, settled, pid, proc, pass, races, clashes>>

-----------------------------------------------------------------------------
(* expire_stale_previews, in every pass of the supervisor *)

Active(r) == r.present /\ r.status # "stopped"

BeginPass ==
    /\ pass.left = {} /\ pass.writes = {}
    /\ \E a \in Apps : Active(row[a])
    /\ pass' = [rows |-> [a \in Apps |-> IF Active(row[a]) THEN row[a] ELSE NewRow],
                left |-> {a \in Apps : Active(row[a])}, writes |-> {}]
    /\ races' = races \cup {a \in Apps : Active(row[a]) /\ Busy(a) # {}}
    /\ UNCHANGED <<row, settled, pid, proc, user, clashes, cuts>>

\* (mutant) the age of a preview is not looked at
ExpiredDeadOnly(a, r) == ~Running(a) /\ ~Listening(r.port) /\ (r.status = "starting" => settled[a])

\* Too old, or without a process although nothing is starting.
Expired(a, r) == r.age = "old" \/ ExpiredDeadOnly(a, r)

Visited(a) == [pass EXCEPT !.left = @ \ {a}, !.rows[a] = NewRow]

\* One project is looked at and killed without an await.
Visit(a) ==
    /\ pass.writes = {} /\ a \in pass.left
    /\ IF Expired(a, pass.rows[a])
       THEN /\ Kill(a)
            /\ pass' = [Visited(a) EXCEPT !.writes = {a}]
       ELSE /\ pid' = Checked(a)
            /\ pass' = Visited(a)
            /\ UNCHANGED proc
    /\ UNCHANGED <<row, settled, user, races, clashes, cuts>>

WriteExpired(a) ==
    /\ a \in pass.writes
    /\ Write(a, Stopped(a))
    /\ pass' = [pass EXCEPT !.writes = {}]
    /\ undated' = undated \ {a}
    /\ UNCHANGED <<pid, proc, user, races, clashes, orphans>>

-----------------------------------------------------------------------------
(* Time *)

\* PREVIEW_MAX_RUNTIME_SEC have passed since preview_started_at.
GrowOld(a) ==
    /\ row[a].age = "young"
    /\ row' = [row EXCEPT ![a].age = "old"]
    /\ UNCHANGED <<settled, pid, proc, user, pass, races, clashes, cuts>>

\* PREVIEW_START_GRACE_SEC have passed since updated_at, which matters only to
\* a preview that is starting.
Settle(a) ==
    /\ ~settled[a] /\ row[a].status = "starting"
    /\ settled' = [settled EXCEPT ![a] = TRUE]
    /\ UNCHANGED <<row, pid, proc, user, pass, races, clashes, cuts>>

PrevQuiet ==
    /\ \A a \in Apps : Busy(a) = {}
    /\ UNCHANGED prevVars

PrevNext ==
    \/ \E c \in Calls, k \in Kinds, a \in Apps : Begin(c, k, a)
    \/ \E c \in Calls : CallStep(c) \/ Cancel(c)
    \/ BeginPass \/ \E a \in Apps : Visit(a) \/ WriteExpired(a) \/ GrowOld(a) \/ Settle(a)
    \/ \E k \in Procs : Bind(k) \/ Exit(k)
    \/ PrevQuiet

\* The event loop resumes calls and the supervisor's pass; the clock goes on.
PrevFairness ==
    /\ \A c \in Calls : WF_prevVars(CallStep(c))
    /\ WF_prevVars(BeginPass)
    /\ \A a \in Apps : /\ WF_prevVars(Visit(a)) /\ WF_prevVars(WriteExpired(a))
                       /\ WF_prevVars(GrowOld(a)) /\ WF_prevVars(Settle(a))
    /\ \A k \in Procs : WF_prevVars(proc[k].state = "dying" /\ Exit(k))

PrevSpec == PrevInit /\ [][PrevNext]_prevVars
PrevFairSpec == PrevSpec /\ PrevFairness

-----------------------------------------------------------------------------
(* Properties *)

InFlight(k) == \E c \in Calls : user[c].proc = k /\ At(c, "wait")

\* As long as nothing else works on the project while a call does, every live
\* preview process can be found through the pid file, so that a stop, a
\* removal or the expiry pass reaches it, unless its own start was cancelled
\* while it waited for the process to listen.
ProcessReachable ==
    \A k \in Procs :
        /\ proc[k].state \in {"up", "listening"}
        /\ proc[k].app \notin races
        /\ k \notin orphans
        => InFlight(k) \/ pid[proc[k].app] = k

\* Two projects never share a preview port unless ports were picked at the same
\* time, or calls met on one of them: a start that was overtaken publishes the
\* port it has read, which may be another project's by then.
PortsDistinct ==
    ~clashes => \A a, b \in Apps \ races :
        a # b /\ row[a].present /\ row[b].present /\ row[a].port # 0 => row[a].port # row[b].port

\* Both of them together: pid file and port lead to the process of a preview.
PreviewsTracked == ProcessReachable /\ PortsDistinct

\* No preview is recorded as up for ever: one that has reached the maximal
\* runtime is stopped, or its project has seen a race, or its start was
\* cancelled before the time was recorded.
PreviewsExpire ==
    \A a \in Apps : (row[a].present /\ row[a].status # "stopped") ~>
                    (\/ ~row[a].present \/ row[a].status = "stopped"
                     \/ a \in races \cup undated)
=============================================================================
