------------------------------- MODULE Projects -------------------------------
(***************************************************************************)
(* Creation and removal of projects (create_project_record,                *)
(* begin_deploy_service and remove_service of syte/deployment.py, rows of  *)
(* syte/database.py, provision_share_template of                           *)
(* syte/share_template_service.py, the import of a repository in           *)
(* syte/main.py).  A creation reads the table, checks the id, inserts a    *)
(* row with a port it computed from what it has read, and fills the        *)
(* workspace, which a removal leaves on disk.  Nothing serialises them,    *)
(* and only the primary key is unique.                                     *)
(***************************************************************************)
EXTENDS Naturals, FiniteSets, FiniteSetsExt

CONSTANTS
    Uuids,        \* ids of projects: a client may choose one; without a choice, and for
                  \* templates and imports, it is new
    Creators,     \* creations
    MaxGone       \* bound on removals

ASSUME ProjectsAssumption == Uuids # {} /\ IsFiniteSet(Creators) /\ MaxGone \in Nat

VARIABLES
    projects,     \* the table: the creation that inserted each row, its port, status;
                  \* creation and port 0 if there is no row
    workspace,    \* projects whose workspace holds files
    maker,        \* each creation: id, kind, next step, and the ports it has read
    together,     \* history: two creations were between the read and the insert
    gone

projVars == <<projects, workspace, maker, together, gone>>

PortsOf == 1..(Cardinality(Creators) + 1)
MakerKinds == {"empty", "deploy", "template", "import"}
Unmade == [id |-> CHOOSE u \in Uuids : TRUE, kind |-> "empty", used |-> {}, step |-> "new"]
NoRow == [by |-> 0, port |-> 0, status |-> "none"]

ProjTypeOK ==
    /\ projects \in [Uuids -> [by : Creators \cup {0}, port : PortsOf \cup {0},
                               status : {"none", "stopped", "created"}]]
    /\ workspace \subseteq Uuids
    /\ maker \in [Creators -> [id : Uuids, kind : MakerKinds, used : SUBSET PortsOf,
                               step : {"new", "check", "insert", "files", "created", "address",
                                       "spawn", "fill", "instance", "clone", "failed",
                                       "refused", "done"}]]
    /\ together \in BOOLEAN
    /\ gone \in 0..MaxGone

ProjInit ==
    /\ projects = [u \in Uuids |-> NoRow]
    /\ workspace = {}
    /\ maker = [c \in Creators |-> Unmade]
    /\ together = FALSE
    /\ gone = 0

-----------------------------------------------------------------------------
Settled(c) == maker[c].step \in {"done", "failed", "refused"}
There(u) == projects[u] # NoRow
MakerAt(c, step) == maker[c].step = step
MakerGoto(c, step) == maker' = [maker EXCEPT ![c].step = step]
MakerEnds(c, step) == maker' = [maker EXCEPT ![c] = [Unmade EXCEPT !.id = maker[c].id, !.step = step]]
PortsTaken == {projects[u].port : u \in {v \in Uuids : There(v)}}

\* Nobody has used this id before.
NewUuid(u) == \A d \in Creators : MakerAt(d, "new") \/ maker[d].id # u

\* list_projects
ReadProjects(c, u, kind) ==
    /\ MakerAt(c, "new")
    /\ kind \in {"template", "import"} => NewUuid(u)
    /\ maker' = [maker EXCEPT ![c] = [id |-> u, kind |-> kind, used |-> PortsTaken,
                                     step |-> "check"]]
    /\ together' = (together \/ \E d \in Creators : maker[d].step \in {"check", "insert"})
    /\ UNCHANGED <<projects, workspace, gone>>

\* get_project
CheckUuid(c) ==
    /\ MakerAt(c, "check")
    /\ IF There(maker[c].id) THEN MakerEnds(c, "refused") ELSE MakerGoto(c, "insert")
    /\ UNCHANGED <<projects, workspace, together, gone>>

\* (mutant) one more than the number of projects
NextPortCount(used) == 1 + Cardinality(used)

\* _next_port
NextPort(used) == Min(PortsOf \ used)

\* create_project: the primary key refuses a second row.
InsertProject(c) ==
    /\ MakerAt(c, "insert")
    /\ IF There(maker[c].id)
       THEN MakerEnds(c, "refused") /\ UNCHANGED projects
       ELSE /\ projects' = [projects EXCEPT ![maker[c].id] =
                              [by |-> c, port |-> NextPort(maker[c].used), status |-> "stopped"]]
            /\ maker' = [maker EXCEPT ![c].used = {}, ![c].step = "files"]
    /\ UNCHANGED <<workspace, together, gone>>

\* update_project
Mark(u, s) == projects' = IF There(u) THEN [projects EXCEPT ![u].status = s] ELSE projects

\* ensure_workspace, write_env_file and, for a stack, scaffold_project: no
\* await, and each may raise.
WriteFiles(c) ==
    /\ MakerAt(c, "files")
    /\ \/ /\ maker[c].kind \in {"empty", "deploy"}
          /\ workspace' = workspace \cup {maker[c].id}
          /\ MakerGoto(c, "created")
       \/ MakerGoto(c, "created") /\ UNCHANGED workspace
       \/ MakerEnds(c, "failed") /\ UNCHANGED workspace
    /\ UNCHANGED <<projects, together, gone>>

MarkCreated(c) ==
    /\ MakerAt(c, "created")
    /\ Mark(maker[c].id, "created")
    /\ MakerGoto(c, "address")
    /\ UNCHANGED <<workspace, together, gone>>

AfterAddress == [deploy |-> "spawn", template |-> "fill", import |-> "clone"]

\* ensure_preview_address (see Previews) and apply_proxy_config.
AssignAddress(c) ==
    /\ MakerAt(c, "address")
    /\ IF maker[c].kind = "empty" THEN MakerEnds(c, "done")
       ELSE MakerGoto(c, AfterAddress[maker[c].kind])
    /\ UNCHANGED <<projects, workspace, together, gone>>

\* asyncio.create_task(run_deploy_job(...)), where Deployments goes on.
SpawnFirstDeploy(c) ==
    /\ MakerAt(c, "spawn")
    /\ MakerEnds(c, "done")
    /\ UNCHANGED <<projects, workspace, together, gone>>

\* _copy_template_source; whatever fails removes the source and leaves the row.
FillTemplate(c) ==
    /\ MakerAt(c, "fill")
    /\ \/ /\ maker[c].id \notin workspace
          /\ workspace' = workspace \cup {maker[c].id}
          /\ MakerGoto(c, "instance")
       \/ /\ workspace' = workspace \ {maker[c].id}
          /\ MakerEnds(c, "failed")
    /\ UNCHANGED <<projects, together, gone>>

\* The columns, then the row of share_instances.
CreateInstance(c) ==
    /\ MakerAt(c, "instance")
    /\ \/ Mark(maker[c].id, "created") /\ MakerEnds(c, "done") /\ UNCHANGED workspace
       \/ /\ Mark(maker[c].id, "created") /\ MakerEnds(c, "failed")
          /\ workspace' = workspace \ {maker[c].id}
    /\ UNCHANGED <<together, gone>>

\* clone_or_pull, then the analysis of what was cloned, which may refuse it;
\* a project whose import failed stays.
CloneImport(c) ==
    /\ MakerAt(c, "clone")
    /\ LET u == maker[c].id IN
       \/ /\ workspace' = workspace \cup {u}
          /\ \/ Mark(u, "created") /\ MakerEnds(c, "done")
             \/ MakerEnds(c, "failed") /\ UNCHANGED projects
       \/ Mark(u, "stopped") /\ MakerEnds(c, "failed") /\ UNCHANGED workspace
    /\ UNCHANGED <<together, gone>>

\* delete_project, at the end of remove_service.
RemoveProject(u) ==
    /\ There(u) /\ gone < MaxGone
    /\ projects' = [projects EXCEPT ![u] = NoRow]
    /\ gone' = gone + 1
    /\ UNCHANGED <<workspace, maker, together>>

\* The server dies and starts again.
LoseCreations ==
    /\ gone < MaxGone
    /\ \E c \in Creators : ~MakerAt(c, "new") /\ ~Settled(c)
    /\ maker' = [c \in Creators |-> IF MakerAt(c, "new") \/ Settled(c) THEN maker[c]
                                    ELSE [Unmade EXCEPT !.id = maker[c].id, !.step = "failed"]]
    /\ gone' = gone + 1
    /\ UNCHANGED <<projects, workspace, together>>

ProjQuiet == (\A c \in Creators : Settled(c)) /\ UNCHANGED projVars

MakerStep(c) ==
    \/ \E u \in Uuids, k \in MakerKinds : ReadProjects(c, u, k)
    \/ CheckUuid(c) \/ InsertProject(c) \/ WriteFiles(c) \/ MarkCreated(c)
    \/ AssignAddress(c) \/ SpawnFirstDeploy(c) \/ FillTemplate(c) \/ CreateInstance(c)
    \/ CloneImport(c)

ProjNext ==
    \/ \E c \in Creators : MakerStep(c)
    \/ \E u \in Uuids : RemoveProject(u)
    \/ LoseCreations \/ ProjQuiet

ProjSpec == ProjInit /\ [][ProjNext]_projVars

-----------------------------------------------------------------------------
(* Properties *)

\* Two projects never get the same port, and no creation answers with success
\* for a row that another one has inserted, unless creations overlap between
\* the read of the table and the insert, or the project was removed meanwhile.
PortsUnique ==
    /\ ~together => \A u, v \in Uuids :
          u # v /\ There(u) /\ There(v) => projects[u].port # projects[v].port
    /\ gone = 0 => \A c, d \in Creators :
          c # d /\ MakerAt(c, "done") /\ MakerAt(d, "done") => maker[c].id # maker[d].id

=============================================================================
