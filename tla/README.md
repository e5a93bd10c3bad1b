# Syte in TLA+

Syte (package `syte`, repository `sarra`) deploys applications on one Ubuntu
server: a FastAPI process with one asyncio event loop, an SQLite database, worker
threads for git, npm and docker, background loops, and an AI agent per project
that works in the project's workspace. This directory holds models of the parts
in which concurrency, failure or order decides whether the program is correct,
the TLC runs that check them on small instances, and TLAPS proofs for all sizes.

    tlc -config DeployRace.cfg MCDeployments      # one run
    tlapm DeploymentsProofs.tla                   # one proof module

`PROJECT.json` lists every component, run, finding, hazard and theorem, and maps
each definition to the lines of `src/` it models.

## The system and its parts

| Part | State | Operations | What is hard, and what must hold |
|---|---|---|---|
| Deployment engine (`deployment.py`, with `process_manager.py`, `docker_deploy.py`, `workspace.py`, `database.py`) | rows `projects.status`, `deployment_runs.status`; per project a slot `_deploy_running` and a lock `_deploy_locks`; the pid file, the live processes, the workspace tree | `issue_deploy`, `cancel_deploy`, the recorded run, the deploy job; `start/stop/update/remove_service` | the slot is tested and taken across an await; cancelling a task does not stop its thread; exceptions and crashes between two writes; unlocked lifecycle calls. A status tells the truth, a run is closed once, a succeeded run started its own commit |
| Creation of projects (`create_project_record`, templates, imports) | rows of `projects`, the workspace | create, import, remove | id and port come from a table read before the insert; a creation fails halfway |
| Supervisor (`supervisor.py`) | `_fail_counts`, a snapshot of the table per pass | a pass every 30 s; start-up | the snapshot is stale; one raise ends a pass; two thresholds. Services come back or are given up, never retried for ever |
| Branch watcher (`branch_deploy.py`) | `last_seen_git_commit`, `last_deployed_commit` | a check every 5 min | awaits GitHub and the engine between read and write; crash in between. A head is deployed, and not again and again |
| Agent session (`ai/session_manager.py`, routes in `stream_api.py`, `ai/router.py`) | `is_running`, `active_task`, `answer_queue`, event ring, subscribers | chat, stop, clear, answer; the turn's task | stop and start overlap; a late answer; the end of a stream. One agent per workspace, a stream carries its turn and closes |
| Event delivery (`_broadcast`, `subscribe`) | ring (300), queue per client (256), ids | broadcast, replay, live, drain, reconnect | every `yield` suspends the connection while events go on. No silent loss |
| Channels (`sse_core.py`, fed by `stream_api.py` and `_broadcast`) | a session's buffered deltas, ring (300) and the bounded queue of each listener, ids | push, flush, mirror, subscribe, overflow, reconnect | deltas wait in a buffer while other events pass; the queue overflows before the ring does. Events arrive in causal order, what is lost is announced |
| Agent turns (`ai/engine.py`, `ai/providers.py`) | round counter, transcript `ai_chat_messages` | rounds of gateway calls and tools, stop, clear, delete | retries without a bound; a stop between a call and its result. A turn ends; the gateway gets a transcript it accepts |
| Previews (`preview_manager.py`) | `preview_status`, `preview_port`, pid file, processes | start, stop, status, expiry | ports chosen and stored in two steps; the pid written late, by a turn that may be cancelled. Processes can be found and come to an end |
| Protected releases (`release_operations.py`, routes in `main.py`) | environments, approvals | request, decide, deploy, consume | check and consumption of an approval are apart |
| Managed databases (`platform/database_runtime.py`, `platform_api.py`) | row, container, volume | create, start, stop, delete | a deletion overlaps with a start; docker commands fail, and most results are not looked at. Row and container match, data stays |
| Backups (`platform/backup_scheduler.py`, `backup_manager.py`) | `last_run_at`, executions, artifacts | a look every 60 s, manual runs, retention | runs overlap and fail. The newest dump stays; a minute is served once |
| Access (`rate_limit.py`, `auth.py`) | hits per client and token, operator sessions | admit, look up, log in, revoke | the edge of a window, revocation between two steps |
| Log streams (`log_stream.py`) | offset in a file | snapshot, poll | the file grows between `stat` and `read`, or is truncated |
| Self update (`self_update.py`) | Syte's own checkout, requirements, a restart worker | stash, fetch, checkout, reset, pip, restart | the server dies between two steps; an old worker wakes up |
| Reverse proxy (`certificates.py`, `caddy_routes.py`) | names in rows and settings, two configuration files, what Caddy has loaded | change a name, render, write, validate, reload, restart | many callers, awaits between all steps, no lock; a refused file stays on disk; restarts fail; names change without an apply. What was applied is served, Caddy stays up |
| TLS probes, GitHub OAuth and PRs, notifications, stack detection and scaffolding, monitoring, the other routes and the GUI | rows and generated files | request handlers | I/O, parsing and generation; little shared state |

Parts meet in four ways: rows of the database (the supervisor and the branch
watcher read what the engine writes), direct calls (`issue_deploy` from routes,
webhooks, releases and the watcher), tasks of the event loop that interleave at
every `await`, and threads that run beside it.

## Modules

| Module | Models | State and actions |
|---|---|---|
| `RunBook` | what the deployment history promises | `book`, `pinned`, `listed`: a run is entered, started and ended; a removed project stays removed |
| `DeploySlot` | what the callers of `issue_deploy` may take the engine for | `inside`, `going`, `newest`, `landed`: a caller is let in only when the deploy begun last has ended, begins a deploy in a later step, and only deploys in progress note the commit they are pinned to in `last_deployed_commit`; callers that are inside together begin deploys that go on side by side (`crowded`) |
| `Deployments` | the deployment engine of one project; implements `RunBook` and `DeploySlot` | `status`, `run`, `commit`, `deployed` are the rows; `slot`, `lock`, `arrived` (FIFO waiters of the asyncio lock), `pending` (a cancellation not yet delivered) and `pc` the tasks; `worker` the thread of each task or call; `live`, `handle`, `tree`, `source` the machine. One action per stretch of code between two awaits (`IssueCheck`, `IssueInsert`, `IssueSpawn`, `Begin`, `Acquire`, ... `Publish`) and per step of a thread; `CancelDeploy`/`Deliver`, `Raise` (at any await of a deploy, the UPDATEs of its row and those in the handlers included), `IssueAborted`, `ProcessExit` and `Crash` are the faults; `crowd` notes that handlers were let past the slot together and whether their deploys still go on |
| `Projects` | creation and removal of projects | `projects` is the table, `maker` what each creation holds across its awaits (id, ports it has read, next step); plain, deploying, template and import creations differ in their steps |
| `Supervisor` | passes over projects `1..N` | `snap` and `cursor` are the pass, `fails` the counters; `OpBegin`/`OpWrite` the operators' calls, first the thread, then the row |
| `BranchDeploy` | the check of one project | `row` and `sha` are what the check holds across its awaits; the engine is reduced to `busy`, `slot` and `deployed`; `Issue` and `IssueTake` are the test of the slot and its take, `ManualDeploy` and `ManualTake` the same of users, so that they overtake each other (`overtaken`); `DeployLands` and `DeployEnds` are the two ends of a deploy, the row before the slot |
| `AgentSession` | turns, stop, questions and streams of one project | `running`, `active`, `task`, `cancelled`; `answers` is the queue; `events` the log of the events on which streams close; a connection is `stream`, `pos`, `snap` |
| `EventStream` | delivery to clients | `ring`, `queue`, `dropped`, `conn` and what each client has received |
| `Channels` | a channel with one listener | `pushed` is what the agent said, `buffers` the deltas of `DeltaBatcher`, `frames` the numbered frames and `history` the ids that the ring retains, `listener` the queue and the frame it holds back, `browser` the cursor and what arrived |
| `AgentTurns` | the loop over rounds and the transcript | `transcript` is the table, `conversation` the list of the turn, `todo` the calls not yet executed; `Sanitized` is the repair before a request |
| `Previews` | previews of several projects | `row`, `pid`, `proc` are the database, pid files and processes; `user` and `pass` what calls and the expiry pass hold across their awaits; `Cancel` is the end of a turn that awaits a call of its agent |
| `Releases` | protected releases of one project | `approval`, `decided`, `environment` are the rows, `call`, `seen`, `picked` the routes; the engine is reduced to `busy`; `IssueDeploy` and `IssueTake` are the test of the slot and its take, with others between them |
| `ManagedDatabases` | one managed database | `dbRow`, `container`, `volume`; one action per docker command, each of which may fail, with its effect or without; `unanswered` notes a last look that failed on a container that was there |
| `Backups` | schedules, executions, artifacts | `execution` and `lastRun` are rows, `files` the directory, `loop` the scheduler, `running` the coroutines of `execute_backup` |
| `Access` | what a request passes before its route | `hits` and `counted` the two windows, `session` the operator sessions, `asked` where each request is |
| `LogStream` | the tail of one file for one browser | `logFile` grows by halves of lines, `logReader` is the generator |
| `SelfUpdate` | the updater | `checkout`, `edited`, `installed`, `serving` the machine, `update` the next command, `worker` the sleeping restart |
| `Proxy` | `apply_proxy_config` and its callers | `named` and `wildcard` are rows and settings, `disk` the primary and the fallback file, `caddy` whether it is up and what it has loaded, `upd` each request with what it has read; `Rename` changes a name without an apply (`drifted`), `Maintain` is the supervisor's `ensure_caddy`; `CancelUpdate`, `CaddyExits`, `Reboot`, commands that fail, with their effect or without, and restarts that leave Caddy down (`since.broken`) are the faults. A configuration is a set of blocks with host and owner; `Valid` is Caddy's rule that no site and no matcher comes twice |
| `MC*` | instances for TLC | constants as model values, fault budgets, symmetry |
| `DeploymentsProofs`, `AgentSessionProofs`, `EventStreamProofs`, `PreviewsProofs` | theorems | about the module of that name |
| `ProgressProofs` | theorems | about `Supervisor`, `BranchDeploy` |
| `ConversationProofs` | theorems | about `AgentTurns`, `Channels` |
| `ServicesProofs` | theorems | about `ManagedDatabases`, `LogStream`, `SelfUpdate`, `Projects`, `Backups` |
| `OperationsProofs` | theorems | about `Releases`, `Access`, `Proxy` |

`MCProgress` and `MCServices` put components side by side that share no state: a
behaviour belongs to one component, chosen in its initial state, and the others
do not move. Interleaving them would multiply their states without adding a
behaviour to any of them; the fairness of a component is stated for the
behaviours that are its own. Each component has a specification of its own
(`SupSpec`, `RelSpec`, ...), which is what its proofs are about.

Definitions marked `(mutant)` are plausible bugs. They are not part of a
specification; each property is known to fail when one of them takes the place
of the definition that follows it.

## Runs

| Run | Asks | Bounds, and why they suffice |
|---|---|---|
| `deploy_calls` | `TypeOK`, `SourceAligned`, `TasksTracked` (no task that works is unknown to slot and rows), `ImplementsRunBook`, with an unlocked lifecycle call, an exception at any await and a process exit | 2 runs, 2 commits, 1 call of each kind, docker: a run and its successor are what can disturb each other through slot, lock and workspace |
| `deploy_faults` | `OneAwaitedThread`, `SlotHoldsTask`, `TerminalStays`, `ImplementsSlot` | 2 callers that may both be let past the slot; 2 cancellations (the second one hits the handler of the first, or a caller inside `issue_deploy`), or one and a crash (the state constraint `AtMostTwo`) |
| `deploy_race` | `ProcessesTracked` (status and pid file tell the truth about processes), `RunsSettle` | 2 racing callers, the unrecorded deploy of project creation, one exception, shell deploys (the pid file is written a second after the start) |
| `deploy_source_cancel` | `SourceAligned`, violated | 1 cancellation |
| `progress` | supervisor: `AttemptsBounded`, `SecondChance`, `Healed`; watcher: `NotRepeated`, `HeadIsDeployed`; streams: `NoSilentLoss`, `CatchesUp`; turns: `EveryCallAnswered`, `TurnsEnd` | 2 projects (one raises before the other), an operator call, a restart; 2 commits so that the head can come back, 2 pushes, another deploy, an enable, a fault; ring and queue of 2 and 5 events, so that both overflow more than once, and a broken connection; 2 turns of 2 rounds with 2 calls each, a window of 4 messages (which cuts a round in two) and a deletion |
| `session_turns` | `StreamHasTurn`, `StreamsClose` | 2 streaming chats, 1 question, no stop |
| `session_stops` | `OneLiveTurn`, `AnswerIsFresh`, `IdleIsLast`, `StopsTakeEffect` | 2 turns, 2 stops, 2 questions (a late answer to the first), a reset |
| `session_overlap` | `AttachesToTurn`, violated | 3 chats: the stopped one, the next and a third |
| `previews` | `PreviewsTracked` (`ProcessReachable`, `PortsDistinct`), `PreviewsExpire` | 2 projects, 2 ports, 2 processes, 2 calls that overlap with each other and with the expiry pass, a removal; any call may be cancelled |
| `services` | `SingleUse`, `DecisionStands`; `ContainerMatchesRow` (`NoOrphanContainer`, `RunningHasContainer`, `DataKept`); `AccessSound`; `TailExact`; `NewestDumpKept`, `OncePerMinute`; `UpdateSound`; `PortsUnique`; `ChannelFaithful` (`CausalOrder`, `LossIsTold`); `ProxyServes` (`AppliedIsServed`, `CaddyKept`) | 2 releases, 2 approvals, another deploy, an edit; 3 calls on a database (a start and a stop around a deletion); 3 requests against limits of 1 and 2 in a window of 2 instants; 4 halves of lines, a truncation, 3 polls; 2 schedules, 2 executions, 2 minutes; 3 commits, 2 updates, 3 interferences; 3 creations, at most 2 of them under way at a time, 2 ids, a removal; 4 events of two types, deltas flushed by twos, ring and queue of 2, 2 connections and one frame of the agent session; 2 updates of 4 names over 2 hosts with one matcher (so that a configuration may be refused in both modes of TLS), one fault, one name that changes without an apply (where the properties speak of it, next to a request that is alone, and nothing fails) |
| `log_stream_ends` | `TailsUntilDisconnect`, violated | 2 halves of lines |
| `agent_history` | `AnswersFollow`, violated | 2 turns, the first one stopped |

Deadlock is checked except in the two sums, in which every component may come to
its end while the others stand still; elsewhere a `Quiet` step marks the states
in which nothing is left to do. Calls, requests, approvals and creations of
`services` are interchangeable, and so are its two kinds of deltas: they are
numbered, and `InOrder` lets them begin in a fixed order. Hosts are alike, and so are
the projects behind the proxy: as long as none of them occurs in the state,
`FirstNames` lets only one be the first (TLC would apply a symmetry set to
all the services). `deploy_calls` and `deploy_faults` use symmetry over
runs and commits, or runs and callers, with safety properties only.

Properties with a condition on faults, overlaps or calls (`SourceAligned`,
`AttemptsBounded`, `OneLiveTurn`, `SingleUse`, `PreviewsTracked`, `PortsUnique`,
`ProxyServes`, ...) say so because the code does not keep them otherwise;
the history variables `crowd`, `overlapped`, `clashes`, `races`, `orphans`, `undated`,
`together`, `stale`, `unanswered`, `unsafe`, `since`, `drifted`, `late`, `pruned` mark
exactly these cases.

### Fairness

Weak fairness of tasks and connections is the event loop, which resumes what is
ready. Nothing is assumed of users. Threads get no fairness: `run_cmd` waits for
git, npm and docker without a timeout, so `RunsSettle` is claimed on condition
that threads come to rest again and again. `supervisor_loop` and
`periodic_branch_deploy_loop` catch everything and sleep, so their steps are
fair, also the expiry pass of previews that the first of them runs;
`HeadIsDeployed` also assumes that GitHub answers now and then (strong fairness
of `Fetch`) and that deploys end. In `EventStream` clients reconnect, as
EventSource does by itself. A turn of `AgentSession` need not be finished by its
agent: a question returns after 300 seconds at the latest, a cancellation is
delivered. In `AgentTurns` the gateway is asked again after a timeout without a
bound, so `TurnsEnd` assumes that it answers, or refuses, now and then (strong
fairness); that the model calls no more tools is not assumed.

## What the violated runs show

- `deploy_source_cancel`: a cancelled deploy releases the lock while its git
  thread still works; it moves the workspace under the next deploy.
- `session_overlap`: the `finally` clause of a stopped turn lowers the flag of
  the turn after it, so a third chat starts a second agent.
- `log_stream_ends`: `_check_disconnect` takes the truth value of a coroutine it
  does not await; a stream that has its request ends before the first poll.
- `agent_history`: the answer made up for a call whose turn was stopped is
  appended behind the next user message, where the gateway does not accept it.

Behaviours that the models have and that conditions of the properties allow for:
two callers that are let past the slot together begin two deploys, of which
`cancel_deploy` reaches the second only, until both have ended (`crowd`); a deploy
that is cancelled before its first step leaves its run `queued`, and a second
exception, in the UPDATE of a handler, leaves a run `running` (`RowsMayBeLeft`); the
deploy of `create_project_record(deploy_now=True)` has no run; a crash between
issue and record repeats a branch deploy once (`NotRepeated` counts faults, the
module's docstring does not); a pass of the supervisor between the thread of
`stop_service` and its UPDATE starts the service again; an event broadcast while
a connection starts is sent twice; frames that overflow during the last 50 ms of
a stream are not announced (`late` in `EventStream`), and `last_id` of a
backpressure frame is newer than what was dropped; a turn stopped before its
first step never sends `session_idle`; a message that arrives during a turn is
dropped; a late answer may resolve a later question (`AnswerIsFresh` only orders
them); `issue_deploy` answers with the project also when a deploy is in
progress, so a release consumes its approval although nothing was queued
(`SingleUse` allows for fewer deploys than approvals); two releases, ports or
creations that overlap share an approval, a port or a port; a status query that
overlaps with a start of a preview writes `stopped` over it; a stop of the turn
that awaits `syte_start_preview` leaves a live process without a pid file if it
comes before the pid is written (`orphans`), and if it comes after that and before
the row is, a preview without `preview_started_at`, which a status query records as
running and which does not expire (`undated`); a deletion of a database whose last
`docker inspect` fails because the daemon does not answer drops the row, and the
container with its restart policy stays (`unanswered`); the retention
pattern of one database matches the artifacts of another whose name begins with
its name (`Matching`); an updater that dies between checkout and pip leaves a
version without its requirements for the next start (`torn`); frames of the agent
session reach listeners of the `ai` channel under ids of another counter, so a
browser that reconnects with such an id may miss events without being told
(`LossIsTold` excepts them). Of the proxy: nothing keeps two projects from one
domain, or from hosts whose names differ only in a dot and a dash (one matcher in
the wildcard mode), after which every configuration is refused and no change of
anybody takes effect; the refused file stays in place, so the next reboot leaves
Caddy down; requests that overlap may leave an old configuration in service, or
restart Caddy on a file that nobody validated; where `/etc/caddy` cannot be
written, a reload of the unit reports success and serves the old primary file;
the domain of the GUI that is taken back after a failure is not applied again. A
failed `systemctl restart`, which stops Caddy before it starts it, may leave it down
until the supervisor's next pass, and `ensure_caddy` tells that Caddy was started
without waiting for it (`since.broken`). Names change without an apply: a GET of
the projects, the status of a preview or a start that fails assigns a preview
domain (`ensure_preview_address`), and deploy-detected writes a domain; they are
served only after somebody else's apply (`drifted`).

## Proofs

Every safety property that a passing run checks, and every refinement, is also a
theorem about the specification of its component, for every value of the
constants under the named `ASSUME`s of the modules (bounds are naturals, `None` is
not a value). A
hypothesis beyond these is part of a theorem's statement and named below. Each
invariant is stronger than its property, because the property says nothing of
the places where a step could break it; each was an invariant of a TLC run
before it was proved.

Liveness cannot be proved here, but most of it has a safety half that can: that
nothing waits for what cannot come. These theorems stand beside the properties
that TLC checks under fairness:

| Checked by TLC | Proved for all sizes |
|---|---|
| `RunsSettle` | `LockIsServed`: the lock is held by a task that is still inside, or free for the first of those that wait |
| `HeadIsDeployed` | `NoHeadPassedOver`: no check that is told of a head passes over it before a deploy of it was queued |
| `StreamsClose` | `StreamsAwaitATurn`: no stream is open with nothing to send and no turn to wait for |
| `CatchesUp` | `NothingOwed`: a connection with nothing left to send owes nothing |
| `TurnsEnd` | `OnlyTimeoutsGoBack`: every step of a turn brings it closer to its end, but for a gateway timeout |
| `PreviewsExpire` | `PreviewsHaveDeadline`: an active preview has a `preview_started_at`, unless its start was cancelled before the row was written |

**`DeploymentsProofs`**

- `TypeCorrect` (`TypeOK`), with `LocalInv`: what the local variables of tasks and
  callers hold at an await.
- `ThreadsExclusive` (`OneAwaitedThread`) by `LockInv`: a task suspended inside
  `async with` is the holder of the lock.
- `HistoryKept` (`TerminalStays`) by `RunInv`: a run is queued until its task takes
  its first step, and no two callers are about to spawn a task for one run.
- `Implements` (`ImplementsRunBook`): the initial states map to that of `RunBook`,
  and every step to one of its steps or a stutter, by `StartedInv`: a run whose
  task is between its first await and the write of its outcome is running.
- `LockIsServed` by `HeldInv` (the holder of the lock is inside `async with`) and
  `ArrivedInv` (whoever waits is in the order of arrival): cancellations and exceptions
  leave nobody behind who waits for a lock that nobody can give.
- `SlotKept` (`SlotHoldsTask`), for any callers and under any faults: the slot
  holds the task under way, but while the deploys of handlers that were let in
  together go on. By `SlotInv`: between a handler's test of the slot and `create_task`
  no run is in flight unless another handler was inside with it.
- `TasksKept` (`TasksTracked`), under the same faults. The row of a run tells where
  its task is (`OpenInv`), and "deploying" belongs to a task inside the lock that
  will overwrite it (`DeployingInv`). Rows that a cancellation, a restart or a second
  exception leaves open are excepted (`RowsMayBeLeft`, tied to the rows by `BlameInv`);
  one exception, wherever it is raised, leaves none.
- `SourceKept` (`SourceAligned`), without cancellations: `SourceInv` carries the
  commit from checkout to start to the row, `WorkerInv` says that a task has a
  thread only while it awaits it, and `FirstInv` that the first deploy of a project,
  which has no slot, asked for the lock first. The run `deploy_source_cancel` shows
  that the hypothesis is needed. Like the property, it excepts projects with
  lifecycle calls and with handlers that were let in together.
- `ProcessesKept` (`ProcessesTracked`) and `NoneEscapes`, without cancellations,
  crashes and (the former) exits, as long as no lifecycle call was made
  (`NoCalls`), with handlers that overlap: a start finds the machine empty.

- `ImplementsEngine` (`ImplementsSlot`), for callers that race and under all faults:
  the engine implements `DeploySlot`. The deploys in progress are the tasks that are
  in flight, the newest is the one in the slot, and only a task in flight writes
  `last_deployed_commit`. `RefusalsExact`: the test of the slot refuses a caller only
  while a deploy is in progress, although the slot may still hold a task that is
  done, and lets one in while a deploy is in progress only if handlers were let in
  together.

`BranchDeploy` and `Releases` keep of the engine what `DeploySlot` says of it: a test
of the slot and its take in two steps, with other callers between them, and the two
ends of a deploy. That they do so is by construction and not claimed as a property.

`JobMoves` states once how any step of a job moves the invariants on locks and
runs, `MoveDeploying` the same for the status.

**`AgentSessionProofs`**: `TypeCorrect` (`TypeOK`); `OneAgent` (`OneLiveTurn`) by
`TurnInv`: until somebody presses stop nothing is cancelled and the turn under
way has its flag up; `AnswersFresh` (`AnswerIsFresh`), under any stops, by
`AnswerInv`: the queue has answers to the last question only; `IdleLast`
(`IdleIsLast`) by `LogInv`: only a turn that has ended has a terminal event;
`StreamComplete` (`StreamHasTurn`), in behaviours without a stop
(`stops = 0`), by `StreamInv`: between a chat and its subscription only its own
turn sends, so a snapshot that ends with a terminal event has all of the turn, but for what a
  reset cleared from the ring before the subscription;
`StreamsAwaitATurn`, without stops and resets, by `WaitInv`: between turns the last
event is `session_idle`, so that a stream that comes to the end of the log finds a
reason to close, or a turn that is alive. A reset would take that event away.

**`EventStreamProofs`**: `LossesTold` (`NoSilentLoss`), for any ring and queue with
`QueueSize <= RingSize` (256 and 300 in the code). The ring has the youngest cold
events (`Youngest`), a queue ends with the newest event and has no hole
(`EndsWith`), and `Following` says which cold events behind those a client has
are in the rest of its snapshot, in its queue or counted as lost. The bound is an
`ASSUME` of the module and is needed: with a ring of 1 and a queue of 3, TLC finds
an event that is in neither of them and was not announced. `NothingOwed` follows
from the same invariant and `LossInQueue`: a drop that is not announced yet has a
frame behind it in the queue, with which it will be.

**`ConversationProofs`**

- `CallsHaveAnswers` (`EveryCallAnswered`, until a single message is deleted) by
  `TurnInv`: calls and answers of the transcript are in order (`InOrder`), the calls
  not yet executed belong to the round at its end (`AtEnd`). Whatever window the
  engine cuts, it is in order (`SuffixSound`), and the repair makes such a window
  complete (`SanitizedSound`). `OnlyTimeoutsGoBack`: rounds, stages of a round and calls
  to make are a lexicographic order in which every step but a timeout descends.
- `ChannelKept` (`ChannelFaithful`) by `ChanInv`, whose parts are: `Orderly`, frames and
  buffered entries have every event once, in causal order, and one entry per
  type; `Youngest`, the ring has the youngest cold frames; `Told`, what the browser
  has is a chain without holes, the queue continues it unless something was
  dropped (`Line`), and it ends with the last cold frame (`Complete`). Unlike the
  agent session, a channel needs no relation between ring and queue: it replays
  into the queue, so that what does not fit is counted. `AscendingIs` shows that a
  replay has the whole ring in its order; that an ascending order exists is
  proved by a least counterexample (`HasOrder`).

**`PreviewsProofs`**: `PreviewsTyped` (`PrevTypeOK`) and `PreviewsKept` (`PreviewsTracked`) by `PrevInv`. A call
that is suspended has its project to itself unless a race is noted (`Solo`), and
the port of the row, a process it started and an empty pid file (`CallKept`); what
a cancelled start left behind is excepted (`orphans`, `undated`). A
pid file names a process of its project (`PidKept`); ports picked and not yet
stored differ from those in the table (`PortsKept`). The attempt to prove it found
that `PortsDistinct` was false as first stated, without `races`: of two starts of
one project the overtaken one publishes the port it has read, which another
project may have been given since. Three calls show it in TLC (17 states), and
the run has two, so the run alone did not. The property now excepts such
projects. `PreviewsHaveDeadline` by `Due`: a status query makes a preview active that
it finds by its pid file, so a pid file has to mean a deadline or a call that is
about to write one, and whoever takes the deadline away has removed the pid file.

**`ServicesProofs`**

- `DatabaseMatches` (`DbTypeOK`, `ContainerMatchesRow`) by `DbInv`: a deletion that has
  seen the container gone and a start that is under way exclude each other or one
  of them is marked `stale` (`NoSurprise`), and a deletion that drops the row of a live
  container otherwise had no answer (`unanswered`); a row that says running has its
  container, or a deletion is at work (`Missing`).
- `TailFaithful` (`LogTypeOK`, `TailExact`) by `LogInv`: the snapshot lies before the place
  where tailing began, and the tail has sent what lies between it and the offset.
  `FirstPollEndsTheStream`: with its request, a stream never reads the file after the
  snapshot. What `log_stream_ends` shows is no matter of the sizes of that run.
- `UpdateKept` (`UpdTypeOK`, `UpdateSound`) by `UpdInv`: before each step the requirements
  are complete or the checkout is torn.
- `PortsApart` (`ProjTypeOK`, `PortsUnique`) by `ProjInv`: a creation that is alone has read
  every port there is (`Distinct`), and ports are as low as the number of
  creations (`PortsLow`), so that a free one is in range (`NextPortIsFree`).
- `NewestStays` (`BackupsTypeOK`, `NewestDumpKept`) by `FilesInv`: the artifact of the newest
  dump has the latest modification time of its database (`NewestIsLast`), so that
  retention, which keeps at least one, keeps it. `BegunOncePerMinute`
  (`OncePerMinute`) by `ServedBefore` and `RowsAhead`: a pass begins in a minute in
  which nothing was served, and its rows are of different schedules.

**`OperationsProofs`**

- `ApprovalsUsedOnce` (`SingleUse`) by `RInv`. The route looks for an approval, issues
  the deploy and consumes with awaits between, so the invariant says what a
  release knows at each of them (`Local`) and what holds while it is alone
  (`Alone`): nobody else takes the approval it has seen, so approvals that are
  spent or still good never fall below the deploys that were queued.
  `DecisionsFinal` (`DecisionStands`) by the same invariant. Releases and approvals
  are assumed to be finitely many. `ReleasesTyped` (`RelTypeOK`) needs that the latest
  of finitely many decisions exists (`Greatest`).
- `AccessHolds` (`AccessSound`) by `WInv`: the hits of every past window that can still
  matter are in the deque or were swept when they were too old, so that the
  cardinality the code compares bounds that of any window; and by `SInv`: a session
  that is found has the age its expiry says. `AccessTyped` (`AccessTypeOK`).
- `ProxyTyped` (`ProxyTypeOK`) and `AppliedAndKept` (`ProxyServes`) by `PInv`: while a
  request runs alone, what it has read so far is what rows and settings say, the
  file it has written is rendered from them, but for names that drifted since, and was
  accepted before any command that loads it, and a command that loaded it left
  Caddy up unless it failed (`since.broken`).

**`ProgressProofs`**: `SupervisorTyped`; `RestartsBounded` (`AttemptsBounded`) by
`AttemptsInv`: while no operator has stepped in, a project yet to be visited is as
the snapshot says, and attempts never exceed the counter of failures.
`WatcherTyped`; `HeadQueuedOnce` (`NotRepeated`) by `QueuedOnce`: a head that was queued
and not repeated because of a fault is in the row before the next check reads it,
and in the row the check works with. `GivenASecondChance` (`SecondChance`) by
`CountedInv`: what is counted against a service was tried, so that two failures on
the counter are two restarts. `NoHeadPassedOver` by `Known`: a commit that
the row shows as seen, or that a check is about to record as seen, was queued.

### How the models meet the proofs

Where a definition is recursive in nature (the oldest entry, the ring, the
repaired transcript), the modules say what it is by sets, `CHOOSE` and closed
forms instead of folds: `EnqueueAll` gives the queue after any number of frames,
`Retained` the newest ids by their rank, `CausalOrder` and `LossIsTold` speak of
positions, and `files` of `Backups` is a function from artifacts to modification
times. Least elements (a free port, the nearest message that is not an answer,
the first frame out of order) come from `HasLeast` or `Smallest`, and greatest ones of
a finite set from `Greatest`; they rest on the well-foundedness of the naturals
(`WFMin`) and stand in for inductions.

### What stays with TLC

Liveness under fairness (`RunsSettle`, `Healed`, `HeadIsDeployed`, `CatchesUp`,
`TurnsEnd`, `StreamsClose`, `StopsTakeEffect`, `PreviewsExpire`): the provers have no
ENABLED, so of these only the safety halves above are proved. The violated
properties are TLC's by nature. The components of `MCProgress` and `MCServices` have
no type invariant in these runs: each of them is a theorem (`SupTypeOK`,
`BranchTypeOK`, `StreamTypeOK`, `TurnTypeOK`; `RelTypeOK`, `DbTypeOK`, `AccessTypeOK`,
`LogTypeOK`, `BackupsTypeOK`, `UpdTypeOK`, `ProjTypeOK`, `ChanTypeOK`, `ProxyTypeOK`).

## Not modelled, and what could follow

Left out on purpose: texts of logs, tokens and answers; the mirror of the plan
and the `pending_question` flag of a session (display only); generation of
Dockerfiles, ports and headers of the Caddy configuration, build plans and project skeletons (text out of
text); schema migration and the CRUD of the platform store, which is one
statement per call on independent tables; validation of requests and
presentation of answers, which is most of `main.py`, `api_router.py` and
`platform/types.py`; scripts that write documentation; OAuth, pull requests,
TLS probes, notifications and monitoring, which are network I/O without state of
their own; tools and prompts of the agent, which end in external programs or
models. Together these are most of the lines of the repository, and the share
the map covers is small for this reason.

What could follow: restore points of releases; `Supervisor` against a contract of
the unlocked lifecycle calls, as the callers of `issue_deploy` are against
`DeploySlot`; the plugin and the environment file of Caddy, whose absence has it
refuse a configuration that `Valid` accepts (`NotWritten` and the faults stand for it).
`Proxy` takes it that Caddy's package installs a valid primary file. A restart of
the server in the middle of a call on a database or a preview is not modelled: docker
goes on with what it was told, the row keeps what it says, and the unit's
`KillMode=control-group` (`systemd/syte.service:17`) takes the previews with the
server. Only calls of the agent are cancelled in `Previews`; a removal is a route's.
