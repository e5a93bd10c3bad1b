-------------------------------- MODULE Proxy --------------------------------
(***************************************************************************)
(* The reverse proxy (syte/certificates.py, syte/caddy_routes.py).  Whoever *)
(* changes a domain, a port or the mode of TLS then renders the whole      *)
(* configuration from settings and rows, writes it, has Caddy validate it  *)
(* and makes Caddy load it, with awaits between all of these and without   *)
(* a lock.  Caddy refuses a configuration in which a host or the matcher   *)
(* of a host comes twice; nothing keeps two projects from one domain.      *)
(* Some routes change a name and apply nothing: it waits for the next      *)
(* request that does.                                                      *)
(***************************************************************************)
EXTENDS Naturals, FiniteSets

CONSTANTS
    Production,   \* production domains: projects.domain of each project
    Dedicated,    \* preview and custom TLS domains of projects
    Hosts,        \* host names
    Apex,         \* those that are a zone themselves
    Matcher,      \* caddy_matcher_name, with the zone of the host
    Updates,      \* requests that change a name and apply the configuration
    MaxFaults,    \* bound on commands that fail or time out for no reason, exits
                  \* of Caddy and reboots of the machine
    MaxDrift,     \* bound on the projects whose names have changed without an
                  \* apply since the last request began
    NoHost

Owners == Production \cup Dedicated \cup {"gui", "global"}

ASSUME ProxyAssumption ==
    /\ Apex \subseteq Hosts /\ NoHost \notin Hosts
    /\ {"gui", "global"} \cap (Production \cup Dedicated) = {}
    /\ MaxFaults \in Nat /\ MaxDrift \in Nat

VARIABLES
    named,        \* the settings gui_domain, custom_tls_host and the rows of projects
    wildcard,     \* whether _use_wildcard_tls holds
    disk,         \* caddy_config_path, and the Caddyfile in data_dir
    caddy,        \* whether Caddy is up, and the configuration it has loaded
    machine,      \* whether Caddy is installed and /etc/caddy can be written
    upd,          \* each request: its next step, whether it sets the domain of
                  \* the GUI, and what it has read
    outcome,      \* what the last request was told
    since,        \* history: whether the last request to begin has been alone
                  \* ever since, whether Caddy was up when it began, and whether
                  \* a restart or a start has failed since and left it down
    drifted,      \* history: names changed without an apply since it began
    faults

proxyVars == <<named, wildcard, disk, caddy, machine, upd, outcome, since, drifted, faults>>

Names == [Owners -> Hosts \cup {NoHost}]
Targets == {"primary", "fallback"}

-----------------------------------------------------------------------------
(* Rendering *)

\* render_all_service_routes: in the wildcard mode the production domains of
\* a zone share a block and are told apart by their matchers; every other
\* name is a block of its own.
Block(o, h, wild) == IF wild /\ o \in Production /\ h \notin Apex THEN <<"handle", Matcher[h]>>
                     ELSE <<"site", h>>

\* async_generate_caddyfile
Rendered(names, wild) ==
    {[owner |-> o, host |-> names[o], block |-> Block(o, names[o], wild)] :
        o \in {p \in Owners : names[p] # NoHost}}

\* The part of a configuration that is as it was when the last request began.
Undrifted(config) == {r \in config : r.owner \notin drifted}

\* Caddy accepts a configuration if no site and no matcher is defined twice.
Valid(config) == \A r, s \in config : r.block = s.block => r = s

Configs == SUBSET [owner : Owners, host : Hosts,
                   block : ({"site"} \X Hosts) \cup ({"handle"} \X {Matcher[h] : h \in Hosts})]

-----------------------------------------------------------------------------
FreshUpdate == [pc |-> "new", gui |-> FALSE, reads |-> [o \in Owners |-> NoHost], wild |-> FALSE,
                cancelled |-> FALSE]

Awaits == {"gui", "tls", "projects", "global", "write", "revert"}
Threads == {"validate", "reload", "unit", "restart", "ensure", "last"}
Outcomes == {"none", "applied", "saved", "failed"}

ProxyTypeOK ==
    /\ named \in Names
    /\ wildcard \in BOOLEAN
    /\ disk \in [Targets -> Configs]
    /\ caddy \in [up : BOOLEAN, config : Configs]
    /\ machine \in [installed : BOOLEAN, writable : BOOLEAN]
    /\ upd \in [Updates -> [pc : Awaits \cup Threads \cup {"new", "done"}, gui : BOOLEAN,
                            reads : Names, wild : BOOLEAN, cancelled : BOOLEAN]]
    /\ outcome \in Outcomes
    /\ since \in [alone : BOOLEAN, up : BOOLEAN, broken : BOOLEAN]
    /\ drifted \subseteq Owners
    /\ faults \in 0..MaxFaults

\* Caddy's package comes with a configuration without any of our names.
ProxyInit ==
    /\ named = [o \in Owners |-> NoHost]
    /\ wildcard \in BOOLEAN
    /\ disk = [t \in Targets |-> {}]
    /\ machine \in [installed : BOOLEAN, writable : BOOLEAN]
    /\ caddy = [up |-> machine.installed, config |-> {}]
    /\ upd = [u \in Updates |-> FreshUpdate]
    /\ outcome = "none"
    /\ since = [alone |-> TRUE, up |-> machine.installed, broken |-> FALSE]
    /\ drifted = {}
    /\ faults = 0

Applying == {u \in Updates : upd[u].pc \notin {"new", "done"}}

Fault == faults < MaxFaults /\ faults' = faults + 1

\* A request that was cancelled goes no further than the command of its thread.
Over == [FreshUpdate EXCEPT !.pc = "done"]

Goes(u, pc) ==
    upd' = [upd EXCEPT ![u] = IF @.cancelled \/ pc = "done" THEN Over ELSE [@ EXCEPT !.pc = pc]]

\* The route that sets the domain of the GUI takes it back if that failed.
Ended(u, result) ==
    IF result = "failed" /\ upd[u].gui THEN "revert" ELSE "done"

Finish(u, result) ==
    /\ Goes(u, Ended(u, result))
    /\ outcome' = IF upd[u].cancelled THEN outcome ELSE result

-----------------------------------------------------------------------------
(* Requests: set_custom_domain, the routes of settings and certificates,   *)
(* deploys, previews and removals, of which each changes a name or none    *)

Begin(u) ==
    /\ upd[u].pc = "new"
    /\ since' = [alone |-> Applying = {}, up |-> caddy.up, broken |-> FALSE]
    /\ drifted' = {}
    /\ UNCHANGED <<disk, caddy, machine, outcome, faults>>

SetName(u, o, h) ==
    /\ Begin(u)
    /\ named' = [named EXCEPT ![o] = h]
    /\ upd' = [upd EXCEPT ![u].pc = "gui", ![u].gui = (o = "gui" /\ h # NoHost)]
    /\ UNCHANGED wildcard

\* The token of Cloudflare, or preview_wildcard_tls; no name.
SetMode(u) ==
    /\ Begin(u)
    /\ wildcard' = ~wildcard
    /\ upd' = [upd EXCEPT ![u].pc = "gui"]
    /\ UNCHANGED named

\* The task is cancelled at an await (a deploy that is cancelled); the
\* thread of a command goes on.
CancelUpdate(u) ==
    /\ u \in Applying /\ ~upd[u].cancelled
    /\ upd' = [upd EXCEPT ![u] = IF @.pc \in Awaits THEN Over
                                 ELSE [@ EXCEPT !.cancelled = TRUE]]
    /\ outcome' = "failed"
    /\ UNCHANGED <<named, wildcard, disk, caddy, machine, since, drifted, faults>>

RevertGui(u) ==
    /\ upd[u].pc = "revert"
    /\ named' = [named EXCEPT !["gui"] = NoHost]
    /\ Goes(u, "done")
    /\ UNCHANGED <<wildcard, disk, caddy, machine, outcome, since, drifted, faults>>

-----------------------------------------------------------------------------
(* apply_proxy_config *)

\* The names are read in the order of async_generate_caddyfile.
ReadNames(u, pc, owners, next) ==
    /\ upd[u].pc = pc
    /\ upd' = [upd EXCEPT ![u].pc = next,
                          ![u].reads = [o \in Owners |-> IF o \in owners THEN named[o] ELSE @[o]]]
    /\ UNCHANGED <<named, wildcard, disk, caddy, machine, outcome, since, drifted, faults>>

ReadGui(u) == ReadNames(u, "gui", {"gui"}, "tls")
ReadRoutes(u) == ReadNames(u, "projects", Production \cup Dedicated, "global")
ReadGlobal(u) == ReadNames(u, "global", {"global"}, "write")

ReadTls(u) ==
    /\ upd[u].pc = "tls"
    /\ upd' = [upd EXCEPT ![u].pc = "projects", ![u].wild = wildcard]
    /\ UNCHANGED <<named, wildcard, disk, caddy, machine, outcome, since, drifted, faults>>

Target == IF machine.writable THEN "primary" ELSE "fallback"

\* The text goes to the first of the two files that can be written.
WriteConfig(u) ==
    /\ upd[u].pc = "write"
    /\ disk' = [disk EXCEPT ![Target] = Rendered(upd[u].reads, upd[u].wild)]
    /\ IF machine.installed
       THEN /\ upd' = [upd EXCEPT ![u].pc = "validate", ![u].reads = FreshUpdate.reads,
                                 ![u].wild = FALSE]
            /\ UNCHANGED outcome
       ELSE Finish(u, "saved")
    /\ UNCHANGED <<named, wildcard, caddy, machine, since, drifted, faults>>

\* Neither file can be written, or the file with the token is missing.
NotWritten(u) ==
    /\ upd[u].pc = "write"
    /\ Fault
    /\ Finish(u, "failed")
    /\ UNCHANGED <<named, wildcard, disk, caddy, machine, since, drifted>>

\* A step of the thread at pc, which goes on to next or, if the command
\* fails, to otherwise.  One that fails for no reason, or that is killed after
\* its timeout, may have had its effect.
Command(u, pc, works, effect, next, otherwise) ==
    /\ upd[u].pc = pc
    /\ \/ works /\ caddy' = effect /\ Goes(u, next) /\ UNCHANGED faults
       \/ ~works /\ UNCHANGED caddy /\ Goes(u, otherwise) /\ UNCHANGED faults
       \/ Fault /\ Goes(u, otherwise) /\ caddy' \in {caddy, IF works THEN effect ELSE caddy}
    /\ UNCHANGED <<named, wildcard, disk, machine, outcome, since, drifted>>

\* (mutant) the configuration is reloaded whatever caddy validate says
ValidatedAnyway(config) == TRUE

Validated(config) == Valid(config)

\* caddy validate
ValidateConfig(u) ==
    /\ upd[u].pc = "validate"
    /\ \/ Validated(disk[Target]) /\ Goes(u, "reload") /\ UNCHANGED <<outcome, faults>>
       \/ ~Validated(disk[Target]) /\ Finish(u, "failed") /\ UNCHANGED faults
       \/ Fault /\ Finish(u, "failed")
    /\ UNCHANGED <<named, wildcard, disk, caddy, machine, since, drifted>>

Loads(t) == [up |-> TRUE, config |-> disk[t]]

\* caddy reload --config: the file as it is by now
ReloadConfig(u) ==
    Command(u, "reload", caddy.up /\ Valid(disk[Target]), Loads(Target), "ensure", "unit")

\* systemctl reload caddy: the unit knows the primary file only.
ReloadUnit(u) ==
    Command(u, "unit", caddy.up /\ Valid(disk["primary"]), Loads("primary"), "ensure", "restart")

\* systemctl restart caddy stops it before it starts it: a start that fails
\* for no reason leaves it down.
Down == [caddy EXCEPT !.up = FALSE]

Started == IF Valid(disk["primary"]) THEN Loads("primary") ELSE Down

Broken(states) == Fault /\ caddy' \in states /\ since' = [since EXCEPT !.broken = @ \/ ~caddy'.up]

RestartUnit(u) ==
    /\ upd[u].pc = "restart"
    /\ \/ /\ caddy' = Started
          /\ Goes(u, IF Valid(disk["primary"]) THEN "ensure" ELSE "last")
          /\ UNCHANGED <<since, faults>>
       \/ Broken({caddy, Down, Started}) /\ Goes(u, "last")
    /\ UNCHANGED <<named, wildcard, disk, machine, outcome, drifted>>

\* ensure_caddy does not wait for the Caddy it starts itself, and says that it
\* was started also if it exits at once; it fails if nothing can be executed.
EnsureCaddy(u) ==
    /\ upd[u].pc \in {"ensure", "last"}
    /\ LET told == IF upd[u].pc = "ensure" THEN "applied" ELSE "saved" IN
       \/ /\ caddy' = IF caddy.up THEN caddy ELSE Started
          /\ Finish(u, told)
          /\ UNCHANGED <<since, faults>>
       \/ ~caddy.up /\ Broken({Down}) /\ (Finish(u, told) \/ Finish(u, "failed"))
    /\ UNCHANGED <<named, wildcard, disk, machine, drifted>>

-----------------------------------------------------------------------------
(* Without apply_proxy_config *)

\* ensure_preview_address, also of the routes that only read projects, and
\* deploy-detected: the row has a name that no configuration has yet.
Rename(o, h) ==
    /\ o \in Production \cup Dedicated /\ named[o] # h
    /\ Cardinality(drifted \cup {o}) <= MaxDrift
    /\ named' = [named EXCEPT ![o] = h]
    /\ drifted' = drifted \cup {o}
    /\ UNCHANGED <<wildcard, disk, caddy, machine, upd, outcome, since, faults>>

\* ensure_caddy of the supervisor, which starts Caddy if it is down.
Maintain ==
    /\ machine.installed /\ ~caddy.up
    /\ caddy' = Started
    /\ UNCHANGED <<named, wildcard, disk, machine, upd, outcome, since, drifted, faults>>

-----------------------------------------------------------------------------
(* The machine *)

CaddyExits ==
    /\ caddy.up /\ Fault
    /\ caddy' = Down
    /\ since' = [since EXCEPT !.alone = FALSE]
    /\ UNCHANGED <<named, wildcard, disk, machine, upd, outcome, drifted>>

\* Caddy starts from the primary file; requests are gone with the server.
Reboot ==
    /\ machine.installed /\ Fault
    /\ caddy' = Started
    /\ upd' = [u \in Updates |-> IF u \in Applying THEN Over ELSE upd[u]]
    /\ outcome' = IF Applying = {} THEN outcome ELSE "failed"
    /\ since' = [since EXCEPT !.up = FALSE]
    /\ UNCHANGED <<named, wildcard, disk, machine, drifted>>

UpdateStep(u) ==
    \/ \E o \in Owners, h \in Hosts \cup {NoHost} : SetName(u, o, h)
    \/ SetMode(u) \/ CancelUpdate(u) \/ RevertGui(u)
    \/ ReadGui(u) \/ ReadTls(u) \/ ReadRoutes(u) \/ ReadGlobal(u)
    \/ WriteConfig(u) \/ NotWritten(u) \/ ValidateConfig(u)
    \/ ReloadConfig(u) \/ ReloadUnit(u) \/ RestartUnit(u) \/ EnsureCaddy(u)

ProxyNext ==
    \/ \E u \in Updates : UpdateStep(u)
    \/ \E o \in Owners, h \in Hosts : Rename(o, h)
    \/ Maintain \/ CaddyExits \/ Reboot

ProxySpec == ProxyInit /\ [][ProxyNext]_proxyVars

-----------------------------------------------------------------------------
(* Properties *)

\* A request that was told that its configuration is applied, and was not
\* disturbed by another one, finds Caddy serving what the rows and settings
\* say, also when the requests before it got in each other's way, and after
\* a reboot; except for the names that have changed since without an apply.
\* In /etc/caddy, that is: the unit does not know the other file.
AppliedIsServed ==
    Applying = {} /\ since.alone /\ outcome = "applied" /\ machine.writable
       => /\ caddy.up
          /\ Undrifted(caddy.config) = Undrifted(Rendered(named, wildcard))

\* A request that is not disturbed does not bring Caddy down, although the
\* last of its commands restarts it and although a configuration that Caddy
\* refuses stays on disk: nothing is restarted after a refusal.  Only a restart
\* that fails for no reason leaves Caddy down.
CaddyKept == since.alone /\ since.up /\ ~since.broken => caddy.up

\* Both of them together.
ProxyServes == AppliedIsServed /\ CaddyKept
=============================================================================
