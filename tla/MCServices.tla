----------------------------- MODULE MCServices -----------------------------
(***************************************************************************)
(* One instance for TLC of the services behind the platform's routes.      *)
(* They work on tables, files and containers of their own, so that         *)
(* interleaving them would only multiply their states: a behaviour belongs *)
(* to one of them, chosen in its initial state, and the others do not      *)
(* move.                                                                   *)
(***************************************************************************)
EXTENDS Releases, ManagedDatabases, Access, LogStream, Backups, SelfUpdate, Projects, Channels, Proxy,
        TLC

CONSTANT Parts   \* the services that are run

VARIABLE part    \* the service this behaviour belongs to

vars == <<part, relVars, dbVars, accessVars, logVars, backupVars, updVars, projVars, chanVars,
          proxyVars>>

\* A service that does not move starts in one of its initial states; the
\* proxy starts with the wildcard mode, which an update can switch off.
Init ==
    /\ part \in Parts
    /\ RelInit /\ DbInit /\ AccessInit /\ LogInit
    /\ BackupsInit /\ UpdInit /\ ProjInit /\ ChanInit /\ ProxyInit
    /\ part # "access" => \A q, r \in Requests : asked[q] = asked[r] /\ asked[q].kind = "page"
    /\ part # "logs" => logFile.size = 0 /\ logReader.pc = "snapshot" /\ ~logRequest.passed
    /\ wildcard /\ (machine.installed \/ ~machine.writable)
    /\ part # "proxy" => machine.installed /\ machine.writable

\* Calls, requests, creations, updates and approvals have nothing but their identity:
\* they are numbered, and of all their permutations only the one is run in
\* which they begin in the order of their numbers.  So do the two kinds of
\* deltas.  No more than two creations are under way at a time.  A name of the
\* proxy drifts where the properties speak of it: the update begun last is
\* alone, Caddy is there and /etc/caddy can be written; and no command failed.
InOrder ==
    /\ part = "releases" =>
        /\ \A q, r \in Releases : q < r /\ call[r] # "new" => call[q] # "new"
        /\ \A a, b \in Approvals : a < b /\ approval[b] # "none" => approval[a] # "none"
    /\ part = "databases" =>
        \A c, d \in DbCalls : c < d /\ dbCall[d].pc # "new" => dbCall[c].pc # "new"
    /\ part = "access" =>
        \A q, r \in Requests : q < r /\ asked[r].pc # "new" => asked[q].pc # "new"
    /\ part = "projects" =>
        /\ Cardinality({c \in Creators : maker[c].step # "new" /\ ~Settled(c)}) <= 2
        /\ \A c, d \in Creators : c < d /\ maker[d].step # "new" => maker[c].step # "new"
        /\ \A c \in Creators, u \in Uuids :
              u < maker[c].id => \E d \in Creators : d < c /\ maker[d].id = u
    /\ part = "channels" =>
        \A i \in DOMAIN pushed : pushed[i] = "thought" => \E j \in 1..(i - 1) : pushed[j] = "token"
    /\ part = "proxy" =>
        /\ \A u, v \in Updates : u < v /\ upd[v].pc # "new" => upd[u].pc # "new"
        /\ drifted # {} =>
              /\ machine.writable /\ machine.installed /\ faults = 0 /\ since.alone
              /\ \E u \in Updates : upd[u].pc # "new"

\* The hosts of the proxy that occur in the state, and the projects.
Blocks == UNION {disk["primary"], disk["fallback"], caddy.config}
HostsSeen == Hosts \cap ({named[o] : o \in Owners} \cup {r.host : r \in Blocks}
                         \cup {upd[u].reads[o] : u \in Updates, o \in Owners})
ProjectsSeen == Production \cap (drifted \cup {r.owner : r \in Blocks}
    \cup {o \in Owners : named[o] # NoHost \/ \E u \in Updates : upd[u].reads[o] # NoHost})

\* Hosts are alike, and so are projects: as long as none of them occurs, the
\* one to come is always the same.
FirstNames ==
    /\ HostsSeen = {} => HostsSeen' \subseteq {CHOOSE h \in Hosts : TRUE}
    /\ ProjectsSeen = {} => ProjectsSeen' \subseteq {CHOOSE o \in Production : TRUE}

Of(p, Step) ==
    /\ part = p
    /\ Step
    /\ UNCHANGED part
    /\ p # "releases" => UNCHANGED relVars
    /\ p # "databases" => UNCHANGED dbVars
    /\ p # "access" => UNCHANGED accessVars
    /\ p # "logs" => UNCHANGED logVars
    /\ p # "backups" => UNCHANGED backupVars
    /\ p # "update" => UNCHANGED updVars
    /\ p # "projects" => UNCHANGED projVars
    /\ p # "channels" => UNCHANGED chanVars
    /\ p # "proxy" => UNCHANGED proxyVars
    /\ InOrder'
    /\ p = "proxy" => FirstNames

Next ==
    \/ Of("releases", RelNext)
    \/ Of("databases", DbNext)
    \/ Of("access", AccessNext)
    \/ Of("logs", LogNext)
    \/ Of("backups", BackupsNext)
    \/ Of("update", UpdNext)
    \/ Of("projects", ProjNext)
    \/ Of("channels", ChanNext)
    \/ Of("proxy", ProxyNext)

Spec == Init /\ [][Next]_vars

-----------------------------------------------------------------------------
\* Two databases with a schedule each: the one every minute, with a copy in
\* S3; the other in minute 2, kept twice, by an expression that is written
\* with a token the scheduler does not know.
ScheduledDatabase == "s1" :> "d" @@ "s2" :> "e"
OwnFiles   == {<<"d", "d">>, <<"e", "e">>}
Minutely   == "s1" :> {<<"every", 1>>} @@ "s2" :> {<<"at", 2>>, <<"other", 0>>}
KeepLocally     == "s1" :> 1 @@ "s2" :> 2

\* Commits 1 and 2 follow each other, 3 is on its own and older by version.
Versions == 1 :> 2 @@ 2 :> 2 @@ 3 :> 1
Ancestors == {<<1, 1>>, <<2, 2>>, <<3, 3>>, <<1, 2>>}

\* Two hosts of one zone whose names differ in a dot and a dash.
SameMatcher == [h \in Hosts |-> "a_b"]
=============================================================================
