--------------------------- MODULE PreviewsProofs ---------------------------
(***************************************************************************)
(* Proofs about Previews: a live preview process is found through its pid  *)
(* file and no two projects have the same port, as long as calls do not    *)
(* meet on a project or pick ports at the same time.                       *)
(*                                                                         *)
(* The inductive invariant says what a call holds while it is suspended    *)
(* (CallKept): a port that is the one of the row, a process it has         *)
(* started, a pid file that stays empty until it writes it, and a project  *)
(* that nobody else works on unless a race is noted; what a pid file names *)
(* (PidKept); and how ports that are picked and not stored yet relate to   *)
(* those in the table (PortsKept).                                         *)
(***************************************************************************)
EXTENDS Previews, WellFoundedInduction, TLAPS

Live(k) == proc[k].state \in {"up", "listening"}
Working(c) == user[c].pc \notin {"new", "done"}
WithPort == {"store", "decide", "spawn", "wait", "publish"}

\* A call has its project to itself, or the project has seen a race.
Solo(c) ==
    user[c].app \notin races /\ Working(c) =>
        /\ user[c].app \notin pass.left \cup pass.writes
        /\ \A d \in Calls : Working(d) /\ user[d].app = user[c].app => d = c

CallKept(c) ==
    /\ user[c].pc \in WithPort => user[c].port \in Ports
    /\ user[c].pc = "wait" => /\ user[c].proc \in Procs
                              /\ proc[user[c].proc].state # "unused"
                              /\ Live(user[c].proc) => proc[user[c].proc].app = user[c].app
    /\ user[c].app \notin races /\ user[c].pc \in {"spawn", "wait"} => pid[user[c].app] = 0
    /\ user[c].app \notin races /\ user[c].pc \in WithPort \ {"store"} /\ row[user[c].app].present
          => row[user[c].app].port = user[c].port
    /\ Solo(c)

PidKept(a) ==
    pid[a] # 0 => /\ proc[pid[a]].state # "unused"
                  /\ Live(pid[a]) => proc[pid[a]].app = a

PortsKept ==
    ~clashes =>
        /\ \A c, d \in Calls : At(c, "store") /\ At(d, "store") => c = d
        /\ \A c \in Calls, b \in Apps \ races :
              At(c, "store") /\ b # user[c].app /\ row[b].present => row[b].port # user[c].port

PrevInv ==
    /\ PrevTypeOK
    /\ \A c \in Calls : CallKept(c)
    /\ \A a \in Apps : PidKept(a)
    /\ ProcessReachable
    /\ PortsKept /\ PortsDistinct

-----------------------------------------------------------------------------
(* What steps have in common *)

\* A process that was started stays on its project for as long as it lives.
ProcsKept ==
    \A k \in Procs : proc[k].state # "unused" =>
        /\ proc'[k].state # "unused"
        /\ Live(k)' => Live(k) /\ proc'[k].app = proc[k].app

\* What a pid file named and is alive is still named.
PidsKept == \A a \in Apps : \A k \in Procs : pid[a] = k /\ Live(k)' => pid'[a] = k

RowsKept ==
    \A b \in Apps \ races' : row'[b].present => row[b].present /\ row'[b].port = row[b].port

LEMMA CallFrame ==
  ASSUME NEW c \in Calls, CallKept(c), user'[c] = user[c], races \subseteq races', ProcsKept,
         user[c].app \notin races' /\ Working(c) =>
            /\ pid'[user[c].app] \in {pid[user[c].app], 0}
            /\ row'[user[c].app].present => row[user[c].app].present
                                            /\ row'[user[c].app].port = row[user[c].app].port
            /\ user[c].app \notin pass'.left \cup pass'.writes
            /\ \A d \in Calls : Working(d)' /\ user'[d].app = user[c].app => d = c
  PROVE  CallKept(c)'
<1>1. CASE ~Working(c)
  BY <1>1 DEF CallKept, Working, WithPort, Solo
<1>2. CASE Working(c)
  <2>1. Solo(c)'
    BY <1>2 DEF Solo
  <2>2. user[c].pc = "wait" => /\ user[c].proc \in Procs
                               /\ proc'[user[c].proc].state # "unused"
                               /\ Live(user[c].proc)' => proc'[user[c].proc].app = user[c].app
    BY DEF CallKept, ProcsKept
  <2>3. user[c].app \notin races' => user[c].app \notin races
    OBVIOUS
  <2>4. (user[c].app \notin races /\ user[c].pc \in {"spawn", "wait"} => pid[user[c].app] = 0)'
    BY <1>2, <2>3 DEF CallKept
  <2>5. (user[c].app \notin races /\ user[c].pc \in WithPort \ {"store"} /\ row[user[c].app].present
          => row[user[c].app].port = user[c].port)'
    BY <1>2, <2>3 DEF CallKept
  <2>6. (user[c].pc \in WithPort => user[c].port \in Ports)'
    BY DEF CallKept
  <2>7. (Live(user[c].proc) => proc[user[c].proc].app = user[c].app)' <=>
        (Live(user[c].proc)' => proc'[user[c].proc].app = user[c].app)
    OBVIOUS
  <2> QED BY <2>1, <2>2, <2>4, <2>5, <2>6 DEF CallKept, Live
<1> QED BY <1>1, <1>2

LEMMA PidFrame ==
  ASSUME PrevTypeOK, ProcsKept, NEW a \in Apps, PidKept(a), pid'[a] \in {pid[a], 0}
  PROVE  PidKept(a)'
<1>1. pid[a] # 0 => pid[a] \in Procs
  BY DEF PrevTypeOK, Procs
<1> QED BY <1>1 DEF PidKept, ProcsKept, Live

LEMMA ReachFrame ==
  ASSUME PrevTypeOK, ProcessReachable, races \subseteq races', orphans \subseteq orphans',
         ProcsKept, PidsKept, \A k \in Procs : proc[k].state = "unused" => ~Live(k)',
         \A c \in Calls : At(c, "wait") => \/ At(c, "wait")' /\ user'[c].proc = user[c].proc
                                           \/ user[c].proc \in orphans'
  PROVE  ProcessReachable'
<1> SUFFICES ASSUME NEW k \in Procs, Live(k)', proc'[k].app \notin races', k \notin orphans'
             PROVE  InFlight(k)' \/ pid'[proc'[k].app] = k
  BY DEF ProcessReachable, Live
<1>1. proc[k].state # "unused" /\ Live(k) /\ proc'[k].app = proc[k].app
  BY DEF ProcsKept
<1>2. proc[k].app \notin races /\ proc[k].app \in Apps /\ k \notin orphans
  BY <1>1 DEF PrevTypeOK
<1>3. CASE InFlight(k)
  BY <1>3 DEF InFlight
<1>4. CASE pid[proc[k].app] = k
  BY <1>1, <1>2, <1>4 DEF PidsKept
<1> QED BY <1>1, <1>2, <1>3, <1>4 DEF ProcessReachable, Live

LEMMA PortsFrame ==
  ASSUME PortsKept, PortsDistinct, clashes => clashes', races \subseteq races', RowsKept,
         \A c \in Calls : At(c, "store")' => /\ At(c, "store") /\ user'[c].port = user[c].port
                                             /\ user'[c].app = user[c].app
  PROVE  PortsKept' /\ PortsDistinct'
<1>1. \A b \in Apps \ races' : b \in Apps \ races
  OBVIOUS
<1>2. PortsKept'
  BY <1>1 DEF PortsKept, RowsKept
<1>3. PortsDistinct'
  BY <1>1 DEF PortsDistinct, RowsKept
<1> QED BY <1>2, <1>3

-----------------------------------------------------------------------------
(* Calls *)

\* A step of a call concerns its project only.
OnlyCall(c) ==
    /\ Working(c) /\ user'[c].app = user[c].app
    /\ \A d \in Calls \ {c} : user'[d] = user[d]
    /\ UNCHANGED <<pass, races>>
    /\ orphans \subseteq orphans' /\ undated \ {user[c].app} \subseteq undated'
    /\ \A b \in Apps \ {user[c].app} : row'[b] = row[b] /\ pid'[b] = pid[b]

LEMMA OthersKept ==
  ASSUME PrevInv, NEW c \in Calls, OnlyCall(c), ProcsKept
  PROVE  Solo(c)' /\ \A d \in Calls \ {c} : CallKept(d)'
<1>1. CallKept(c) /\ races' = races /\ pass' = pass /\ user[c].app \in Apps
  BY DEF PrevInv, OnlyCall, PrevTypeOK, Call
<1>2. Solo(c)'
  BY <1>1 DEF CallKept, Solo, OnlyCall, Working
<1>3. ASSUME NEW d \in Calls \ {c} PROVE CallKept(d)'
  <2>1. CallKept(d) /\ user'[d] = user[d] /\ user[d].app \in Apps
    BY DEF PrevInv, OnlyCall, PrevTypeOK, Call
  <2>2. ASSUME user[d].app \notin races, Working(d)
        PROVE  /\ user[d].app # user[c].app
               /\ user[d].app \notin pass.left \cup pass.writes
               /\ \A e \in Calls : Working(e)' /\ user'[e].app = user[d].app => e = d
    <3>1. Solo(d)
      BY <2>1 DEF CallKept
    <3>2. /\ user[d].app \notin pass.left \cup pass.writes
          /\ \A e \in Calls : Working(e) /\ user[e].app = user[d].app => e = d
      BY <2>2, <3>1 DEF Solo
    <3>3. user[d].app # user[c].app
      BY <3>2 DEF OnlyCall
    <3> QED BY <3>2, <3>3 DEF OnlyCall, Working
  <2>3. user[d].app # user[c].app =>
          row'[user[d].app] = row[user[d].app] /\ pid'[user[d].app] = pid[user[d].app]
    BY <2>1 DEF OnlyCall
  <2> QED BY <1>1, <2>1, <2>2, <2>3, CallFrame
<1> QED BY <1>2, <1>3

\* What is left to show of a step of a call that does not end its wait.
LEMMA CallGoes ==
  ASSUME PrevInv, NEW c \in Calls, OnlyCall(c), ProcsKept, PidsKept, PrevTypeOK',
         pid'[user[c].app] \in {pid[user[c].app], 0},
         \A k \in Procs : proc[k].state = "unused" => ~Live(k)',
         At(c, "wait") => user[c].proc \in orphans', PortsKept', PortsDistinct',
         Solo(c)' => CallKept(c)'
  PROVE  PrevInv'
<1>1. \A d \in Calls : CallKept(d)'
  BY OthersKept
<1>2. \A a \in Apps : PidKept(a)'
  <2> SUFFICES ASSUME NEW a \in Apps PROVE PidKept(a)'
    OBVIOUS
  <2>1. pid'[a] \in {pid[a], 0}
    BY DEF OnlyCall
  <2> QED BY <2>1, PidFrame DEF PrevInv
<1>3. ProcessReachable'
  <2>1. \A d \in Calls : At(d, "wait") => \/ At(d, "wait")' /\ user'[d].proc = user[d].proc
                                          \/ user[d].proc \in orphans'
    BY DEF OnlyCall, At
  <2> QED BY <2>1, ReachFrame DEF PrevInv, OnlyCall
<1> QED BY <1>1, <1>2, <1>3 DEF PrevInv

\* And of one that has nothing to do with the choice of a port.
LEMMA CallMoves ==
  ASSUME PrevInv, NEW c \in Calls, OnlyCall(c), ProcsKept, PidsKept, PrevTypeOK',
         pid'[user[c].app] \in {pid[user[c].app], 0},
         \A k \in Procs : proc[k].state = "unused" => ~Live(k)',
         At(c, "wait") => user[c].proc \in orphans', ~At(c, "store")', RowsKept, clashes => clashes',
         Solo(c)' => CallKept(c)'
  PROVE  PrevInv'
<1>1. \A d \in Calls : At(d, "store")' => /\ At(d, "store") /\ user'[d].port = user[d].port
                                          /\ user'[d].app = user[d].app
  BY DEF OnlyCall, At
<1>2. PortsKept' /\ PortsDistinct'
  BY <1>1, PortsFrame DEF PrevInv, OnlyCall
<1> QED BY <1>2, CallGoes

LEMMA SameProcs ==
  ASSUME PrevTypeOK, UNCHANGED proc
  PROVE  ProcsKept /\ \A k \in Procs : proc[k].state = "unused" => ~Live(k)'
BY DEF ProcsKept, Live

\* The process in the pid file is gone or about to go; others live on.
LEMMA Kills ==
  ASSUME PrevTypeOK, NEW a \in Apps, Kill(a)
  PROVE  /\ pid'[a] = 0 /\ \A b \in Apps \ {a} : pid'[b] = pid[b]
         /\ ProcsKept /\ PidsKept /\ \A k \in Procs : proc[k].state = "unused" => ~Live(k)'
         /\ pid' \in [Apps -> 0..MaxProcs]
         /\ proc' \in [Procs -> [app : Apps, port : Ports \cup {0}, state : ProcStates]]
         /\ \A k \in Procs : proc'[k].state \in {"up", "listening", "dying"} => proc'[k].port \in Ports
<1>1. /\ pid \in [Apps -> 0..MaxProcs]
      /\ proc \in [Procs -> [app : Apps, port : Ports \cup {0}, state : ProcStates]]
      /\ \A k \in Procs : proc[k].state \in {"up", "listening", "dying"} => proc[k].port \in Ports
      /\ MaxProcs \in Nat
  BY PreviewsAssumption DEF PrevTypeOK, PreviewsAssumption
<1>2. /\ pid' \in [Apps -> 0..MaxProcs] /\ pid'[a] = 0 /\ \A b \in Apps \ {a} : pid'[b] = pid[b]
  BY <1>1 DEF Kill
<1> DEFINE j == pid[a]
<1>3. Running(a) => j \in Procs
  BY <1>1 DEF Running, Procs
<1>4. SomeApp \in Apps
  BY PreviewsAssumption DEF SomeApp, PreviewsAssumption
<1>5. CASE Running(a) /\ proc[j].state = "listening"
  <2>1. proc' = [proc EXCEPT ![j].state = "dying"] /\ j \in Procs
    BY <1>3, <1>5 DEF Kill
  <2>2. /\ proc' \in [Procs -> [app : Apps, port : Ports \cup {0}, state : ProcStates]]
        /\ proc'[j].state = "dying" /\ proc'[j].port = proc[j].port
        /\ \A k \in Procs \ {j} : proc'[k] = proc[k]
    BY <1>1, <2>1 DEF ProcStates
  <2> QED BY <1>1, <1>2, <1>5, <2>1, <2>2 DEF ProcsKept, PidsKept, Live
<1>6. CASE Running(a) /\ proc[j].state = "up"
  <2>1. proc' = [proc EXCEPT ![j] = NoProc("gone")] /\ j \in Procs
    BY <1>3, <1>6 DEF Kill
  <2>2. /\ proc' \in [Procs -> [app : Apps, port : Ports \cup {0}, state : ProcStates]]
        /\ proc'[j].state = "gone"
        /\ \A k \in Procs \ {j} : proc'[k] = proc[k]
    BY <1>1, <1>4, <2>1 DEF ProcStates, NoProc
  <2> QED BY <1>1, <1>2, <1>6, <2>1, <2>2 DEF ProcsKept, PidsKept, Live
<1>7. CASE ~(Running(a) /\ proc[j].state \in {"listening", "up"})
  <2>1. proc' = proc
    BY <1>7 DEF Kill
  <2>2. \A k \in Procs : pid[a] = k => ~Live(k)
    BY <1>7 DEF Running, Alive, Live, Procs
  <2> QED BY <1>1, <1>2, <2>1, <2>2, SameProcs DEF PidsKept, Live
<1> QED BY <1>5, <1>6, <1>7

\* The row of one project is written.
LEMMA Writes ==
  ASSUME PrevTypeOK, NEW a \in Apps, NEW r \in Row, Write(a, r), r.present = row[a].present
  PROVE  /\ row' \in [Apps -> Row] /\ settled' \in [Apps -> BOOLEAN]
         /\ \A b \in Apps : row'[b].present = row[b].present
         /\ \A b \in Apps \ {a} : row'[b] = row[b]
         /\ row[a].present => row'[a] = r
         /\ ~row[a].present => row'[a] = row[a]
BY DEF Write, PrevTypeOK

\* A call moves on; what it holds is typed.
LEMMA UserTyped ==
  ASSUME PrevTypeOK, NEW c \in Calls, NEW r \in Call, user' = [user EXCEPT ![c] = r]
  PROVE  user' \in [Calls -> Call] /\ user'[c] = r /\ \A d \in Calls \ {c} : user'[d] = user[d]
BY DEF PrevTypeOK

LEMMA Returns ==
  ASSUME PrevTypeOK, NEW c \in Calls, Return(c)
  PROVE  /\ user' \in [Calls -> Call] /\ \A d \in Calls \ {c} : user'[d] = user[d]
         /\ user'[c].pc = "done" /\ user'[c].app = user[c].app
<1>1. user[c] \in Call /\ SomeApp \in Apps /\ 0 \in 0..MaxProcs
  BY PreviewsAssumption DEF PrevTypeOK, SomeApp, PreviewsAssumption
<1> DEFINE r == [NewCall EXCEPT !.kind = user[c].kind, !.app = user[c].app, !.pc = "done"]
<1>2. r \in Call /\ r.pc = "done" /\ r.app = user[c].app
  BY <1>1 DEF Call, NewCall, Statuses
<1> HIDE DEF r
<1>3. user' = [user EXCEPT ![c] = r]
  BY DEF Return, r
<1> QED BY <1>2, <1>3, UserTyped

LEMMA WritesNext ==
  ASSUME PrevTypeOK, NEW c \in Calls, NEW s \in Statuses, ThenWrite(c, s)
  PROVE  /\ user' \in [Calls -> Call] /\ \A d \in Calls \ {c} : user'[d] = user[d]
         /\ user'[c].pc = "write" /\ user'[c].app = user[c].app
<1>1. /\ user \in [Calls -> Call] /\ user[c] \in Call
      /\ user' = [user EXCEPT ![c].next = s, ![c].pc = "write"]
  BY DEF PrevTypeOK, ThenWrite
<1>2. /\ \A d \in Calls \ {c} : user'[d] = user[d]
      /\ user'[c] = [user[c] EXCEPT !.next = s, !.pc = "write"]
  BY <1>1
<1>3. user'[c] \in Call /\ user'[c].pc = "write" /\ user'[c].app = user[c].app
  BY <1>1, <1>2 DEF Call
<1>4. user' \in [Calls -> Call]
  BY <1>1, <1>3
<1> QED BY <1>2, <1>3, <1>4

LEMMA GoesOn ==
  ASSUME PrevTypeOK, NEW c \in Calls, NEW pc \in {"spawn", "stopped", "delete"}, Goto(c, pc)
  PROVE  /\ user' \in [Calls -> Call] /\ \A d \in Calls \ {c} : user'[d] = user[d]
         /\ user'[c].pc = pc /\ user'[c].app = user[c].app /\ user'[c].port = user[c].port
<1>1. /\ user \in [Calls -> Call] /\ user[c] \in Call
      /\ user' = [user EXCEPT ![c].pc = pc]
  BY DEF PrevTypeOK, Goto
<1>2. /\ \A d \in Calls \ {c} : user'[d] = user[d]
      /\ user'[c] = [user[c] EXCEPT !.pc = pc]
  BY <1>1
<1>3. /\ user'[c] \in Call /\ user'[c].pc = pc /\ user'[c].app = user[c].app
      /\ user'[c].port = user[c].port
  BY <1>1, <1>2 DEF Call
<1>4. user' \in [Calls -> Call]
  BY <1>1, <1>3
<1> QED BY <1>2, <1>3, <1>4

\* A call that holds neither port nor process any more, or not yet.
Idle == {"new", "read", "pick", "write", "kill", "stopped", "delete", "done"}

LEMMA IdleKept ==
  ASSUME NEW c \in Calls, Solo(c)', user'[c].pc \in Idle
  PROVE  CallKept(c)'
BY DEF CallKept, Idle, WithPort

LEMMA ReadKeeps ==
  ASSUME PrevInv, NEW c \in Calls, ReadRow(c)
  PROVE  PrevInv'
<1> DEFINE a == user[c].app
<1>1. /\ PrevTypeOK /\ user[c] \in Call /\ a \in Apps /\ row[a] \in Row
      /\ user[c].pc = "read" /\ UNCHANGED <<row, settled, pid, proc, pass, races, clashes, orphans, undated>>
  BY DEF PrevInv, PrevTypeOK, ReadRow, At, Call, cuts
<1>2. CASE ~row[a].present
  <2>1. /\ user' \in [Calls -> Call] /\ \A d \in Calls \ {c} : user'[d] = user[d]
        /\ user'[c].pc = "done" /\ user'[c].app = a
    BY <1>1, <1>2, Returns DEF ReadRow
  <2>2. OnlyCall(c) /\ PrevTypeOK' /\ ProcsKept /\ PidsKept /\ RowsKept
    BY <1>1, <2>1, SameProcs DEF OnlyCall, Working, PidsKept, RowsKept, PrevTypeOK
  <2> QED BY <1>1, <2>1, <2>2, SameProcs, IdleKept, CallMoves DEF Idle, At
<1>3. CASE row[a].present
  <2>1. /\ user \in [Calls -> Call]
        /\ user' = [user EXCEPT ![c].port = row[a].port, ![c].status = row[a].status,
                                ![c].pc = AfterRead(a)]
    BY <1>1, <1>3 DEF ReadRow, PrevTypeOK
  <2>2. /\ \A d \in Calls \ {c} : user'[d] = user[d]
        /\ user'[c] = [user[c] EXCEPT !.port = row[a].port, !.status = row[a].status,
                                      !.pc = AfterRead(a)]
    BY <2>1
  <2>3. /\ user'[c] \in Call /\ user'[c].pc = AfterRead(a) /\ user'[c].app = a
        /\ user'[c].port = row[a].port
    BY <1>1, <2>1, <2>2 DEF Call, Row, AfterRead
  <2>4. user' \in [Calls -> Call]
    BY <2>1, <2>3
  <2>5. OnlyCall(c) /\ PrevTypeOK' /\ ProcsKept /\ PidsKept /\ RowsKept
    BY <1>1, <2>2, <2>3, <2>4, SameProcs DEF OnlyCall, Working, PidsKept, RowsKept, PrevTypeOK
  <2>6. CASE row[a].port = 0
    <3>1. user'[c].pc = "pick"
      BY <2>3, <2>6 DEF AfterRead
    <3> QED BY <1>1, <2>5, <3>1, SameProcs, IdleKept, CallMoves DEF Idle, At
  <2>7. CASE row[a].port # 0
    <3>1. user'[c].pc = "decide" /\ user'[c].port \in Ports
      BY <1>1, <2>3, <2>7 DEF AfterRead, Row
    <3>2. Solo(c)' => CallKept(c)'
      BY <1>1, <2>3, <3>1 DEF CallKept
    <3> QED BY <1>1, <2>5, <3>1, <3>2, SameProcs, CallMoves DEF At
  <2> QED BY <2>6, <2>7
<1> QED BY <1>2, <1>3

LEMMA DecideStartKeeps ==
  ASSUME PrevInv, NEW c \in Calls, DecideStart(c)
  PROVE  PrevInv'
<1> DEFINE a == user[c].app
<1>1. /\ PrevTypeOK /\ user[c] \in Call /\ a \in Apps /\ CallKept(c)
      /\ user[c].pc = "decide" /\ UNCHANGED <<row, settled, pass, races, clashes, orphans, undated>>
  BY DEF PrevInv, PrevTypeOK, DecideStart, At, Call, cuts
<1>2. CASE UNCHANGED <<pid, proc>> /\ (Return(c) \/ ThenWrite(c, "running"))
  <2>1. "running" \in Statuses
    BY DEF Statuses
  <2>2. /\ user' \in [Calls -> Call] /\ \A d \in Calls \ {c} : user'[d] = user[d]
        /\ user'[c].pc \in {"done", "write"} /\ user'[c].app = a
    BY <1>1, <1>2, <2>1, Returns, WritesNext
  <2>3. OnlyCall(c) /\ PrevTypeOK' /\ ProcsKept /\ PidsKept /\ RowsKept
    BY <1>1, <1>2, <2>2, SameProcs DEF OnlyCall, Working, PidsKept, RowsKept, PrevTypeOK
  <2> QED BY <1>1, <1>2, <2>2, <2>3, SameProcs, IdleKept, CallMoves DEF Idle, At
<1>3. CASE Kill(a) /\ (Goto(c, "spawn") \/ Return(c))
  <2>1. /\ user' \in [Calls -> Call] /\ \A d \in Calls \ {c} : user'[d] = user[d]
        /\ user'[c].pc = "done" \/ (user'[c].pc = "spawn" /\ user'[c].port = user[c].port)
        /\ user'[c].app = a
    BY <1>1, <1>3, Returns, GoesOn
  <2>2. /\ pid'[a] = 0 /\ \A b \in Apps \ {a} : pid'[b] = pid[b]
        /\ ProcsKept /\ PidsKept /\ \A k \in Procs : proc[k].state = "unused" => ~Live(k)'
        /\ pid' \in [Apps -> 0..MaxProcs]
        /\ proc' \in [Procs -> [app : Apps, port : Ports \cup {0}, state : ProcStates]]
        /\ \A k \in Procs : proc'[k].state \in {"up", "listening", "dying"} => proc'[k].port \in Ports
    BY <1>1, <1>3, Kills
  <2>3. OnlyCall(c) /\ PrevTypeOK' /\ RowsKept
    BY <1>1, <2>1, <2>2 DEF OnlyCall, Working, RowsKept, PrevTypeOK
  <2>4. Solo(c)' => CallKept(c)'
    BY <1>1, <2>1, <2>2, IdleKept DEF Idle, CallKept, WithPort
  <2> QED BY <1>1, <2>1, <2>2, <2>3, <2>4, CallMoves DEF At
<1> QED BY <1>2, <1>3 DEF DecideStart

LEMMA DecideStatusKeeps ==
  ASSUME PrevInv, NEW c \in Calls, DecideStatus(c)
  PROVE  PrevInv'
<1> DEFINE a == user[c].app
           s == Judgement(a, user[c].status, Listening(user[c].port))
<1>1. /\ PrevTypeOK /\ user[c] \in Call /\ a \in Apps
      /\ user[c].pc = "decide" /\ UNCHANGED <<row, settled, proc, pass, races, clashes, orphans, undated>>
      /\ pid' = Checked(a) /\ (Return(c) \/ ThenWrite(c, s))
  BY DEF PrevInv, PrevTypeOK, DecideStatus, At, Call, cuts
<1>2. s \in Statuses
  BY DEF Judgement, Statuses
<1> HIDE DEF s
<1>3. /\ user' \in [Calls -> Call] /\ \A d \in Calls \ {c} : user'[d] = user[d]
      /\ user'[c].pc \in {"done", "write"} /\ user'[c].app = a
  BY <1>1, <1>2, Returns, WritesNext
<1>4. /\ pid' \in [Apps -> 0..MaxProcs] /\ \A b \in Apps \ {a} : pid'[b] = pid[b]
      /\ pid'[a] \in {pid[a], 0} /\ PidsKept
  <2>1. pid \in [Apps -> 0..MaxProcs] /\ 0 \in 0..MaxProcs
    BY <1>1, PreviewsAssumption DEF PrevTypeOK, PreviewsAssumption
  <2>2. CASE Running(a)
    BY <1>1, <2>1, <2>2 DEF Checked, PidsKept
  <2>3. CASE ~Running(a)
    <3>1. pid' = [pid EXCEPT ![a] = 0]
      BY <1>1, <2>3 DEF Checked
    <3>2. \A k \in Procs : pid[a] = k => ~Live(k)'
      BY <1>1, <2>3 DEF Running, Alive, Live, Procs
    <3> QED BY <1>1, <2>1, <3>1, <3>2 DEF PidsKept
  <2> QED BY <2>2, <2>3
<1>5. OnlyCall(c) /\ PrevTypeOK' /\ ProcsKept /\ RowsKept
  BY <1>1, <1>3, <1>4, SameProcs DEF OnlyCall, Working, RowsKept, PrevTypeOK
<1> QED BY <1>1, <1>3, <1>4, <1>5, SameProcs, IdleKept, CallMoves DEF Idle, At

LEMMA KillStopKeeps ==
  ASSUME PrevInv, NEW c \in Calls, KillStop(c)
  PROVE  PrevInv'
<1> DEFINE a == user[c].app
<1>1. /\ PrevTypeOK /\ user[c] \in Call /\ a \in Apps
      /\ user[c].pc = "kill" /\ UNCHANGED <<row, settled, pass, races, clashes, orphans, undated>>
      /\ Kill(a) /\ Goto(c, "stopped")
  BY DEF PrevInv, PrevTypeOK, KillStop, At, Call, cuts
<1>2. /\ user' \in [Calls -> Call] /\ \A d \in Calls \ {c} : user'[d] = user[d]
      /\ user'[c].pc = "stopped" /\ user'[c].app = a
  BY <1>1, GoesOn
<1>3. /\ pid'[a] = 0 /\ \A b \in Apps \ {a} : pid'[b] = pid[b]
      /\ ProcsKept /\ PidsKept /\ \A k \in Procs : proc[k].state = "unused" => ~Live(k)'
      /\ pid' \in [Apps -> 0..MaxProcs]
      /\ proc' \in [Procs -> [app : Apps, port : Ports \cup {0}, state : ProcStates]]
      /\ \A k \in Procs : proc'[k].state \in {"up", "listening", "dying"} => proc'[k].port \in Ports
  BY <1>1, Kills
<1>4. OnlyCall(c) /\ PrevTypeOK' /\ RowsKept
  BY <1>1, <1>2, <1>3 DEF OnlyCall, Working, RowsKept, PrevTypeOK
<1> QED BY <1>1, <1>2, <1>3, <1>4, IdleKept, CallMoves DEF Idle, At

\* The last step of a call writes its row.
LEMMA LastWrite ==
  ASSUME PrevInv, NEW c \in Calls, NEW r \in Row, user[c].pc \in {"publish", "write", "stopped"},
         Write(user[c].app, r), Return(c) \/ Goto(c, "delete"),
         undated' \in {undated, undated \ {user[c].app}},
         UNCHANGED <<pid, proc, pass, races, clashes, orphans>>,
         r.present = row[user[c].app].present,
         user[c].app \notin races /\ row[user[c].app].present => r.port = row[user[c].app].port
  PROVE  PrevInv'
<1> DEFINE a == user[c].app
<1>1. PrevTypeOK /\ a \in Apps
  BY DEF PrevInv, PrevTypeOK, Call, cuts
<1>2. /\ user' \in [Calls -> Call] /\ \A d \in Calls \ {c} : user'[d] = user[d]
      /\ user'[c].pc \in {"done", "delete"} /\ user'[c].app = a
  BY <1>1, Returns, GoesOn
<1>3. /\ row' \in [Apps -> Row] /\ settled' \in [Apps -> BOOLEAN]
      /\ \A b \in Apps : row'[b].present = row[b].present
      /\ \A b \in Apps \ {a} : row'[b] = row[b]
      /\ row[a].present => row'[a] = r
      /\ ~row[a].present => row'[a] = row[a]
  BY <1>1, Writes
<1>4. RowsKept
  BY <1>3 DEF RowsKept
<1>5. OnlyCall(c) /\ PrevTypeOK' /\ ProcsKept /\ PidsKept
  BY <1>1, <1>2, <1>3, SameProcs DEF OnlyCall, Working, PidsKept, PrevTypeOK
<1> QED BY <1>1, <1>2, <1>4, <1>5, SameProcs, IdleKept, CallMoves DEF Idle, At

LEMMA PublishKeeps ==
  ASSUME PrevInv, NEW c \in Calls, Publish(c)
  PROVE  PrevInv'
<1> DEFINE a == user[c].app
           r == [row[a] EXCEPT !.port = user[c].port, !.status = user[c].next, !.age = "young"]
<1>1. /\ PrevTypeOK /\ user[c] \in Call /\ a \in Apps /\ row[a] \in Row /\ CallKept(c)
      /\ user[c].pc = "publish" /\ Write(a, r) /\ Return(c)
      /\ UNCHANGED <<pid, proc, pass, races, clashes, orphans>> /\ undated' = undated \ {a}
  BY DEF PrevInv, PrevTypeOK, Publish, At, Call, cuts
<1>2. r \in Row /\ r.present = row[a].present /\ r.port = user[c].port
  BY <1>1 DEF Row, Call, Ages
<1>3. a \notin races /\ row[a].present => user[c].port = row[a].port
  BY <1>1 DEF CallKept, WithPort
<1> HIDE DEF r
<1> QED BY <1>1, <1>2, <1>3, LastWrite

LEMMA WriteStatusKeeps ==
  ASSUME PrevInv, NEW c \in Calls, WriteStatus(c)
  PROVE  PrevInv'
<1> DEFINE a == user[c].app
           r == WithStatus(a, user[c].next)
<1>1. /\ PrevTypeOK /\ user[c] \in Call /\ a \in Apps /\ row[a] \in Row
      /\ user[c].pc = "write" /\ Write(a, r) /\ Return(c)
      /\ UNCHANGED <<pid, proc, pass, races, clashes, orphans, undated>>
  BY DEF PrevInv, PrevTypeOK, WriteStatus, At, Call, cuts
<1>2. r \in Row /\ r.present = row[a].present /\ r.port = row[a].port
  BY <1>1 DEF Row, Call, WithStatus
<1> HIDE DEF r
<1> QED BY <1>1, <1>2, LastWrite

LEMMA WriteStoppedKeeps ==
  ASSUME PrevInv, NEW c \in Calls, WriteStopped(c)
  PROVE  PrevInv'
<1> DEFINE a == user[c].app
           r == Stopped(a)
<1>1. /\ PrevTypeOK /\ user[c] \in Call /\ a \in Apps /\ row[a] \in Row
      /\ user[c].pc = "stopped" /\ Write(a, r) /\ (Return(c) \/ Goto(c, "delete"))
      /\ UNCHANGED <<pid, proc, pass, races, clashes, orphans>> /\ undated' = undated \ {a}
  BY DEF PrevInv, PrevTypeOK, WriteStopped, At, Call, cuts
<1>2. r \in Row /\ r.present = row[a].present /\ r.port = row[a].port
  BY <1>1 DEF Row, Stopped, Statuses, Ages
<1> HIDE DEF r
<1> QED BY <1>1, <1>2, LastWrite

LEMMA DeleteKeeps ==
  ASSUME PrevInv, NEW c \in Calls, Delete(c)
  PROVE  PrevInv'
<1> DEFINE a == user[c].app
<1>1. /\ PrevTypeOK /\ user[c] \in Call /\ a \in Apps
      /\ user[c].pc = "delete" /\ row' = [row EXCEPT ![a].present = FALSE] /\ Return(c)
      /\ UNCHANGED <<settled, pid, proc, pass, races, clashes, orphans, undated>>
  BY DEF PrevInv, PrevTypeOK, Delete, At, Call, cuts
<1>2. /\ user' \in [Calls -> Call] /\ \A d \in Calls \ {c} : user'[d] = user[d]
      /\ user'[c].pc = "done" /\ user'[c].app = a
  BY <1>1, Returns
<1>3. /\ row' \in [Apps -> Row] /\ \A b \in Apps \ {a} : row'[b] = row[b]
      /\ row'[a].present = FALSE
  <2>1. row \in [Apps -> Row]
    BY <1>1 DEF PrevTypeOK
  <2> QED BY <1>1, <2>1 DEF Row
<1>4. RowsKept
  BY <1>3 DEF RowsKept
<1>5. OnlyCall(c) /\ PrevTypeOK' /\ ProcsKept /\ PidsKept
  BY <1>1, <1>2, <1>3, SameProcs DEF OnlyCall, Working, PidsKept, PrevTypeOK
<1> QED BY <1>1, <1>2, <1>4, <1>5, SameProcs, IdleKept, CallMoves DEF Idle, At

\* A call that is cancelled while it waits leaves its process behind.
LEMMA CancelKeeps ==
  ASSUME PrevInv, NEW c \in Calls, Cancel(c)
  PROVE  PrevInv'
<1> DEFINE a == user[c].app
<1>1. /\ PrevTypeOK /\ user[c] \in Call /\ a \in Apps /\ Working(c) /\ CallKept(c)
      /\ Return(c) /\ UNCHANGED <<row, settled, pid, proc, pass, races, clashes>>
      /\ orphans' = IF At(c, "wait") THEN orphans \cup {user[c].proc} ELSE orphans
      /\ undated' = IF At(c, "publish") THEN undated \cup {a} ELSE undated
  BY DEF PrevInv, PrevTypeOK, Cancel, Call, Working
<1>2. /\ user' \in [Calls -> Call] /\ \A d \in Calls \ {c} : user'[d] = user[d]
      /\ user'[c].pc = "done" /\ user'[c].app = a
  BY <1>1, Returns
<1>3. At(c, "wait") => user[c].proc \in Procs
  BY <1>1 DEF CallKept, At
<1>4. /\ orphans' \subseteq Procs /\ undated' \subseteq Apps /\ orphans \subseteq orphans'
      /\ At(c, "wait") => user[c].proc \in orphans'
  BY <1>1, <1>3 DEF PrevTypeOK
<1>5. OnlyCall(c) /\ PrevTypeOK' /\ ProcsKept /\ PidsKept /\ RowsKept
  BY <1>1, <1>2, <1>4, SameProcs DEF OnlyCall, PidsKept, RowsKept, PrevTypeOK
<1> QED BY <1>1, <1>2, <1>4, <1>5, SameProcs, IdleKept, CallMoves DEF Idle, At

\* Numbers are well-founded: a set of them has a smallest one.
Less == {p \in Nat \X Nat : p[1] < p[2]}

LEMMA HasLeast ==
  ASSUME NEW T \in SUBSET Nat, T # {}
  PROVE  \E x \in T : \A y \in T : x <= y
<1>1. IsWellFoundedOn(Less, Nat)
  BY NatLessThanWellFounded DEF OpToRel, Less
<1>2. PICK x \in T : \A y \in T : <<y, x>> \notin Less
  BY <1>1, WFMin
<1>3. ASSUME NEW y \in T PROVE x <= y
  <2>1. x \in Nat /\ y \in Nat /\ <<y, x>> \notin Less
    BY <1>2
  <2> QED BY <2>1 DEF Less
<1> QED BY <1>3

LEMMA PickKeeps ==
  ASSUME PrevInv, NEW c \in Calls, PickPort(c)
  PROVE  PrevInv'
<1> DEFINE a == user[c].app
           p == CHOOSE p \in Free : \A q \in Free : p <= q
<1>1. /\ PrevTypeOK /\ user[c] \in Call /\ a \in Apps
      /\ user[c].pc = "pick" /\ UNCHANGED <<row, settled, pid, proc, pass, races, orphans, undated>>
      /\ clashes' = (clashes \/ \E d \in Calls \ {c} : At(d, "store"))
  BY DEF PrevInv, PrevTypeOK, PickPort, At, Call, cuts
<1>2. clashes' \in BOOLEAN /\ (clashes => clashes')
  BY <1>1 DEF PrevTypeOK
<1>3. CASE Free = {}
  <2>1. /\ user' \in [Calls -> Call] /\ \A d \in Calls \ {c} : user'[d] = user[d]
        /\ user'[c].pc = "done" /\ user'[c].app = a
    BY <1>1, <1>3, Returns DEF PickPort
  <2>2. OnlyCall(c) /\ PrevTypeOK' /\ ProcsKept /\ PidsKept /\ RowsKept
    BY <1>1, <1>2, <2>1, SameProcs DEF OnlyCall, Working, PidsKept, RowsKept, PrevTypeOK
  <2> QED BY <1>1, <1>2, <2>1, <2>2, SameProcs, IdleKept, CallMoves DEF Idle, At
<1>4. CASE Free # {}
  <2>1. p \in Free
    <3>1. Free \in SUBSET Nat
      BY DEF Free, Ports
    <3> QED BY <1>4, <3>1, HasLeast
  <2>2. p \in Ports /\ \A b \in Apps : row[b].present => row[b].port # p
    BY <2>1 DEF Free, Used
  <2> HIDE DEF p
  <2>3. /\ user \in [Calls -> Call]
        /\ user' = [user EXCEPT ![c].port = p, ![c].pc = "store"]
    BY <1>1, <1>4 DEF PickPort, PrevTypeOK, p
  <2>4. /\ \A d \in Calls \ {c} : user'[d] = user[d]
        /\ user'[c] = [user[c] EXCEPT !.port = p, !.pc = "store"]
    BY <2>3
  <2>5. /\ user'[c] \in Call /\ user'[c].pc = "store" /\ user'[c].app = a /\ user'[c].port = p
    BY <1>1, <2>2, <2>3, <2>4 DEF Call
  <2>6. user' \in [Calls -> Call]
    BY <2>3, <2>5
  <2>7. OnlyCall(c) /\ PrevTypeOK' /\ ProcsKept /\ PidsKept
    BY <1>1, <1>2, <2>4, <2>5, <2>6, SameProcs DEF OnlyCall, Working, PidsKept, PrevTypeOK
  <2>8. ~clashes' => ~clashes /\ \A d \in Calls \ {c} : ~At(d, "store") /\ ~At(d, "store")'
    BY <1>1, <2>4 DEF At
  <2>9. PortsKept'
    BY <1>1, <2>2, <2>5, <2>8 DEF PortsKept, At
  <2>10. PortsDistinct'
    BY <1>1, <2>8 DEF PortsDistinct, PrevInv
  <2>11. Solo(c)' => CallKept(c)'
    BY <2>2, <2>5 DEF CallKept, WithPort
  <2> QED BY <1>1, <2>7, <2>9, <2>10, <2>11, SameProcs, CallGoes DEF At
<1> QED BY <1>3, <1>4

LEMMA StoreKeeps ==
  ASSUME PrevInv, NEW c \in Calls, StorePort(c)
  PROVE  PrevInv'
<1> DEFINE a == user[c].app
           p == user[c].port
           r == [row[a] EXCEPT !.port = p]
<1>1. /\ PrevTypeOK /\ user[c] \in Call /\ a \in Apps /\ row[a] \in Row /\ CallKept(c)
      /\ user[c].pc = "store" /\ Write(a, r) /\ UNCHANGED <<pid, proc, pass, races, clashes, orphans, undated>>
  BY DEF PrevInv, PrevTypeOK, StorePort, At, Call, cuts
<1>2. p \in Ports
  BY <1>1 DEF CallKept, WithPort
<1>3. r \in Row /\ r.present = row[a].present /\ r.port = p
  BY <1>1, <1>2 DEF Row
<1> HIDE DEF r
<1>4. /\ row' \in [Apps -> Row] /\ settled' \in [Apps -> BOOLEAN]
      /\ \A b \in Apps : row'[b].present = row[b].present
      /\ \A b \in Apps \ {a} : row'[b] = row[b]
      /\ row[a].present => row'[a] = r
      /\ ~row[a].present => row'[a] = row[a]
  BY <1>1, <1>3, Writes
<1> DEFINE s == IF row[a].present THEN row[a].status ELSE user[c].status
<1>5. /\ user \in [Calls -> Call] /\ s \in Statuses
      /\ user' = [user EXCEPT ![c].status = s, ![c].pc = "decide"]
  BY <1>1 DEF StorePort, PrevTypeOK, Row, Call
<1> HIDE DEF s
<1>6. /\ \A d \in Calls \ {c} : user'[d] = user[d]
      /\ user'[c] = [user[c] EXCEPT !.status = s, !.pc = "decide"]
  BY <1>5
<1>7. user'[c] \in Call /\ user'[c].pc = "decide" /\ user'[c].app = a /\ user'[c].port = p
  BY <1>1, <1>5, <1>6 DEF Call
<1>8. user' \in [Calls -> Call]
  BY <1>5, <1>7
<1>9. OnlyCall(c) /\ PrevTypeOK' /\ ProcsKept /\ PidsKept
  BY <1>1, <1>4, <1>6, <1>7, <1>8, SameProcs DEF OnlyCall, Working, PidsKept, PrevTypeOK
<1>10. ~clashes => /\ \A d \in Calls : ~At(d, "store")'
                   /\ \A b \in Apps \ races : b # a /\ row[b].present => row[b].port # p
  <2> SUFFICES ASSUME ~clashes
               PROVE  /\ \A d \in Calls : ~At(d, "store")'
                      /\ \A b \in Apps \ races : b # a /\ row[b].present => row[b].port # p
    OBVIOUS
  <2>1. /\ \A d, e \in Calls : At(d, "store") /\ At(e, "store") => d = e
        /\ \A d \in Calls, b \in Apps \ races :
              At(d, "store") /\ b # user[d].app /\ row[b].present => row[b].port # user[d].port
    BY DEF PrevInv, PortsKept
  <2>2. At(c, "store")
    BY <1>1 DEF At
  <2>3. ASSUME NEW d \in Calls PROVE ~At(d, "store")'
    <3>1. CASE d = c
      BY <1>7, <3>1 DEF At
    <3>2. CASE d # c
      BY <1>6, <2>1, <2>2, <3>2 DEF At
    <3> QED BY <3>1, <3>2
  <2> QED BY <2>1, <2>2, <2>3
<1>11. PortsKept'
  BY <1>1, <1>10 DEF PortsKept
<1>12. PortsDistinct'
  <2> SUFFICES ASSUME ~clashes, NEW b \in Apps \ races, NEW d \in Apps \ races, b # d,
                      row'[b].present, row'[d].present, row'[b].port # 0, row'[b].port = row'[d].port
               PROVE  FALSE
    BY <1>1 DEF PortsDistinct
  <2>1. row[b].present /\ row[d].present
    BY <1>4
  <2>2. CASE b # a /\ d # a
    BY <1>4, <2>1, <2>2 DEF PrevInv, PortsDistinct
  <2>3. CASE b = a /\ d # a
    BY <1>3, <1>4, <1>10, <2>1, <2>3
  <2>4. CASE b # a /\ d = a
    BY <1>3, <1>4, <1>10, <2>1, <2>4
  <2> QED BY <2>2, <2>3, <2>4
<1>13. Solo(c)' => CallKept(c)'
  BY <1>1, <1>2, <1>3, <1>4, <1>7 DEF CallKept, WithPort
<1> QED BY <1>1, <1>9, <1>11, <1>12, <1>13, SameProcs, CallGoes DEF At

LEMMA SpawnKeeps ==
  ASSUME PrevInv, NEW c \in Calls, Spawn(c)
  PROVE  PrevInv'
<1> DEFINE a == user[c].app
<1>1. /\ PrevTypeOK /\ user[c] \in Call /\ a \in Apps /\ CallKept(c)
      /\ user[c].pc = "spawn" /\ UNCHANGED <<row, settled, pid, pass, races, clashes, orphans, undated>>
  BY DEF PrevInv, PrevTypeOK, Spawn, At, Call, cuts
<1>2. user[c].port \in Ports
  BY <1>1 DEF CallKept, WithPort
<1>3. CASE ThenWrite(c, "stopped") /\ UNCHANGED proc
  <2>1. "stopped" \in Statuses
    BY DEF Statuses
  <2>2. /\ user' \in [Calls -> Call] /\ \A d \in Calls \ {c} : user'[d] = user[d]
        /\ user'[c].pc = "write" /\ user'[c].app = a
    BY <1>1, <1>3, <2>1, WritesNext
  <2>3. OnlyCall(c) /\ PrevTypeOK' /\ ProcsKept /\ PidsKept /\ RowsKept
    BY <1>1, <1>3, <2>2, SameProcs DEF OnlyCall, Working, PidsKept, RowsKept, PrevTypeOK
  <2> QED BY <1>1, <1>3, <2>2, <2>3, SameProcs, IdleKept, CallMoves DEF Idle, At
<1>4. ASSUME NEW k \in Procs, proc[k].state = "unused",
             proc' = [proc EXCEPT ![k] = [app |-> a, port |-> user[c].port, state |-> "up"]],
             user' = [user EXCEPT ![c].proc = k, ![c].pc = "wait"]
      PROVE  PrevInv'
  <2>1. /\ proc' \in [Procs -> [app : Apps, port : Ports \cup {0}, state : ProcStates]]
        /\ proc'[k].state = "up" /\ proc'[k].app = a /\ proc'[k].port \in Ports
        /\ \A j \in Procs \ {k} : proc'[j] = proc[j]
    BY <1>1, <1>2, <1>4 DEF PrevTypeOK, ProcStates
  <2>2. user \in [Calls -> Call] /\ k \in 0..MaxProcs
    BY <1>1, PreviewsAssumption DEF PrevTypeOK, Procs, PreviewsAssumption
  <2>3. /\ \A d \in Calls \ {c} : user'[d] = user[d]
        /\ user'[c] = [user[c] EXCEPT !.proc = k, !.pc = "wait"]
    BY <1>4, <2>2
  <2>4. /\ user'[c] \in Call /\ user'[c].pc = "wait" /\ user'[c].app = a
        /\ user'[c].port = user[c].port /\ user'[c].proc = k
    BY <1>1, <2>2, <2>3 DEF Call
  <2>5. user' \in [Calls -> Call]
    BY <1>4, <2>2, <2>4
  <2>6. PrevTypeOK'
    <3>1. \A j \in Procs : proc'[j].state \in {"up", "listening", "dying"} => proc'[j].port \in Ports
      BY <1>1, <2>1 DEF PrevTypeOK
    <3> QED BY <1>1, <2>1, <2>5, <3>1 DEF PrevTypeOK
  <2>7. ProcsKept
    BY <1>4, <2>1 DEF ProcsKept, Live
  <2>8. OnlyCall(c) /\ RowsKept
    BY <1>1, <2>3, <2>4 DEF OnlyCall, Working, RowsKept
  <2>9. CallKept(c)'
    <3>1. Solo(c)'
      BY <2>7, <2>8, OthersKept
    <3> QED BY <1>1, <1>2, <2>1, <2>4, <3>1 DEF CallKept, WithPort
  <2>10. \A d \in Calls : CallKept(d)'
    BY <2>7, <2>8, <2>9, OthersKept
  <2>11. \A b \in Apps : PidKept(b)'
    BY <1>1, <2>7, PidFrame DEF PrevInv
  <2>12. ProcessReachable'
    <3> SUFFICES ASSUME NEW j \in Procs, Live(j)', proc'[j].app \notin races, j \notin orphans
                 PROVE  InFlight(j)' \/ pid[proc'[j].app] = j
      BY <1>1 DEF ProcessReachable, Live
    <3>1. CASE j = k
      BY <2>4, <3>1 DEF InFlight, At
    <3>2. CASE j # k
      <4>1. proc'[j] = proc[j] /\ Live(j)
        BY <2>1, <3>2 DEF Live
      <4>2. InFlight(j) => InFlight(j)'
        BY <1>1, <2>3 DEF InFlight, At
      <4> QED BY <4>1, <4>2 DEF PrevInv, ProcessReachable, Live
    <3> QED BY <3>1, <3>2
  <2>13. PortsKept' /\ PortsDistinct'
    <3>1. \A d \in Calls : At(d, "store")' => /\ At(d, "store") /\ user'[d].port = user[d].port
                                              /\ user'[d].app = user[d].app
      BY <2>3, <2>4 DEF At
    <3> QED BY <1>1, <2>8, <3>1, PortsFrame DEF PrevInv
  <2> QED BY <2>6, <2>10, <2>11, <2>12, <2>13 DEF PrevInv
<1> QED BY <1>3, <1>4 DEF Spawn

LEMMA WaitedKeeps ==
  ASSUME PrevInv, NEW c \in Calls, Waited(c)
  PROVE  PrevInv'
<1> DEFINE a == user[c].app
           k == user[c].proc
<1>1. /\ PrevTypeOK /\ user[c] \in Call /\ a \in Apps /\ CallKept(c)
      /\ user[c].pc = "wait" /\ UNCHANGED <<row, settled, proc, pass, races, clashes, orphans, undated>>
  BY DEF PrevInv, PrevTypeOK, Waited, At, Call, cuts
<1>2. /\ user[c].port \in Ports /\ k \in Procs /\ proc[k].state # "unused"
      /\ Live(k) => proc[k].app = a
      /\ a \notin races => pid[a] = 0
      /\ a \notin races /\ row[a].present => row[a].port = user[c].port
  BY <1>1 DEF CallKept, WithPort
<1>3. pid \in [Apps -> 0..MaxProcs] /\ MaxProcs \in Nat
  BY <1>1, PreviewsAssumption DEF PrevTypeOK, PreviewsAssumption
<1>4. ASSUME user' \in [Calls -> Call], \A d \in Calls \ {c} : user'[d] = user[d],
             user'[c].app = a, user'[c].pc \in {"write", "publish"}, user'[c].port = user[c].port \/ user'[c].pc = "write",
             pid' \in [Apps -> 0..MaxProcs], \A b \in Apps \ {a} : pid'[b] = pid[b],
             (pid'[a] = pid[a] /\ ~Live(k)) \/ pid'[a] = k
      PROVE  PrevInv'
  <2>1. PrevTypeOK' /\ ProcsKept /\ RowsKept /\ OnlyCall(c)
    BY <1>1, <1>4, SameProcs DEF OnlyCall, Working, RowsKept, PrevTypeOK
  <2>2. Solo(c)' /\ \A d \in Calls \ {c} : CallKept(d)'
    BY <2>1, OthersKept
  <2>3. CallKept(c)'
    BY <1>1, <1>2, <1>4, <2>2, IdleKept DEF CallKept, WithPort, Idle
  <2>4. ASSUME NEW b \in Apps PROVE PidKept(b)'
    <3>1. CASE pid'[b] = pid[b]
      BY <1>1, <2>1, <3>1, PidFrame DEF PrevInv
    <3>2. CASE b = a /\ pid'[a] = k
      BY <1>1, <1>2, <3>2 DEF PidKept, Live
    <3> QED BY <1>4, <3>1, <3>2
  <2>5. ProcessReachable'
    <3> SUFFICES ASSUME NEW j \in Procs, Live(j), proc[j].app \notin races, j \notin orphans
                 PROVE  InFlight(j)' \/ pid'[proc[j].app] = j
      BY <1>1 DEF ProcessReachable, Live
    <3>1. proc[j].app \in Apps /\ j # 0
      <4>1. proc \in [Procs -> [app : Apps, port : Ports \cup {0}, state : ProcStates]]
        BY <1>1 DEF PrevTypeOK
      <4> QED BY <4>1 DEF Procs
    <3>2. CASE pid[proc[j].app] = j
      BY <1>2, <1>4, <3>1, <3>2
    <3>3. ASSUME NEW d \in Calls, user[d].proc = j, At(d, "wait")
          PROVE  InFlight(j)' \/ pid'[proc[j].app] = j
      <4>1. CASE d = c
        BY <1>2, <1>4, <3>3, <4>1
      <4>2. CASE d # c
        BY <1>4, <3>3, <4>2 DEF InFlight, At
      <4> QED BY <4>1, <4>2
    <3> QED BY <3>2, <3>3 DEF PrevInv, ProcessReachable, InFlight, Live
  <2>6. PortsKept' /\ PortsDistinct'
    <3>1. \A d \in Calls : At(d, "store")' => /\ At(d, "store") /\ user'[d].port = user[d].port
                                              /\ user'[d].app = user[d].app
      BY <1>4 DEF At
    <3> QED BY <1>1, <2>1, <3>1, PortsFrame DEF PrevInv
  <2> QED BY <2>1, <2>2, <2>3, <2>4, <2>5, <2>6 DEF PrevInv
<1>5. CASE ~Alive(k) /\ ThenWrite(c, "stopped") /\ UNCHANGED pid
  <2>1. "stopped" \in Statuses /\ ~Live(k)
    BY <1>5 DEF Statuses, Alive, Live
  <2>2. /\ user' \in [Calls -> Call] /\ \A d \in Calls \ {c} : user'[d] = user[d]
        /\ user'[c].pc = "write" /\ user'[c].app = a
    BY <1>1, <1>5, <2>1, WritesNext
  <2> QED BY <1>3, <1>4, <1>5, <2>1, <2>2
<1>6. ASSUME NEW s \in Statuses, pid' = [pid EXCEPT ![a] = k],
             user' = [user EXCEPT ![c].next = s, ![c].pc = "publish"]
      PROVE  PrevInv'
  <2>1. /\ pid' \in [Apps -> 0..MaxProcs] /\ pid'[a] = k /\ \A b \in Apps \ {a} : pid'[b] = pid[b]
    BY <1>1, <1>2, <1>3, <1>6 DEF Procs
  <2>2. user \in [Calls -> Call]
    BY <1>1 DEF PrevTypeOK
  <2>3. /\ \A d \in Calls \ {c} : user'[d] = user[d]
        /\ user'[c] = [user[c] EXCEPT !.next = s, !.pc = "publish"]
    BY <1>6, <2>2
  <2>4. /\ user'[c] \in Call /\ user'[c].pc = "publish" /\ user'[c].app = a
        /\ user'[c].port = user[c].port
    BY <1>1, <2>3 DEF Call
  <2>5. user' \in [Calls -> Call]
    BY <1>6, <2>2, <2>4
  <2> QED BY <1>4, <2>1, <2>3, <2>4, <2>5
<1>7. CASE /\ pid' = [pid EXCEPT ![a] = k]
           /\ user' = [user EXCEPT ![c].next = IF Listening(user[c].port)
                                               THEN "running" ELSE "starting",
                                   ![c].pc = "publish"]
  <2> DEFINE s == IF Listening(user[c].port) THEN "running" ELSE "starting"
  <2>1. s \in Statuses
    BY DEF Statuses
  <2>2. user' = [user EXCEPT ![c].next = s, ![c].pc = "publish"]
    BY <1>7
  <2> HIDE DEF s
  <2> QED BY <1>6, <1>7, <2>1, <2>2
<1> QED BY <1>5, <1>7 DEF Waited

LEMMA BeginKeeps ==
  ASSUME PrevInv, NEW c \in Calls, NEW kind \in Kinds, NEW a \in Apps, Begin(c, kind, a)
  PROVE  PrevInv'
<1> DEFINE pc == IF kind \in {"stop", "remove"} THEN "kill" ELSE "read"
<1>1. /\ PrevTypeOK /\ user \in [Calls -> Call] /\ user[c] \in Call /\ user[c].pc = "new"
      /\ user' = [user EXCEPT ![c].kind = kind, ![c].app = a, ![c].pc = pc]
      /\ UNCHANGED <<row, settled, pid, proc, pass, clashes, orphans, undated>>
      /\ races' = Races(a)
  BY DEF PrevInv, PrevTypeOK, Begin, At, cuts
<1>2. pc \in {"kill", "read"}
  OBVIOUS
<1> HIDE DEF pc
<1>3. /\ \A d \in Calls \ {c} : user'[d] = user[d]
      /\ user'[c] = [user[c] EXCEPT !.kind = kind, !.app = a, !.pc = pc]
  BY <1>1
<1>4. user'[c] \in Call /\ user'[c].pc = pc /\ user'[c].app = a
  BY <1>1, <1>2, <1>3 DEF Call
<1>5. user' \in [Calls -> Call]
  BY <1>1, <1>4
<1>6. /\ races \subseteq races' /\ races' \subseteq Apps
      /\ a \notin races' => /\ a \notin pass.left \cup pass.writes
                            /\ \A d \in Calls : user[d].app = a => ~Working(d)
  BY <1>1 DEF Races, Busy, Working, PrevTypeOK
<1>7. PrevTypeOK' /\ ProcsKept /\ PidsKept /\ RowsKept
  BY <1>1, <1>5, <1>6, SameProcs DEF PidsKept, RowsKept, PrevTypeOK
<1>8. CallKept(c)'
  <2>1. Solo(c)'
    BY <1>1, <1>3, <1>4, <1>6 DEF Solo, Working
  <2> QED BY <1>2, <1>4, <2>1, IdleKept DEF Idle
<1>9. ASSUME NEW d \in Calls \ {c} PROVE CallKept(d)'
  <2>1. CallKept(d) /\ user'[d] = user[d]
    BY <1>3 DEF PrevInv
  <2>2. ASSUME user[d].app \notin races', Working(d)
        PROVE  /\ user[d].app \notin pass'.left \cup pass'.writes
               /\ \A e \in Calls : Working(e)' /\ user'[e].app = user[d].app => e = d
    <3>1. user[d].app # a
      BY <1>6, <2>2
    <3>2. /\ user[d].app \notin pass.left \cup pass.writes
          /\ \A e \in Calls : Working(e) /\ user[e].app = user[d].app => e = d
      BY <1>6, <2>1, <2>2 DEF CallKept, Solo
    <3> QED BY <1>1, <1>3, <1>4, <3>1, <3>2 DEF Working
  <2> QED BY <1>1, <1>6, <1>7, <2>1, <2>2, CallFrame
<1>10. \A b \in Apps : PidKept(b)'
  BY <1>1, <1>7, PidFrame DEF PrevInv
<1>11. ProcessReachable'
  <2>1. \A d \in Calls : At(d, "wait") => At(d, "wait")' /\ user'[d].proc = user[d].proc
    BY <1>1, <1>3 DEF At
  <2> QED BY <1>1, <1>6, <1>7, <2>1, SameProcs, ReachFrame DEF PrevInv
<1>12. PortsKept' /\ PortsDistinct'
  <2>1. \A d \in Calls : At(d, "store")' => /\ At(d, "store") /\ user'[d].port = user[d].port
                                            /\ user'[d].app = user[d].app
    BY <1>2, <1>3, <1>4 DEF At
  <2> QED BY <1>1, <1>6, <1>7, <2>1, PortsFrame DEF PrevInv
<1> QED BY <1>7, <1>8, <1>9, <1>10, <1>11, <1>12 DEF PrevInv

-----------------------------------------------------------------------------
(* The expiry pass, time, and what happens to processes and projects *)

\* The calls stay where they are.
LEMMA EnvMoves ==
  ASSUME PrevInv, PrevTypeOK', UNCHANGED <<user, clashes, orphans>>, races \subseteq races',
         ProcsKept, PidsKept, RowsKept, \A k \in Procs : proc[k].state = "unused" => ~Live(k)',
         \A a \in Apps : pid'[a] \in {pid[a], 0},
         \A c \in Calls : user[c].app \notin races' /\ Working(c) =>
                             user[c].app \notin pass'.left \cup pass'.writes
  PROVE  PrevInv'
<1>1. ASSUME NEW c \in Calls PROVE CallKept(c)'
  <2>1. CallKept(c) /\ user[c].app \in Apps
    BY DEF PrevInv, PrevTypeOK, Call
  <2>2. ASSUME user[c].app \notin races', Working(c)
        PROVE  /\ pid'[user[c].app] \in {pid[user[c].app], 0}
               /\ row'[user[c].app].present => row[user[c].app].present
                                               /\ row'[user[c].app].port = row[user[c].app].port
               /\ user[c].app \notin pass'.left \cup pass'.writes
               /\ \A d \in Calls : Working(d)' /\ user'[d].app = user[c].app => d = c
    BY <2>1, <2>2 DEF RowsKept, CallKept, Solo, Working
  <2> QED BY <2>1, <2>2, CallFrame
<1>2. \A a \in Apps : PidKept(a)'
  BY PidFrame DEF PrevInv
<1>3. ProcessReachable'
  <2>1. \A c \in Calls : At(c, "wait") => At(c, "wait")' /\ user'[c].proc = user[c].proc
    BY DEF At
  <2> QED BY <2>1, ReachFrame DEF PrevInv
<1>4. PortsKept' /\ PortsDistinct'
  <2>1. \A c \in Calls : At(c, "store")' => /\ At(c, "store") /\ user'[c].port = user[c].port
                                            /\ user'[c].app = user[c].app
    BY DEF At
  <2> QED BY <2>1, PortsFrame DEF PrevInv
<1> QED BY <1>1, <1>2, <1>3, <1>4 DEF PrevInv

\* What every call on a project without races has to do with the pass.
LEMMA Apart ==
  ASSUME PrevInv, NEW c \in Calls, user[c].app \notin races, Working(c)
  PROVE  user[c].app \notin pass.left \cup pass.writes
BY DEF PrevInv, CallKept, Solo

LEMMA BeginPassKeeps == ASSUME PrevInv, BeginPass PROVE PrevInv'
<1>1. /\ PrevTypeOK /\ UNCHANGED <<row, settled, pid, proc, user, clashes, orphans, undated>>
      /\ pass' = [rows |-> [a \in Apps |-> IF Active(row[a]) THEN row[a] ELSE NewRow],
                  left |-> {a \in Apps : Active(row[a])}, writes |-> {}]
      /\ races' = races \cup {a \in Apps : Active(row[a]) /\ Busy(a) # {}}
  BY DEF PrevInv, BeginPass, cuts
<1>2. /\ pass' \in [rows : [Apps -> Row], left : SUBSET Apps, writes : SUBSET Apps]
      /\ pass'.left = {a \in Apps : Active(row[a])} /\ pass'.writes = {}
  <2>1. NewRow \in Row
    BY DEF NewRow, Row, Statuses, Ages
  <2>2. [a \in Apps |-> IF Active(row[a]) THEN row[a] ELSE NewRow] \in [Apps -> Row]
    BY <1>1, <2>1 DEF PrevTypeOK
  <2> QED BY <1>1, <2>2
<1>3. PrevTypeOK' /\ ProcsKept /\ PidsKept /\ RowsKept
  BY <1>1, <1>2, SameProcs DEF PidsKept, RowsKept, PrevTypeOK
<1>4. ASSUME NEW c \in Calls, user[c].app \notin races', Working(c)
      PROVE  user[c].app \notin pass'.left \cup pass'.writes
  <2>1. c \in Busy(user[c].app)
    BY <1>4 DEF Busy, Working
  <2> QED BY <1>1, <1>2, <1>4, <2>1
<1> QED BY <1>1, <1>3, <1>4, SameProcs, EnvMoves

LEMMA VisitKeeps == ASSUME PrevInv, NEW a \in Apps, Visit(a) PROVE PrevInv'
<1>1. /\ PrevTypeOK /\ pass.writes = {} /\ a \in pass.left
      /\ UNCHANGED <<row, settled, user, races, clashes, orphans, undated>>
  BY DEF PrevInv, Visit, cuts
<1>2. pass \in [rows : [Apps -> Row], left : SUBSET Apps, writes : SUBSET Apps] /\ NewRow \in Row
  BY <1>1 DEF PrevTypeOK, NewRow, Row, Statuses, Ages
<1>3. /\ Visited(a) \in [rows : [Apps -> Row], left : SUBSET Apps, writes : SUBSET Apps]
      /\ Visited(a).left = pass.left \ {a} /\ Visited(a).writes = {}
  BY <1>1, <1>2 DEF Visited
<1>4. /\ pass' \in [rows : [Apps -> Row], left : SUBSET Apps, writes : SUBSET Apps]
      /\ pass'.left \cup pass'.writes \subseteq pass.left
  <2>1. CASE pass' = Visited(a)
    BY <1>3, <2>1
  <2>2. CASE pass' = [Visited(a) EXCEPT !.writes = {a}]
    BY <1>1, <1>3, <2>2
  <2> QED BY <2>1, <2>2 DEF Visit
<1>5. /\ pid' \in [Apps -> 0..MaxProcs] /\ \A b \in Apps : pid'[b] \in {pid[b], 0}
      /\ proc' \in [Procs -> [app : Apps, port : Ports \cup {0}, state : ProcStates]]
      /\ \A k \in Procs : proc'[k].state \in {"up", "listening", "dying"} => proc'[k].port \in Ports
      /\ ProcsKept /\ PidsKept /\ \A k \in Procs : proc[k].state = "unused" => ~Live(k)'
  <2>1. CASE Kill(a)
    BY <1>1, <2>1, Kills
  <2>2. CASE pid' = Checked(a) /\ UNCHANGED proc
    <3>1. pid \in [Apps -> 0..MaxProcs] /\ 0 \in 0..MaxProcs
      BY <1>1, PreviewsAssumption DEF PrevTypeOK, PreviewsAssumption
    <3>2. pid' \in [Apps -> 0..MaxProcs] /\ \A b \in Apps : pid'[b] \in {pid[b], 0}
      BY <2>2, <3>1 DEF Checked
    <3>3. PidsKept
      <4>1. CASE Running(a)
        BY <2>2, <4>1 DEF Checked, PidsKept
      <4>2. CASE ~Running(a)
        <5>1. \A k \in Procs : pid[a] = k => ~Live(k)'
          BY <2>2, <4>2 DEF Running, Alive, Live, Procs
        <5> QED BY <2>2, <3>1, <4>2, <5>1 DEF Checked, PidsKept
      <4> QED BY <4>1, <4>2
    <3> QED BY <1>1, <2>2, <3>2, <3>3, SameProcs DEF PrevTypeOK
  <2> QED BY <2>1, <2>2 DEF Visit
<1>6. PrevTypeOK' /\ RowsKept
  BY <1>1, <1>4, <1>5 DEF PrevTypeOK, RowsKept
<1>7. ASSUME NEW c \in Calls, user[c].app \notin races', Working(c)
      PROVE  user[c].app \notin pass'.left \cup pass'.writes
  BY <1>1, <1>4, <1>7, Apart
<1> QED BY <1>1, <1>5, <1>6, <1>7, EnvMoves

LEMMA WriteExpiredKeeps == ASSUME PrevInv, NEW a \in Apps, WriteExpired(a) PROVE PrevInv'
<1>1. /\ PrevTypeOK /\ row[a] \in Row /\ Write(a, Stopped(a)) /\ pass' = [pass EXCEPT !.writes = {}]
      /\ UNCHANGED <<pid, proc, user, races, clashes, orphans>> /\ undated' \subseteq undated
  BY DEF PrevInv, WriteExpired, PrevTypeOK
<1>2. Stopped(a) \in Row /\ Stopped(a).present = row[a].present /\ Stopped(a).port = row[a].port
  BY <1>1 DEF Row, Stopped, Statuses, Ages
<1>3. /\ row' \in [Apps -> Row] /\ settled' \in [Apps -> BOOLEAN]
      /\ \A b \in Apps : row'[b].present = row[b].present
      /\ \A b \in Apps \ {a} : row'[b] = row[b]
      /\ row[a].present => row'[a] = Stopped(a)
      /\ ~row[a].present => row'[a] = row[a]
  BY <1>1, <1>2, Writes
<1>4. /\ pass' \in [rows : [Apps -> Row], left : SUBSET Apps, writes : SUBSET Apps]
      /\ pass'.left \cup pass'.writes \subseteq pass.left \cup pass.writes
  BY <1>1 DEF PrevTypeOK
<1>5. RowsKept
  BY <1>2, <1>3 DEF RowsKept
<1>6. PrevTypeOK' /\ ProcsKept /\ PidsKept
  BY <1>1, <1>3, <1>4, SameProcs DEF PidsKept, PrevTypeOK
<1>7. ASSUME NEW c \in Calls, user[c].app \notin races', Working(c)
      PROVE  user[c].app \notin pass'.left \cup pass'.writes
  BY <1>1, <1>4, <1>7, Apart
<1> QED BY <1>1, <1>5, <1>6, <1>7, SameProcs, EnvMoves

LEMMA GrowOldKeeps == ASSUME PrevInv, NEW a \in Apps, GrowOld(a) PROVE PrevInv'
<1>1. /\ PrevTypeOK /\ row' = [row EXCEPT ![a].age = "old"]
      /\ UNCHANGED <<settled, pid, proc, user, pass, races, clashes, orphans, undated>>
  BY DEF PrevInv, GrowOld, cuts
<1>2. /\ row' \in [Apps -> Row]
      /\ \A b \in Apps : row'[b].present = row[b].present /\ row'[b].port = row[b].port
  BY <1>1 DEF PrevTypeOK, Row, Ages
<1>3. PrevTypeOK' /\ ProcsKept /\ PidsKept /\ RowsKept
  BY <1>1, <1>2, SameProcs DEF PidsKept, RowsKept, PrevTypeOK
<1> QED BY <1>1, <1>3, SameProcs, Apart, EnvMoves

LEMMA SettleKeeps == ASSUME PrevInv, NEW a \in Apps, Settle(a) PROVE PrevInv'
<1>1. /\ PrevTypeOK /\ settled' = [settled EXCEPT ![a] = TRUE]
      /\ UNCHANGED <<row, pid, proc, user, pass, races, clashes, orphans, undated>>
  BY DEF PrevInv, Settle, cuts
<1>2. settled' \in [Apps -> BOOLEAN]
  BY <1>1 DEF PrevTypeOK
<1>3. PrevTypeOK' /\ ProcsKept /\ PidsKept /\ RowsKept
  BY <1>1, <1>2, SameProcs DEF PidsKept, RowsKept, PrevTypeOK
<1> QED BY <1>1, <1>3, SameProcs, Apart, EnvMoves

LEMMA BindKeeps == ASSUME PrevInv, NEW k \in Procs, Bind(k) PROVE PrevInv'
<1>1. /\ PrevTypeOK /\ proc[k].state = "up" /\ proc' = [proc EXCEPT ![k].state = "listening"]
      /\ UNCHANGED <<row, settled, pid, user, pass, races, clashes, orphans, undated>>
  BY DEF PrevInv, Bind, cuts
<1>2. /\ proc' \in [Procs -> [app : Apps, port : Ports \cup {0}, state : ProcStates]]
      /\ \A j \in Procs \ {k} : proc'[j] = proc[j]
      /\ proc'[k].state = "listening" /\ proc'[k].app = proc[k].app /\ proc'[k].port = proc[k].port
  BY <1>1 DEF PrevTypeOK, ProcStates
<1>3. ProcsKept /\ PidsKept /\ \A j \in Procs : proc[j].state = "unused" => ~Live(j)'
  BY <1>1, <1>2 DEF ProcsKept, PidsKept, Live
<1>4. PrevTypeOK' /\ RowsKept
  BY <1>1, <1>2 DEF PrevTypeOK, RowsKept
<1> QED BY <1>1, <1>3, <1>4, Apart, EnvMoves

LEMMA ExitKeeps == ASSUME PrevInv, NEW k \in Procs, Exit(k) PROVE PrevInv'
<1>1. /\ PrevTypeOK /\ proc' = [proc EXCEPT ![k] = NoProc("gone")]
      /\ UNCHANGED <<row, settled, pid, user, pass, races, clashes, orphans, undated>>
      /\ SomeApp \in Apps
  BY PreviewsAssumption DEF PrevInv, Exit, SomeApp, PreviewsAssumption, cuts
<1>2. /\ proc' \in [Procs -> [app : Apps, port : Ports \cup {0}, state : ProcStates]]
      /\ \A j \in Procs \ {k} : proc'[j] = proc[j]
      /\ proc'[k].state = "gone"
  BY <1>1 DEF PrevTypeOK, ProcStates, NoProc
<1>3. ProcsKept /\ PidsKept /\ \A j \in Procs : proc[j].state = "unused" => ~Live(j)'
  BY <1>1, <1>2 DEF ProcsKept, PidsKept, Live
<1>4. PrevTypeOK' /\ RowsKept
  BY <1>1, <1>2 DEF PrevTypeOK, RowsKept
<1> QED BY <1>1, <1>3, <1>4, Apart, EnvMoves

-----------------------------------------------------------------------------

LEMMA PrevInitInv == PrevInit => PrevInv
<1> SUFFICES ASSUME PrevInit PROVE PrevInv
  OBVIOUS
<1>1. /\ Apps # {} /\ MaxProcs \in Nat /\ LastPort \in Nat
      /\ SomeApp \in Apps
  BY PreviewsAssumption DEF SomeApp, PreviewsAssumption
<1>2. NewRow \in Row /\ NewCall \in Call /\ NewCall.pc = "new" /\ NoProc("unused") \in
        [app : Apps, port : Ports \cup {0}, state : ProcStates] /\ NoProc("unused").state = "unused"
  BY <1>1 DEF NewRow, Row, Statuses, Ages, NewCall, Call, NoProc, ProcStates, Ports
<1>3. NewPass \in [rows : [Apps -> Row], left : SUBSET Apps, writes : SUBSET Apps]
  BY <1>2 DEF NewPass
<1>4. PrevTypeOK
  <2>1. \A k \in Procs : proc[k].state = "unused"
    BY <1>2 DEF PrevInit
  <2>2. /\ row \in [Apps -> Row] /\ settled \in [Apps -> BOOLEAN] /\ user \in [Calls -> Call]
        /\ proc \in [Procs -> [app : Apps, port : Ports \cup {0}, state : ProcStates]]
    BY <1>2 DEF PrevInit
  <2>3. pid \in [Apps -> 0..MaxProcs]
    BY <1>1 DEF PrevInit
  <2>4. pass \in [rows : [Apps -> Row], left : SUBSET Apps, writes : SUBSET Apps]
    BY <1>3 DEF PrevInit
  <2>5. /\ races \subseteq Apps /\ clashes \in BOOLEAN
        /\ orphans \subseteq Procs /\ undated \subseteq Apps
    BY DEF PrevInit
  <2> QED BY <2>1, <2>2, <2>3, <2>4, <2>5 DEF PrevTypeOK
<1>5. \A c \in Calls : CallKept(c)
  BY <1>2 DEF PrevInit, CallKept, WithPort, Solo, Working
<1>6. \A a \in Apps : PidKept(a)
  BY DEF PrevInit, PidKept
<1>7. ProcessReachable
  BY <1>2 DEF PrevInit, ProcessReachable
<1>8. PortsKept
  BY <1>2 DEF PrevInit, PortsKept, At
<1>9. PortsDistinct
  <2>1. \A a \in Apps : row[a].port = 0
    BY DEF PrevInit, NewRow
  <2> QED BY <2>1 DEF PortsDistinct
<1> QED BY <1>4, <1>5, <1>6, <1>7, <1>8, <1>9 DEF PrevInv

LEMMA PrevStep == PrevInv /\ [PrevNext]_prevVars => PrevInv'
<1> SUFFICES ASSUME PrevInv, [PrevNext]_prevVars PROVE PrevInv'
  OBVIOUS
<1>1. ASSUME NEW c \in Calls, CallStep(c) PROVE PrevInv'
  BY <1>1, ReadKeeps, PickKeeps, StoreKeeps, DecideStartKeeps, SpawnKeeps, WaitedKeeps, PublishKeeps,
     WriteStatusKeeps, KillStopKeeps, WriteStoppedKeeps, DeleteKeeps, DecideStatusKeeps DEF CallStep
<1>2. CASE UNCHANGED prevVars
  <2>1. PrevTypeOK' /\ ProcsKept /\ PidsKept /\ RowsKept
    BY <1>2, SameProcs DEF PrevInv, prevVars, cuts, PidsKept, RowsKept, PrevTypeOK
  <2> QED BY <1>2, <2>1, SameProcs, Apart, EnvMoves DEF PrevInv, prevVars, cuts
<1>3. CASE \E c \in Calls, k \in Kinds, a \in Apps : Begin(c, k, a)
  BY <1>3, BeginKeeps
<1>4. CASE BeginPass \/ \E a \in Apps : Visit(a) \/ WriteExpired(a) \/ GrowOld(a) \/ Settle(a)
  BY <1>4, BeginPassKeeps, VisitKeeps, WriteExpiredKeeps, GrowOldKeeps, SettleKeeps
<1>5. CASE \E k \in Procs : Bind(k) \/ Exit(k)
  BY <1>5, BindKeeps, ExitKeeps
<1>6. CASE \E c \in Calls : Cancel(c)
  BY <1>6, CancelKeeps
<1> QED BY <1>1, <1>2, <1>3, <1>4, <1>5, <1>6 DEF PrevNext, PrevQuiet

\* Any number of projects, calls, ports and processes: whatever calls do at the
\* same time, the expiry pass and processes that die do not lose a preview
\* process, and no port is given away twice, on projects that have seen no race.
THEOREM PreviewsKept == PrevSpec => [](PrevTypeOK /\ PreviewsTracked)
<1>1. PrevInv => PrevTypeOK /\ PreviewsTracked
  BY DEF PrevInv, PreviewsTracked
<1> QED BY <1>1, PrevInitInv, PrevStep, PTL DEF PrevSpec

\* Rows, pid files, processes and what calls hold keep their types.
THEOREM PreviewsTyped == PrevSpec => []PrevTypeOK
  BY PreviewsKept, PTL

-----------------------------------------------------------------------------
(* Every preview has a deadline *)

\* What a call may write of a preview that has no deadline.
CallDue(c, a) ==
    /\ At(c, "decide") /\ row[a].present /\ user[c].status # "stopped" => row[a].age # "none"
    /\ At(c, "write") /\ row[a].present /\ user[c].next # "stopped" => row[a].age # "none"

\* That an active preview has a deadline is not inductive by itself: a status
\* query makes a preview active that it finds by its pid file, so a pid file
\* has to mean a deadline, or a call that is about to write one.
Dated(a) ==
    /\ row[a].present /\ row[a].status # "stopped" => row[a].age # "none"
    /\ row[a].present /\ pid[a] # 0 =>
          row[a].age # "none" \/ \E c \in Calls : user[c].app = a /\ At(c, "publish")
    /\ \A c \in Calls : user[c].app = a => CallDue(c, a)

\* And whoever is about to take the deadline away has removed the pid file.
Due(a) ==
    a \notin races =>
       /\ a \in pass.writes => pid[a] = 0
       /\ \A c \in Calls : user[c].app = a /\ At(c, "stopped") => pid[a] = 0
       /\ a \notin undated => Dated(a)

\* Nothing that a deadline depends on is changed, but the preview may be killed
\* or removed, and a deadline may come nearer.
LEMMA DueFrame ==
  ASSUME NEW a \in Apps, Due(a), races \subseteq races', a \in undated => a \in undated',
         pid'[a] \in {pid[a], 0},
         row'[a].present => /\ row[a].present /\ row'[a].status = row[a].status
                            /\ row[a].age # "none" => row'[a].age # "none",
         a \in pass'.writes => a \in pass.writes \/ pid'[a] = 0,
         a \notin undated' =>
            \A c \in Calls : user[c].app = a /\ At(c, "publish") =>
                                user'[c].app = a /\ At(c, "publish")',
         \A c \in Calls : user'[c].app = a /\ user'[c].pc \in {"decide", "write", "stopped"} =>
                             user'[c] = user[c]
  PROVE  Due(a)'
<1> SUFFICES ASSUME a \notin races' PROVE Due(a)'
  BY DEF Due
<1>1. a \notin races
  OBVIOUS
<1>2. (a \in pass.writes => pid[a] = 0)'
  BY <1>1 DEF Due
<1>3. ASSUME NEW c \in Calls, user'[c].app = a, At(c, "stopped")' PROVE pid'[a] = 0
  BY <1>1, <1>3 DEF Due, At
<1>4. ASSUME a \notin undated' PROVE Dated(a)'
  <2>1. Dated(a)
    BY <1>1, <1>4 DEF Due
  <2>2. (row[a].present /\ row[a].status # "stopped" => row[a].age # "none")'
    BY <2>1 DEF Dated
  <2>3. (row[a].present /\ pid[a] # 0 =>
            row[a].age # "none" \/ \E c \in Calls : user[c].app = a /\ At(c, "publish"))'
    BY <1>4, <2>1 DEF Dated
  <2>4. ASSUME NEW c \in Calls, user'[c].app = a PROVE CallDue(c, a)'
    <3>1. user'[c].pc \in {"decide", "write"} => user'[c] = user[c] /\ CallDue(c, a)
      BY <2>1, <2>4 DEF Dated
    <3> QED BY <3>1 DEF CallDue, At
  <2> QED BY <2>2, <2>3, <2>4 DEF Dated
<1> QED BY <1>2, <1>3, <1>4 DEF Due

\* What is left to show of a step of a call.
LEMMA DueCall ==
  ASSUME PrevInv, \A b \in Apps : Due(b), NEW c \in Calls, OnlyCall(c),
         user[c].app \notin races => (At(c, "stopped") => pid[user[c].app] = 0)',
         Solo(c)' /\ user[c].app \notin races /\ user[c].app \notin undated' =>
            /\ (row[user[c].app].present /\ row[user[c].app].status # "stopped"
                  => row[user[c].app].age # "none")'
            /\ (row[user[c].app].present /\ pid[user[c].app] # 0
                  => row[user[c].app].age # "none" \/ At(c, "publish"))'
            /\ CallDue(c, user[c].app)'
  PROVE  \A b \in Apps : Due(b)'
<1> SUFFICES ASSUME NEW b \in Apps PROVE Due(b)'
  OBVIOUS
<1>1. /\ PrevTypeOK /\ user[c] \in Call /\ user[c].app \in Apps /\ Solo(c) /\ Working(c)
      /\ user'[c].app = user[c].app /\ UNCHANGED <<pass, races>>
      /\ \A d \in Calls \ {c} : user'[d] = user[d]
  BY DEF PrevInv, PrevTypeOK, Call, CallKept, OnlyCall
<1>2. CASE b # user[c].app
  <2>1. row'[b] = row[b] /\ pid'[b] = pid[b] /\ (b \in undated => b \in undated')
    BY <1>2 DEF OnlyCall
  <2>2. \A d \in Calls : user[d].app = b \/ user'[d].app = b => user'[d] = user[d]
    BY <1>1, <1>2
  <2> QED BY <1>1, <2>1, <2>2, DueFrame DEF At
<1>3. CASE b = user[c].app /\ b \notin races
  <2>1. /\ b \notin pass.writes
        /\ \A d \in Calls : Working(d) /\ user[d].app = b => d = c
    BY <1>1, <1>3 DEF Solo
  <2>2. ASSUME NEW d \in Calls, user'[d].app = b, d # c
        PROVE  CallDue(d, b)' /\ ~At(d, "stopped")'
    <3>1. user'[d] = user[d] /\ ~Working(d)
      BY <1>1, <2>1, <2>2
    <3> QED BY <3>1 DEF CallDue, At, Working
  <2>3. Solo(c)'
    <3>1. \A d \in Calls : Working(d)' /\ user'[d].app = user'[c].app => d = c
      BY <1>1, <1>3, <2>1 DEF Working
    <3> QED BY <1>1, <1>3, <3>1 DEF Solo
  <2>4. user'[c].app = b
    BY <1>1, <1>3
  <2>5. b \notin undated' =>
           /\ (row[b].present /\ row[b].status # "stopped" => row[b].age # "none")'
           /\ (row[b].present /\ pid[b] # 0 => row[b].age # "none" \/ At(c, "publish"))'
           /\ CallDue(c, b)'
    BY <1>1, <1>3, <2>3, <2>4
  <2>6. b \notin undated' => Dated(b)'
    BY <2>2, <2>4, <2>5 DEF Dated
  <2>7. \A d \in Calls : user'[d].app = b /\ At(d, "stopped")' => pid'[b] = 0
    BY <1>1, <1>3, <2>2
  <2> QED BY <1>1, <2>1, <2>6, <2>7 DEF Due
<1>4. CASE b \in races
  BY <1>1, <1>4 DEF Due
<1> QED BY <1>2, <1>3, <1>4

\* A call that is about to write a status.
LEMMA WritesThat ==
  ASSUME PrevTypeOK, NEW c \in Calls, NEW s \in Statuses, ThenWrite(c, s)
  PROVE  user'[c].next = s
BY DEF PrevTypeOK, ThenWrite, Call

\* What a call knows of its project, while nothing else works on it.
LEMMA CallKnows ==
  ASSUME PrevInv, NEW c \in Calls, \A b \in Apps : Due(b), Working(c), user[c].app \notin races
  PROVE  /\ At(c, "stopped") => pid[user[c].app] = 0
         /\ user[c].app \notin undated =>
               /\ CallDue(c, user[c].app)
               /\ row[user[c].app].present /\ row[user[c].app].status # "stopped"
                     => row[user[c].app].age # "none"
               /\ row[user[c].app].present /\ pid[user[c].app] # 0
                     => row[user[c].app].age # "none" \/ At(c, "publish")
<1> DEFINE a == user[c].app
<1>1. a \in Apps /\ Solo(c)
  BY DEF PrevInv, PrevTypeOK, Call, CallKept
<1>2. \A d \in Calls : user[d].app = a /\ At(d, "publish") => d = c
  BY <1>1 DEF Solo, Working, At
<1>3. Due(a)
  BY <1>1
<1> QED BY <1>1, <1>2, <1>3 DEF Due, Dated

LEMMA ReadDue ==
  ASSUME PrevInv, \A b \in Apps : Due(b), NEW c \in Calls, ReadRow(c)
  PROVE  \A b \in Apps : Due(b)'
<1> DEFINE a == user[c].app
<1>1. /\ PrevTypeOK /\ user[c] \in Call /\ a \in Apps /\ row[a] \in Row /\ Working(c)
      /\ user[c].pc = "read" /\ UNCHANGED <<row, settled, pid, proc, pass, races, clashes, orphans, undated>>
  BY DEF PrevInv, PrevTypeOK, ReadRow, At, Call, Working, cuts
<1>2. /\ user' \in [Calls -> Call] /\ \A d \in Calls \ {c} : user'[d] = user[d]
      /\ user'[c].app = a
      /\ \/ user'[c].pc = "done"
         \/ user'[c].pc \in {"pick", "decide"} /\ user'[c].status = row[a].status
  <2>1. CASE ~row[a].present
    BY <1>1, <2>1, Returns DEF ReadRow
  <2>2. CASE row[a].present
    <3>1. user' = [user EXCEPT ![c].port = row[a].port, ![c].status = row[a].status,
                               ![c].pc = AfterRead(a)]
      BY <1>1, <2>2 DEF ReadRow
    <3> DEFINE r == [user[c] EXCEPT !.port = row[a].port, !.status = row[a].status,
                                    !.pc = AfterRead(a)]
    <3>2. /\ r \in Call /\ r.app = a /\ r.pc \in {"pick", "decide"} /\ r.status = row[a].status
      BY <1>1 DEF Call, Row, AfterRead
    <3>3. user' = [user EXCEPT ![c] = r]
      BY <3>1
    <3> HIDE DEF r
    <3> QED BY <1>1, <3>2, <3>3, UserTyped
  <2> QED BY <2>1, <2>2
<1>3. OnlyCall(c)
  BY <1>1, <1>2 DEF OnlyCall
<1> QED BY <1>1, <1>2, <1>3, DueCall, CallKnows DEF CallDue, At

LEMMA PickDue ==
  ASSUME PrevInv, \A b \in Apps : Due(b), NEW c \in Calls, PickPort(c)
  PROVE  \A b \in Apps : Due(b)'
<1> DEFINE a == user[c].app
           p == CHOOSE q \in Free : \A r \in Free : q <= r
<1>1. /\ PrevTypeOK /\ user \in [Calls -> Call] /\ user[c] \in Call /\ Working(c)
      /\ user[c].pc = "pick" /\ UNCHANGED <<row, settled, pid, proc, pass, races, orphans, undated>>
      /\ Return(c) \/ user' = [user EXCEPT ![c].port = p, ![c].pc = "store"]
  BY DEF PrevInv, PrevTypeOK, PickPort, At, Working, cuts
<1> HIDE DEF p
<1>2. /\ \A d \in Calls \ {c} : user'[d] = user[d]
      /\ user'[c].app = a /\ user'[c].pc \in {"done", "store"}
  <2>1. CASE Return(c)
    BY <1>1, <2>1, Returns
  <2>2. CASE user' = [user EXCEPT ![c].port = p, ![c].pc = "store"]
    BY <1>1, <2>2 DEF Call
  <2> QED BY <1>1, <2>1, <2>2
<1>3. OnlyCall(c)
  BY <1>1, <1>2 DEF OnlyCall
<1> QED BY <1>1, <1>2, <1>3, DueCall, CallKnows DEF CallDue, At

LEMMA StoreDue ==
  ASSUME PrevInv, \A b \in Apps : Due(b), NEW c \in Calls, StorePort(c)
  PROVE  \A b \in Apps : Due(b)'
<1> DEFINE a == user[c].app
           r == [row[a] EXCEPT !.port = user[c].port]
<1>1. /\ PrevTypeOK /\ user \in [Calls -> Call] /\ user[c] \in Call /\ a \in Apps /\ row[a] \in Row
      /\ Working(c) /\ user[c].pc = "store" /\ user[c].port \in Ports
      /\ UNCHANGED <<pid, proc, pass, races, clashes, orphans, undated>>
      /\ Write(a, r)
      /\ user' = [user EXCEPT ![c].status = IF row[a].present THEN row[a].status ELSE @,
                              ![c].pc = "decide"]
  BY DEF PrevInv, PrevTypeOK, StorePort, At, Working, Call, CallKept, WithPort, cuts
<1>2. /\ r \in Row /\ r.present = row[a].present /\ r.status = row[a].status /\ r.age = row[a].age
  BY <1>1 DEF Row
<1> HIDE DEF r
<1>3. /\ \A b \in Apps : row'[b].present = row[b].present
      /\ \A b \in Apps \ {a} : row'[b] = row[b]
      /\ row[a].present => row'[a] = r
  BY <1>1, <1>2, Writes
<1>4. /\ \A d \in Calls \ {c} : user'[d] = user[d]
      /\ user'[c].app = a /\ user'[c].pc = "decide"
      /\ row[a].present => user'[c].status = row[a].status
  BY <1>1 DEF Call
<1>5. OnlyCall(c)
  BY <1>1, <1>3, <1>4 DEF OnlyCall
<1>6. a \notin races /\ a \notin undated =>
         /\ row[a].present /\ row[a].status # "stopped" => row[a].age # "none"
         /\ row[a].present /\ pid[a] # 0 => row[a].age # "none"
  BY <1>1, CallKnows DEF At
<1>7. /\ row'[a].present <=> row[a].present
      /\ row[a].present => row'[a].status = row[a].status /\ row'[a].age = row[a].age
  BY <1>1, <1>2, <1>3
<1>8. a \notin races /\ a \notin undated => CallDue(c, a)'
  BY <1>4, <1>6, <1>7 DEF CallDue, At
<1>9. a \notin races /\ a \notin undated =>
         /\ (row[a].present /\ row[a].status # "stopped" => row[a].age # "none")'
         /\ (row[a].present /\ pid[a] # 0 => row[a].age # "none" \/ At(c, "publish"))'
  BY <1>1, <1>6, <1>7
<1>10. ~At(c, "stopped")'
  BY <1>4 DEF At
<1>11. undated' = undated
  BY <1>1
<1> QED BY <1>5, <1>8, <1>9, <1>10, <1>11, DueCall

\* A step of a call on pid file and processes, that leaves the rows alone.
LEMMA DueSteps ==
  ASSUME PrevInv, \A b \in Apps : Due(b), NEW c \in Calls, Working(c),
         UNCHANGED <<row, pass, races, orphans, undated>>,
         \A d \in Calls \ {c} : user'[d] = user[d], user'[c].app = user[c].app,
         \A b \in Apps \ {user[c].app} : pid'[b] = pid[b],
         \/ pid'[user[c].app] = 0
         \/ pid'[user[c].app] = pid[user[c].app] /\ ~At(c, "publish")
         \/ At(c, "publish")',
         ~At(c, "decide")', At(c, "stopped")' => pid'[user[c].app] = 0,
         At(c, "write")' /\ user'[c].next # "stopped" /\ user[c].app \notin races \cup undated
           /\ row[user[c].app].present => row[user[c].app].age # "none"
  PROVE  \A b \in Apps : Due(b)'
<1>1. OnlyCall(c)
  BY DEF OnlyCall
<1>2. user[c].app \notin races \cup undated => CallDue(c, user[c].app)'
  BY DEF CallDue, At
<1> QED BY <1>1, <1>2, DueCall, CallKnows

LEMMA DecideStartDue ==
  ASSUME PrevInv, \A b \in Apps : Due(b), NEW c \in Calls, DecideStart(c)
  PROVE  \A b \in Apps : Due(b)'
<1> DEFINE a == user[c].app
<1>1. /\ PrevTypeOK /\ a \in Apps /\ Working(c)
      /\ user[c].pc = "decide" /\ UNCHANGED <<row, settled, pass, races, clashes, orphans, undated>>
      /\ "running" \in Statuses
  BY DEF PrevInv, PrevTypeOK, DecideStart, At, Call, Working, Statuses, cuts
<1>2. CASE Running(a) /\ UNCHANGED <<pid, proc>> /\ (Return(c) \/ ThenWrite(c, "running"))
  <2>1. /\ \A d \in Calls \ {c} : user'[d] = user[d]
        /\ user'[c].pc \in {"done", "write"} /\ user'[c].app = a
    BY <1>1, <1>2, Returns, WritesNext
  <2>2. a \notin races \cup undated /\ row[a].present => row[a].age # "none"
    BY <1>1, <1>2, CallKnows DEF Running, At
  <2> QED BY <1>1, <1>2, <2>1, <2>2, DueSteps DEF At
<1>3. CASE Kill(a) /\ (Goto(c, "spawn") \/ Return(c))
  <2>1. /\ \A d \in Calls \ {c} : user'[d] = user[d]
        /\ user'[c].pc \in {"done", "spawn"} /\ user'[c].app = a
    BY <1>1, <1>3, Returns, GoesOn
  <2>2. pid'[a] = 0 /\ \A b \in Apps \ {a} : pid'[b] = pid[b]
    BY <1>1, <1>3, Kills
  <2> QED BY <1>1, <2>1, <2>2, DueSteps DEF At
<1> QED BY <1>2, <1>3 DEF DecideStart

LEMMA DecideStatusDue ==
  ASSUME PrevInv, \A b \in Apps : Due(b), NEW c \in Calls, DecideStatus(c)
  PROVE  \A b \in Apps : Due(b)'
<1> DEFINE a == user[c].app
           s == Judgement(a, user[c].status, Listening(user[c].port))
<1>1. /\ PrevTypeOK /\ a \in Apps /\ Working(c)
      /\ user[c].pc = "decide" /\ UNCHANGED <<row, settled, proc, pass, races, clashes, orphans, undated>>
      /\ pid' = Checked(a) /\ (Return(c) \/ ThenWrite(c, s))
  BY DEF PrevInv, PrevTypeOK, DecideStatus, At, Call, Working, cuts
<1>2. s \in Statuses
  BY DEF Judgement, Statuses
<1>3. ASSUME s # "stopped", a \notin races \cup undated, row[a].present PROVE row[a].age # "none"
  <2>1. Running(a) \/ user[c].status # "stopped"
    BY <1>3 DEF Judgement
  <2>2. Running(a) => pid[a] # 0
    BY DEF Running
  <2>3. CallDue(c, a) /\ (pid[a] # 0 => row[a].age # "none" \/ At(c, "publish"))
    BY <1>1, <1>3, CallKnows
  <2> QED BY <1>1, <1>3, <2>1, <2>2, <2>3 DEF CallDue, At
<1> HIDE DEF s
<1>4. /\ \A d \in Calls \ {c} : user'[d] = user[d]
      /\ user'[c].app = a
      /\ user'[c].pc = "done" \/ (user'[c].pc = "write" /\ user'[c].next = s)
  BY <1>1, <1>2, Returns, WritesNext, WritesThat
<1>5. /\ pid'[a] \in {pid[a], 0} /\ \A b \in Apps \ {a} : pid'[b] = pid[b]
  <2>1. pid \in [Apps -> 0..MaxProcs]
    BY <1>1 DEF PrevTypeOK
  <2> QED BY <1>1, <2>1 DEF Checked
<1> QED BY <1>1, <1>3, <1>4, <1>5, DueSteps DEF At

LEMMA SpawnDue ==
  ASSUME PrevInv, \A b \in Apps : Due(b), NEW c \in Calls, Spawn(c)
  PROVE  \A b \in Apps : Due(b)'
<1> DEFINE a == user[c].app
<1>1. /\ PrevTypeOK /\ user \in [Calls -> Call] /\ user[c] \in Call /\ a \in Apps /\ Working(c)
      /\ user[c].pc = "spawn" /\ UNCHANGED <<row, settled, pid, pass, races, clashes, orphans, undated>>
      /\ "stopped" \in Statuses
  BY DEF PrevInv, PrevTypeOK, Spawn, At, Call, Working, Statuses, cuts
<1>2. /\ \A d \in Calls \ {c} : user'[d] = user[d]
      /\ user'[c].app = a
      /\ user'[c].pc = "wait" \/ (user'[c].pc = "write" /\ user'[c].next = "stopped")
  <2>1. CASE ThenWrite(c, "stopped")
    BY <1>1, <2>1, WritesNext, WritesThat
  <2>2. CASE \E k \in Procs : user' = [user EXCEPT ![c].proc = k, ![c].pc = "wait"]
    BY <1>1, <2>2 DEF Call
  <2> QED BY <2>1, <2>2 DEF Spawn
<1> QED BY <1>1, <1>2, DueSteps DEF At

LEMMA WaitedDue ==
  ASSUME PrevInv, \A b \in Apps : Due(b), NEW c \in Calls, Waited(c)
  PROVE  \A b \in Apps : Due(b)'
<1> DEFINE a == user[c].app
<1>1. /\ PrevTypeOK /\ user \in [Calls -> Call] /\ user[c] \in Call /\ a \in Apps /\ Working(c)
      /\ user[c].pc = "wait" /\ UNCHANGED <<row, settled, proc, pass, races, clashes, orphans, undated>>
      /\ "stopped" \in Statuses /\ pid \in [Apps -> 0..MaxProcs]
  BY DEF PrevInv, PrevTypeOK, Waited, At, Call, Working, Statuses, cuts
<1>2. CASE ThenWrite(c, "stopped") /\ UNCHANGED pid
  <2>1. /\ \A d \in Calls \ {c} : user'[d] = user[d]
        /\ user'[c].app = a /\ user'[c].pc = "write" /\ user'[c].next = "stopped"
    BY <1>1, <1>2, WritesNext, WritesThat
  <2> QED BY <1>1, <1>2, <2>1, DueSteps DEF At
<1>3. CASE /\ pid' = [pid EXCEPT ![a] = user[c].proc]
           /\ user' = [user EXCEPT ![c].next = IF Listening(user[c].port)
                                               THEN "running" ELSE "starting",
                                   ![c].pc = "publish"]
  <2>1. /\ \A d \in Calls \ {c} : user'[d] = user[d]
        /\ user'[c].app = a /\ user'[c].pc = "publish"
    BY <1>1, <1>3 DEF Call
  <2>2. \A b \in Apps \ {a} : pid'[b] = pid[b]
    BY <1>1, <1>3
  <2> QED BY <1>1, <2>1, <2>2, DueSteps DEF At
<1> QED BY <1>2, <1>3 DEF Waited

\* The last step of a call.
LEMMA LastDue ==
  ASSUME PrevInv, \A b \in Apps : Due(b), NEW c \in Calls, NEW r \in Row,
         user[c].pc \in {"publish", "write", "stopped"}, Write(user[c].app, r),
         Return(c) \/ Goto(c, "delete"), UNCHANGED <<pid, pass, races, orphans>>,
         undated \ {user[c].app} \subseteq undated', r.present = row[user[c].app].present,
         row[user[c].app].present /\ user[c].app \notin races /\ user[c].app \notin undated' =>
            /\ r.status # "stopped" => r.age # "none"
            /\ pid[user[c].app] # 0 => r.age # "none"
  PROVE  \A b \in Apps : Due(b)'
<1> DEFINE a == user[c].app
<1>1. PrevTypeOK /\ a \in Apps /\ Working(c)
  BY DEF PrevInv, PrevTypeOK, Call, Working
<1>2. /\ \A d \in Calls \ {c} : user'[d] = user[d]
      /\ user'[c].pc \in {"done", "delete"} /\ user'[c].app = a
  BY <1>1, Returns, GoesOn
<1>3. /\ \A b \in Apps : row'[b].present = row[b].present
      /\ \A b \in Apps \ {a} : row'[b] = row[b]
      /\ row[a].present => row'[a] = r
  BY <1>1, Writes
<1>4. OnlyCall(c)
  BY <1>1, <1>2, <1>3 DEF OnlyCall
<1>5. CallDue(c, a)'
  BY <1>2 DEF CallDue, At
<1>6. row'[a].present => row[a].present /\ row'[a] = r
  BY <1>1, <1>3
<1>7. a \notin races /\ a \notin undated' =>
         /\ (row[a].present /\ row[a].status # "stopped" => row[a].age # "none")'
         /\ (row[a].present /\ pid[a] # 0 => row[a].age # "none" \/ At(c, "publish"))'
  <2> SUFFICES ASSUME a \notin races, a \notin undated', row'[a].present
               PROVE  /\ row'[a].status # "stopped" => row'[a].age # "none"
                      /\ pid'[a] # 0 => row'[a].age # "none"
    BY <1>2
  <2>1. row[a].present /\ row'[a] = r /\ pid'[a] = pid[a]
    BY <1>6
  <2>2. (r.status # "stopped" => r.age # "none") /\ (pid[a] # 0 => r.age # "none")
    BY <2>1
  <2> QED BY <2>1, <2>2
<1> QED BY <1>2, <1>4, <1>5, <1>7, DueCall DEF At

LEMMA LastDues ==
  ASSUME PrevInv, \A b \in Apps : Due(b), NEW c \in Calls,
         Publish(c) \/ WriteStatus(c) \/ WriteStopped(c)
  PROVE  \A b \in Apps : Due(b)'
<1> DEFINE a == user[c].app
<1>1. /\ PrevTypeOK /\ user[c] \in Call /\ a \in Apps /\ row[a] \in Row
  BY DEF PrevInv, PrevTypeOK, Call
<1>2. CASE Publish(c)
  <2> DEFINE r == [row[a] EXCEPT !.port = user[c].port, !.status = user[c].next, !.age = "young"]
  <2>1. r \in Row /\ r.present = row[a].present /\ r.age # "none"
    BY <1>1 DEF Row, Call, Ages
  <2>2. /\ user[c].pc = "publish" /\ Write(a, r) /\ Return(c)
        /\ UNCHANGED <<pid, pass, races, orphans>> /\ undated' = undated \ {a}
    BY <1>2 DEF Publish, At
  <2> HIDE DEF r
  <2> QED BY <2>1, <2>2, LastDue
<1>3. CASE WriteStatus(c)
  <2> DEFINE r == WithStatus(a, user[c].next)
  <2>1. r \in Row /\ r.present = row[a].present /\ r.age = row[a].age /\ r.status = user[c].next
    BY <1>1 DEF Row, Call, WithStatus
  <2>2. /\ user[c].pc = "write" /\ Write(a, r) /\ Return(c)
        /\ UNCHANGED <<pid, pass, races, orphans, undated>>
    BY <1>3 DEF WriteStatus, At, cuts
  <2> HIDE DEF r
  <2>3. row[a].present /\ a \notin races \cup undated =>
           /\ user[c].next # "stopped" => row[a].age # "none"
           /\ pid[a] # 0 => row[a].age # "none"
    BY <2>2, CallKnows DEF CallDue, At, Working
  <2> QED BY <2>1, <2>2, <2>3, LastDue
<1>4. CASE WriteStopped(c)
  <2> DEFINE r == Stopped(a)
  <2>1. r \in Row /\ r.present = row[a].present /\ r.status = "stopped"
    BY <1>1 DEF Row, Stopped, Statuses, Ages
  <2>2. /\ user[c].pc = "stopped" /\ Write(a, r) /\ (Return(c) \/ Goto(c, "delete"))
        /\ UNCHANGED <<pid, pass, races, orphans>> /\ undated' = undated \ {a}
    BY <1>4 DEF WriteStopped, At
  <2> HIDE DEF r
  <2>3. a \notin races => pid[a] = 0
    BY <2>2, CallKnows DEF At, Working
  <2> QED BY <2>1, <2>2, <2>3, LastDue
<1> QED BY <1>2, <1>3, <1>4

LEMMA KillStopDue ==
  ASSUME PrevInv, \A b \in Apps : Due(b), NEW c \in Calls, KillStop(c)
  PROVE  \A b \in Apps : Due(b)'
<1> DEFINE a == user[c].app
<1>1. /\ PrevTypeOK /\ a \in Apps /\ Working(c)
      /\ user[c].pc = "kill" /\ UNCHANGED <<row, settled, pass, races, clashes, orphans, undated>>
      /\ Kill(a) /\ Goto(c, "stopped")
  BY DEF PrevInv, PrevTypeOK, KillStop, At, Call, Working, cuts
<1>2. /\ \A d \in Calls \ {c} : user'[d] = user[d]
      /\ user'[c].pc = "stopped" /\ user'[c].app = a
  BY <1>1, GoesOn
<1>3. pid'[a] = 0 /\ \A b \in Apps \ {a} : pid'[b] = pid[b]
  BY <1>1, Kills
<1> QED BY <1>1, <1>2, <1>3, DueSteps DEF At

LEMMA DeleteDue ==
  ASSUME PrevInv, \A b \in Apps : Due(b), NEW c \in Calls, Delete(c)
  PROVE  \A b \in Apps : Due(b)'
<1> DEFINE a == user[c].app
<1>1. /\ PrevTypeOK /\ a \in Apps /\ Working(c) /\ row \in [Apps -> Row]
      /\ row' = [row EXCEPT ![a].present = FALSE] /\ Return(c)
      /\ UNCHANGED <<pid, pass, races, orphans, undated>>
  BY DEF PrevInv, PrevTypeOK, Delete, At, Call, Working, cuts
<1>2. /\ \A d \in Calls \ {c} : user'[d] = user[d]
      /\ user'[c].pc = "done" /\ user'[c].app = a
  BY <1>1, Returns
<1>3. /\ \A b \in Apps \ {a} : row'[b] = row[b]
      /\ row'[a].present = FALSE
  BY <1>1 DEF Row
<1>4. OnlyCall(c)
  BY <1>1, <1>2, <1>3 DEF OnlyCall
<1> QED BY <1>1, <1>2, <1>3, <1>4, DueCall DEF CallDue, At

LEMMA CancelDue ==
  ASSUME PrevInv, \A b \in Apps : Due(b), NEW c \in Calls, Cancel(c)
  PROVE  \A b \in Apps : Due(b)'
<1> SUFFICES ASSUME NEW b \in Apps PROVE Due(b)'
  OBVIOUS
<1> DEFINE a == user[c].app
<1>1. /\ PrevTypeOK /\ Return(c) /\ UNCHANGED <<row, pid, pass, races>>
      /\ undated' = IF At(c, "publish") THEN undated \cup {a} ELSE undated
  BY DEF PrevInv, Cancel
<1>2. /\ \A d \in Calls \ {c} : user'[d] = user[d]
      /\ user'[c].pc = "done" /\ user'[c].app = a
  BY <1>1, Returns
<1>3. \A d \in Calls : user'[d].pc \in {"decide", "write", "stopped"} => user'[d] = user[d]
  BY <1>2
<1>4. b \notin undated' =>
         \A d \in Calls : user[d].app = b /\ At(d, "publish") =>
                             user'[d].app = b /\ At(d, "publish")'
  BY <1>1, <1>2 DEF At
<1> QED BY <1>1, <1>3, <1>4, DueFrame

\* Steps that are no step of a call.
LEMMA BeginDue ==
  ASSUME PrevInv, \A b \in Apps : Due(b), NEW c \in Calls, NEW kind \in Kinds, NEW a \in Apps,
         Begin(c, kind, a)
  PROVE  \A b \in Apps : Due(b)'
<1> SUFFICES ASSUME NEW b \in Apps PROVE Due(b)'
  OBVIOUS
<1>1. /\ user \in [Calls -> Call] /\ user[c].pc = "new" /\ races \subseteq races'
      /\ user' = [user EXCEPT ![c].kind = kind, ![c].app = a,
                              ![c].pc = IF kind \in {"stop", "remove"} THEN "kill" ELSE "read"]
      /\ UNCHANGED <<row, settled, pid, proc, pass, clashes, orphans, undated>>
  BY DEF PrevInv, PrevTypeOK, Begin, At, Races, cuts
<1>2. /\ \A d \in Calls \ {c} : user'[d] = user[d]
      /\ user'[c].pc \in {"kill", "read"}
  BY <1>1 DEF Call
<1> QED BY <1>1, <1>2, DueFrame DEF At

LEMMA PassDue ==
  ASSUME PrevInv, \A b \in Apps : Due(b), NEW a \in Apps,
         BeginPass \/ Visit(a) \/ GrowOld(a) \/ Settle(a)
  PROVE  \A b \in Apps : Due(b)'
<1> SUFFICES ASSUME NEW b \in Apps PROVE Due(b)'
  OBVIOUS
<1>t. /\ PrevTypeOK /\ row \in [Apps -> Row] /\ pid \in [Apps -> 0..MaxProcs]
      /\ pass \in [rows : [Apps -> Row], left : SUBSET Apps, writes : SUBSET Apps]
  BY DEF PrevInv, PrevTypeOK
<1>1. CASE BeginPass
  <2>1. pass'.writes = {} /\ races \subseteq races' /\ UNCHANGED <<row, pid, user, undated>>
    BY <1>1 DEF BeginPass, cuts
  <2> QED BY <2>1, DueFrame DEF At
<1>2. CASE Visit(a)
  <2>1. UNCHANGED <<row, user, races, undated>> /\ pass.writes = {}
    BY <1>2 DEF Visit, cuts
  <2>2. CASE Kill(a) /\ pass' = [Visited(a) EXCEPT !.writes = {a}]
    <3>1. /\ pid'[a] = 0 /\ \A d \in Apps \ {a} : pid'[d] = pid[d]
      BY <1>t, <2>2, Kills
    <3>2. b \in pass'.writes => b = a
      BY <2>2 DEF Visited
    <3>3. pid'[b] \in {pid[b], 0} /\ (b \in pass'.writes => pid'[b] = 0)
      BY <3>1, <3>2
    <3> QED BY <2>1, <3>3, DueFrame DEF At
  <2>3. CASE pid' = Checked(a) /\ pass' = Visited(a)
    <3>1. pid'[b] \in {pid[b], 0}
      BY <1>t, <2>3 DEF Checked
    <3>2. pass'.writes = {}
      BY <1>t, <2>1, <2>3 DEF Visited
    <3> QED BY <2>1, <3>1, <3>2, DueFrame DEF At
  <2> QED BY <1>2, <2>2, <2>3 DEF Visit
<1>3. CASE GrowOld(a)
  <2>1. row' = [row EXCEPT ![a].age = "old"] /\ UNCHANGED <<pid, user, pass, races, undated>>
    BY <1>3 DEF GrowOld, cuts
  <2>2. /\ row'[b].present = row[b].present /\ row'[b].status = row[b].status
        /\ row'[b].age = row[b].age \/ row'[b].age = "old"
    BY <1>t, <2>1 DEF Row
  <2> QED BY <2>1, <2>2, DueFrame DEF At
<1>4. CASE Settle(a)
  <2>1. UNCHANGED <<row, pid, user, pass, races, undated>>
    BY <1>4 DEF Settle, cuts
  <2> QED BY <2>1, DueFrame DEF At
<1> QED BY <1>1, <1>2, <1>3, <1>4

LEMMA WriteExpiredDue ==
  ASSUME PrevInv, \A b \in Apps : Due(b), NEW a \in Apps, WriteExpired(a)
  PROVE  \A b \in Apps : Due(b)'
<1> SUFFICES ASSUME NEW b \in Apps PROVE Due(b)'
  OBVIOUS
<1>1. /\ PrevTypeOK /\ row[a] \in Row /\ Write(a, Stopped(a)) /\ a \in pass.writes
      /\ pass'.writes = {} /\ UNCHANGED <<pid, proc, user, races, clashes>>
      /\ undated' = undated \ {a}
  BY DEF PrevInv, WriteExpired, PrevTypeOK
<1>2. Stopped(a) \in Row /\ Stopped(a).present = row[a].present /\ Stopped(a).status = "stopped"
  BY <1>1 DEF Row, Stopped, Statuses, Ages
<1>3. /\ \A d \in Apps : row'[d].present = row[d].present
      /\ \A d \in Apps \ {a} : row'[d] = row[d]
      /\ row[a].present => row'[a].status = "stopped"
  BY <1>1, <1>2, Writes
<1>4. CASE b # a
  BY <1>1, <1>3, <1>4, DueFrame DEF At
<1>5. CASE b = a /\ a \notin races
  <2>1. pid[a] = 0
    BY <1>1, <1>5 DEF Due
  <2>2. \A c \in Calls : user[c].app = a => ~Working(c)
    BY <1>1, <1>5, Apart
  <2>3. \A c \in Calls : user[c].app = a => CallDue(c, a)'
    BY <1>1, <2>2 DEF CallDue, At, Working
  <2>4. Dated(a)'
    BY <1>1, <1>3, <2>1, <2>3 DEF Dated
  <2> QED BY <1>1, <1>5, <2>1, <2>4 DEF Due
<1>6. CASE b = a /\ a \in races
  BY <1>1, <1>6 DEF Due
<1> QED BY <1>4, <1>5, <1>6

\* A preview that its row shows as active has a deadline that the expiry pass
\* will hold it to, on every project that has seen no race and no start that was
\* cancelled between the pid file and the row, whatever else is started, stopped,
\* cancelled, asked for and removed and however processes die: the safety half
\* of PreviewsExpire.  A preview without preview_started_at would have no end.
THEOREM PreviewsHaveDeadline ==
    PrevSpec => [](\A a \in Apps \ (races \cup undated) :
                      row[a].present /\ row[a].status # "stopped" => row[a].age # "none")
<1> DEFINE AllDue == \A a \in Apps : Due(a)
<1>1. PrevInit => AllDue
  BY DEF PrevInit, Due, Dated, NewRow, NewCall, NewPass, CallDue, At
<1>2. PrevInv /\ AllDue /\ [PrevNext]_prevVars => AllDue'
  <2> SUFFICES ASSUME PrevInv, \A a \in Apps : Due(a), [PrevNext]_prevVars
               PROVE  \A a \in Apps : Due(a)'
    OBVIOUS
  <2>1. ASSUME NEW c \in Calls, CallStep(c) PROVE \A a \in Apps : Due(a)'
    BY <2>1, ReadDue, PickDue, StoreDue, DecideStartDue, DecideStatusDue, SpawnDue, WaitedDue,
       LastDues, DeleteDue, KillStopDue DEF CallStep
  <2>2. CASE \E c \in Calls, k \in Kinds, a \in Apps : Begin(c, k, a)
    BY <2>2, BeginDue
  <2>3. CASE BeginPass \/ \E a \in Apps : Visit(a) \/ WriteExpired(a) \/ GrowOld(a) \/ Settle(a)
    BY <2>3, PassDue, WriteExpiredDue, PreviewsAssumption DEF PreviewsAssumption
  <2>4. CASE \E k \in Procs : Bind(k) \/ Exit(k)
    <3>1. UNCHANGED <<row, pid, user, pass, races, undated>>
      BY <2>4 DEF Bind, Exit, cuts
    <3> QED BY <3>1, DueFrame DEF At
  <2>5. CASE UNCHANGED prevVars
    BY <2>5, DueFrame DEF prevVars, cuts, At
  <2>6. CASE \E c \in Calls : Cancel(c)
    BY <2>6, CancelDue
  <2> QED BY <2>1, <2>2, <2>3, <2>4, <2>5, <2>6 DEF PrevNext, PrevQuiet
<1>3. AllDue => \A a \in Apps \ (races \cup undated) :
                   row[a].present /\ row[a].status # "stopped" => row[a].age # "none"
  BY DEF Due, Dated
<1> HIDE DEF AllDue
<1> QED BY <1>1, <1>2, <1>3, PrevInitInv, PrevStep, PTL DEF PrevSpec
=============================================================================
