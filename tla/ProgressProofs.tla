--------------------------- MODULE ProgressProofs ---------------------------
(* Proofs about the services that go on by themselves: Supervisor, for every  *)
(* number of projects, and BranchDeploy, for every set of commits.            *)
EXTENDS Supervisor, BranchDeploy, TLAPS

(* Supervisor *)

USE SupConstantsAssumption

LEMMA InitSupTyped == SupInit => SupTypeOK
  BY DEF SupInit, SupTypeOK, Projects, Status

LEMMA NextSupTyped == SupTypeOK /\ [SupNext]_supVars => SupTypeOK'
<1> SUFFICES ASSUME SupTypeOK, [SupNext]_supVars PROVE SupTypeOK'
  OBVIOUS
<1> USE DEF SupTypeOK, Status, operator
<1>0. cursor # 0 => cursor \in Projects
  BY DEF Projects
<1>a. Advance => cursor' \in 0..N
  BY DEF Advance
<1>1. CASE BeginPass
  BY <1>1 DEF BeginPass
<1>2. CASE Skip
  BY <1>2, <1>a DEF Skip
<1>3. CASE RuntimeMissing
  BY <1>3, <1>0, <1>a DEF RuntimeMissing, GiveUp
<1>4. CASE SeenAlive
  BY <1>4, <1>0, <1>a DEF SeenAlive
<1>5. CASE TooManyFailures
  BY <1>5, <1>0, <1>a DEF TooManyFailures, GiveUp, Down
<1>6. CASE RestartOK
  BY <1>6, <1>0, <1>a DEF RestartOK, Down
<1>7. CASE RestartFailed
  <2>1. cursor \in Projects
    BY <1>7, <1>0 DEF RestartFailed, Down
  <2>2. attempts' \in [Projects -> 0..4]
    BY <1>7, <2>1 DEF RestartFailed, Tried
  <2>3. fails' \in [Projects -> 0..3] /\ status' \in [Projects -> Status]
    <3>1. CASE LastChance(cursor) /\ GiveUp(cursor)
      BY <2>1, <3>1 DEF GiveUp
    <3>2. CASE fails' = [fails EXCEPT ![cursor] = @ + 1] /\ UNCHANGED status
      BY <1>7, <2>1, <3>2 DEF RestartFailed, TooOften
    <3> QED BY <1>7, <3>1, <3>2 DEF RestartFailed
  <2> QED BY <1>7, <1>a, <2>2, <2>3 DEF RestartFailed
<1>8. CASE RestartRaised
  <2>1. cursor \in Projects
    BY <1>8, <1>0 DEF RestartRaised, Down
  <2>2. attempts' \in [Projects -> 0..4]
    BY <1>8, <2>1 DEF RestartRaised, Tried
  <2>3. fails' \in [Projects -> 0..3]
    BY <1>8, <2>1 DEF RestartRaised, CountRaise, TooOften
  <2> QED BY <1>8, <2>2, <2>3 DEF RestartRaised
<1>9. ASSUME NEW p \in Projects, NEW k \in OpKinds,
             NEW result \in {"started", "failed", "stopping", "removing"},
             OpBegin(p, k, result)
      PROVE  SupTypeOK'
  <2>1. /\ alive' \in [Projects -> BOOLEAN]
        /\ attempts' \in [Projects -> 0..4]
    <3>1. CASE k = "start"
      <4> DEFINE up == result = "started"
      <4>1. up \in BOOLEAN
        OBVIOUS
      <4>2. /\ alive' = [alive EXCEPT ![p] = up]
            /\ attempts' = [attempts EXCEPT ![p] = 0]
        BY <1>9, <3>1 DEF OpBegin
      <4> HIDE DEF up
      <4> QED BY <4>1, <4>2
    <3>2. CASE k # "start"
      BY <1>9, <3>2 DEF OpBegin
    <3> QED BY <3>1, <3>2
  <2>2. ops' \in 0..MaxOps /\ op' \in [Projects -> {"idle", "stopping", "removing", "started", "failed"}]
    BY <1>9 DEF OpBegin
  <2> QED BY <1>9, <2>1, <2>2 DEF OpBegin
<1>10. ASSUME NEW p \in Projects, OpWrite(p)
       PROVE  SupTypeOK'
  BY <1>10 DEF OpWrite
<1>11. ASSUME NEW p \in Projects, ProcessExit(p)
       PROVE  SupTypeOK'
  BY <1>11 DEF ProcessExit
<1>12. CASE Reboot
  BY <1>12 DEF Reboot
<1>13. CASE UNCHANGED supVars
  BY <1>13 DEF supVars
<1> QED BY <1>1, <1>2, <1>3, <1>4, <1>5, <1>6, <1>7, <1>8, <1>9, <1>10, <1>11, <1>12, <1>13
        DEF SupNext, Visit

\* The failure counter of a project never exceeds three, for any number of
\* projects and any mix of operator calls, exits and server restarts.
THEOREM SupervisorTyped == SupSpec => []SupTypeOK
  BY InitSupTyped, NextSupTyped, PTL DEF SupSpec

-----------------------------------------------------------------------------
(* How often a broken service is restarted *)

LEMMA OpsGrow == SupTypeOK /\ [SupNext]_supVars /\ ops' = 0 => ops = 0
<1> SUFFICES ASSUME ops \in Nat, [SupNext]_supVars, ops' = 0
             PROVE  ops = 0
  BY DEF SupTypeOK
<1>1. ASSUME NEW p \in Projects, NEW k \in OpKinds,
             NEW result \in {"started", "failed", "stopping", "removing"},
             OpBegin(p, k, result)
      PROVE  FALSE
  BY <1>1 DEF OpBegin
<1>2. CASE BeginPass \/ Visit \/ Reboot
  BY <1>2 DEF BeginPass, Visit, Skip, RuntimeMissing, SeenAlive, TooManyFailures, RestartOK,
              RestartFailed, RestartRaised, Reboot, operator
<1>3. ASSUME NEW p \in Projects, OpWrite(p) \/ ProcessExit(p)
      PROVE  ops = 0
  BY <1>3 DEF OpWrite, ProcessExit, operator
<1>4. CASE UNCHANGED supVars
  BY <1>4 DEF supVars
<1> QED BY <1>1, <1>2, <1>3, <1>4 DEF SupNext

\* Without operator calls only the supervisor changes a row, so a project it
\* has yet to visit is as the snapshot says, and the attempts at a service
\* that is still recorded as running are all counted.
AttemptsInv ==
    /\ ops = 0
    /\ \A p \in Projects : op[p] = "idle"
    /\ \A p \in Projects : 0 < cursor /\ cursor <= p /\ snap[p] = "running"
                              => status[p] = "running"
    /\ \A p \in Projects : status[p] = "running" => attempts[p] <= fails[p]
    /\ \A p \in Projects : alive[p] => attempts[p] = 0
    /\ \A p \in Projects : attempts[p] <= 3

LEMMA InitAttempts == SupInit => AttemptsInv
  BY DEF SupInit, AttemptsInv, Projects

LEMMA NextAttempts ==
  ASSUME SupTypeOK, AttemptsInv, [SupNext]_supVars, ops' = 0
  PROVE  AttemptsInv'
<1> USE DEF SupTypeOK, AttemptsInv, operator
<1>0. cursor # 0 => cursor \in Projects
  BY DEF Projects
<1>a. Projects \subseteq Nat /\ cursor \in Nat /\ N \in Nat
  BY DEF Projects
<1>b. ASSUME Advance, cursor # 0
      PROVE  \A p \in Projects : 0 < cursor' /\ cursor' <= p => cursor < p
  BY <1>a, <1>b DEF Advance
<1>1. CASE BeginPass
  BY <1>1 DEF BeginPass
<1>2. CASE Skip
  BY <1>2, <1>a, <1>b DEF Skip
<1>3. CASE RuntimeMissing
  BY <1>3, <1>0, <1>a, <1>b DEF RuntimeMissing, GiveUp
<1>4. CASE SeenAlive
  BY <1>4, <1>0, <1>a, <1>b DEF SeenAlive
<1>5. CASE TooManyFailures
  BY <1>5, <1>0, <1>a, <1>b DEF TooManyFailures, GiveUp, Down
<1>6. CASE RestartOK
  BY <1>6, <1>0, <1>a, <1>b DEF RestartOK, Down
<1>7. ASSUME RestartFailed \/ RestartRaised
      PROVE  AttemptsInv'
  <2>1. /\ cursor \in Projects /\ ~alive[cursor] /\ snap[cursor] = "running"
        /\ ~(fails[cursor] + 1 > 3)
    BY <1>7, <1>0 DEF RestartFailed, RestartRaised, Down, TooOften
  <2>2. cursor \in Nat /\ 0 < cursor
    BY <2>1, <1>a DEF Projects
  <2>3. status[cursor] = "running"
    BY <2>1, <2>2
  <2>4. fails[cursor] \in 0..2 /\ attempts[cursor] \in 0..2 /\ attempts[cursor] <= fails[cursor]
    BY <2>1, <2>3
  <2>5. attempts' = [attempts EXCEPT ![cursor] = @ + 1]
    BY <1>7, <2>1, <2>4 DEF RestartFailed, RestartRaised, Tried
  <2>6. UNCHANGED <<alive, snap, op, ops>>
    BY <1>7 DEF RestartFailed, RestartRaised
  <2>7. \A p \in Projects : attempts'[p] <= 3 /\ (alive'[p] => attempts'[p] = 0)
    BY <2>1, <2>4, <2>5, <2>6
  <2>8. \A p \in Projects : 0 < cursor' /\ cursor' <= p => cursor < p
    BY <1>7, <1>b, <2>2 DEF RestartFailed, RestartRaised
  <2>9. \A p \in Projects : p # cursor => status'[p] = status[p] /\ fails'[p] = fails[p]
                                           /\ attempts'[p] = attempts[p]
    BY <1>7, <2>1, <2>5 DEF RestartFailed, RestartRaised, GiveUp, CountRaise
  <2>10. status'[cursor] = "running" => fails'[cursor] = fails[cursor] + 1
    BY <1>7, <2>1, <2>3 DEF RestartFailed, RestartRaised, GiveUp, CountRaise
  <2>11. \A p \in Projects : status'[p] = "running" => attempts'[p] <= fails'[p]
    BY <2>1, <2>4, <2>5, <2>9, <2>10
  <2>12. \A p \in Projects : 0 < cursor' /\ cursor' <= p /\ snap'[p] = "running"
                              => status'[p] = "running"
    <3> SUFFICES ASSUME NEW p \in Projects, 0 < cursor', cursor' <= p, snap[p] = "running"
                 PROVE  status'[p] = "running"
      BY <2>6
    <3>1. cursor < p
      BY <2>8
    <3>2. status[p] = "running" /\ p # cursor
      BY <3>1, <2>2, <1>a
    <3> QED BY <3>2, <2>9
  <2> QED BY <2>6, <2>7, <2>11, <2>12
<1>9. ASSUME NEW p \in Projects, ProcessExit(p)
      PROVE  AttemptsInv'
  BY <1>9 DEF ProcessExit
<1>10. CASE Reboot
  BY <1>10 DEF Reboot
<1>11. CASE UNCHANGED supVars
  BY <1>11 DEF supVars
<1>12. ASSUME NEW p \in Projects,
              OpWrite(p) \/ \E k \in OpKinds, result \in {"started", "failed", "stopping", "removing"} :
                               OpBegin(p, k, result)
       PROVE  FALSE
  BY <1>12 DEF OpWrite, OpBegin
<1> QED BY <1>1, <1>2, <1>3, <1>4, <1>5, <1>6, <1>7, <1>9, <1>10, <1>11, <1>12
        DEF SupNext, Visit

\* As long as no operator steps in, the supervisor restarts a service that
\* does not come up at most three times, however many projects there are,
\* whether the restarts fail or raise, and wherever the server is restarted.
THEOREM RestartsBounded == SupSpec => []AttemptsBounded
<1> DEFINE Inv == SupTypeOK /\ (ops = 0 => AttemptsInv)
<1>1. SupInit => Inv
  BY InitSupTyped, InitAttempts
<1>2. Inv /\ [SupNext]_supVars => Inv'
  BY NextSupTyped, NextAttempts, OpsGrow
<1>3. Inv => AttemptsBounded
  BY DEF AttemptsInv, AttemptsBounded
<1> HIDE DEF Inv
<1> QED BY <1>1, <1>2, <1>3, PTL DEF SupSpec

-----------------------------------------------------------------------------
(* When a service is given up *)

\* What is counted against a service was tried, as long as no operator starts
\* it: a call that does begins a new history of attempts and leaves the
\* counter of the supervisor as it is.
CountedInv == \A p \in Projects : fails[p] <= attempts[p]

LEMMA NextCounted ==
  ASSUME SupTypeOK, CountedInv, [SupNext]_supVars, ops' = 0
  PROVE  CountedInv'
<1> USE DEF SupTypeOK, CountedInv, operator
<1>0. cursor # 0 => cursor \in Projects
  BY DEF Projects
<1>1. CASE BeginPass \/ Skip \/ UNCHANGED supVars
  BY <1>1 DEF BeginPass, Skip, supVars
<1>2. CASE RuntimeMissing \/ SeenAlive \/ TooManyFailures
  BY <1>2, <1>0 DEF RuntimeMissing, SeenAlive, TooManyFailures, GiveUp, Down
<1>3. CASE RestartOK
  BY <1>3, <1>0 DEF RestartOK, Down
<1>4. CASE RestartFailed \/ RestartRaised
  <2>1. /\ cursor \in Projects
        /\ ~(fails[cursor] + 1 > 3)
    BY <1>4, <1>0 DEF RestartFailed, RestartRaised, Down, TooOften
  <2>2. \/ attempts[cursor] < 4 /\ attempts' = [attempts EXCEPT ![cursor] = @ + 1]
        \/ attempts[cursor] = 4 /\ attempts' = [attempts EXCEPT ![cursor] = 4]
    BY <1>4, <2>1 DEF RestartFailed, RestartRaised, Tried
  <2>3. \/ fails' = [fails EXCEPT ![cursor] = 0]
        \/ fails' = [fails EXCEPT ![cursor] = @ + 1]
    BY <1>4 DEF RestartFailed, RestartRaised, GiveUp, CountRaise
  <2>4. \A p \in Projects : p # cursor => fails'[p] = fails[p] /\ attempts'[p] = attempts[p]
    BY <2>1, <2>2, <2>3
  <2>5. fails'[cursor] <= attempts'[cursor]
    BY <2>1, <2>2, <2>3
  <2> QED BY <2>1, <2>4, <2>5
<1>5. ASSUME NEW p \in Projects, OpWrite(p) \/ ProcessExit(p)
      PROVE  CountedInv'
  BY <1>5 DEF OpWrite, ProcessExit
<1>6. CASE Reboot
  BY <1>6 DEF Reboot
<1>7. ASSUME NEW p \in Projects, NEW k \in OpKinds,
             NEW result \in {"started", "failed", "stopping", "removing"}, OpBegin(p, k, result)
      PROVE  FALSE
  BY <1>7 DEF OpBegin
<1> QED BY <1>1, <1>2, <1>3, <1>4, <1>5, <1>6, <1>7 DEF SupNext, Visit

GivesUpLate ==
    ops = 0 => \A p \in Projects :
        attempts'[p] = attempts[p] + 1 /\ status[p] = "running" /\ status'[p] = "stopped"
            => attempts[p] >= 1

LEMMA StepGivesUpLate ==
  ASSUME SupTypeOK, ops = 0 => CountedInv, SupNext
  PROVE  GivesUpLate
<1> SUFFICES ASSUME ops = 0, CountedInv, NEW p \in Projects,
                    attempts'[p] = attempts[p] + 1, status[p] = "running", status'[p] = "stopped"
             PROVE  attempts[p] >= 1
  BY DEF GivesUpLate
<1> USE DEF SupTypeOK, operator
<1>0. attempts[p] \in 0..4 /\ attempts'[p] # attempts[p] /\ attempts'[p] # 0
  OBVIOUS
<1>1. CASE RestartFailed
  <2>1. cursor \in Projects
    BY <1>1 DEF RestartFailed, Down, Projects
  <2>2. attempts' = [attempts EXCEPT ![cursor] = IF @ < 4 THEN @ + 1 ELSE 4]
    BY <1>1 DEF RestartFailed, Tried
  <2>3. cursor = p
    BY <2>1, <2>2, <1>0
  <2>4. LastChance(p)
    BY <1>1, <2>3 DEF RestartFailed
  <2>5. fails[p] >= 1 /\ fails[p] <= attempts[p]
    BY <2>4 DEF LastChance, CountedInv
  <2> QED BY <2>5, <1>0
<1>2. CASE RestartRaised
  BY <1>2 DEF RestartRaised
<1>3. CASE RestartOK
  BY <1>3, <1>0 DEF RestartOK
<1>4. CASE BeginPass \/ Skip \/ RuntimeMissing \/ SeenAlive \/ TooManyFailures
  BY <1>4, <1>0 DEF BeginPass, Skip, RuntimeMissing, SeenAlive, TooManyFailures
<1>5. ASSUME NEW q \in Projects, OpWrite(q) \/ ProcessExit(q)
      PROVE  FALSE
  BY <1>5, <1>0 DEF OpWrite, ProcessExit
<1>6. CASE Reboot
  BY <1>6, <1>0 DEF Reboot
<1>7. ASSUME NEW q \in Projects, NEW k \in OpKinds,
             NEW result \in {"started", "failed", "stopping", "removing"}, OpBegin(q, k, result)
      PROVE  FALSE
  BY <1>7, <1>0 DEF OpBegin
<1> QED BY <1>1, <1>2, <1>3, <1>4, <1>5, <1>6, <1>7 DEF SupNext, Visit

\* As long as no operator steps in, the supervisor gives a service up for a
\* failed restart only after another one before it, whatever raised, exited or
\* was restarted, for any number of projects.
THEOREM GivenASecondChance == SupSpec => SecondChance
<1> DEFINE Inv == SupTypeOK /\ (ops = 0 => CountedInv)
<1>1. SupInit => Inv
  BY InitSupTyped DEF SupInit, CountedInv, Projects
<1>2. Inv /\ [SupNext]_supVars => Inv'
  BY NextSupTyped, NextCounted, OpsGrow
<1>3. Inv /\ [SupNext]_supVars => [GivesUpLate]_supVars
  BY StepGivesUpLate
<1> HIDE DEF Inv
<1> QED BY <1>1, <1>2, <1>3, PTL DEF SupSpec, SecondChance, GivesUpLate
-----------------------------------------------------------------------------
(* BranchDeploy *)

USE BranchConstantsAssumption DEF BranchConstantsAssumption

LEMMA InitBranchTyped == BranchInit => BranchTypeOK
<1> SUFFICES ASSUME BranchInit PROVE BranchTypeOK
  OBVIOUS
<1> USE DEF BranchInit, Commit
<1>1. head \in Commits /\ seen \in Commit /\ deployed \in Commit /\ slot \in Commit
  OBVIOUS
<1>2. busy \in BOOLEAN /\ entering \in Nat /\ overtaken \subseteq Commits
  OBVIOUS
<1>3. pc \in {"sleep", "fetch", "issue", "insert", "note", "record"}
  OBVIOUS
<1>4. row \in [seen : Commit, deployed : Commit]
  OBVIOUS
<1>5. sha \in Commit /\ pc = "sleep" /\ queued \subseteq Commits /\ again \in Nat
  OBVIOUS
<1>6. /\ pushes \in 0..MaxPushes /\ manual \in 0..MaxManual
      /\ enables \in 0..MaxEnables /\ faults \in 0..MaxFaults
  OBVIOUS
<1> QED BY <1>1, <1>2, <1>3, <1>4, <1>5, <1>6 DEF BranchTypeOK

LEMMA NextBranchTyped == BranchTypeOK /\ [BranchNext]_branchVars => BranchTypeOK'
<1> SUFFICES ASSUME BranchTypeOK, [BranchNext]_branchVars PROVE BranchTypeOK'
  OBVIOUS
<1> USE DEF BranchTypeOK, Commit, record, bounds
<1>1. CASE BeginCheck
  BY <1>1 DEF BeginCheck, deploys
<1>0. ASSUME NEW c \in Commit, Take(c)
      PROVE  slot' \in Commit /\ busy' \in BOOLEAN /\ overtaken' \subseteq Commits
  BY <1>0 DEF Take
<1>2. CASE Issue
  <2>1. pc' \in {"sleep", "insert"} /\ (pc' = "insert" => sha # None)
    BY <1>2 DEF Issue, Deferred
  <2>2. UNCHANGED <<head, seen, deployed, slot, entering, overtaken, row, sha, queued, again>>
    BY <1>2 DEF Issue, deploys
  <2>3. busy' \in BOOLEAN
    BY <1>2 DEF Issue, deploys
  <2> HIDE DEF Commit
  <2> QED BY <1>2, <2>1, <2>2, <2>3 DEF Issue
<1>12. CASE IssueTake
  <2>1. sha \in Commits
    BY <1>12 DEF IssueTake
  <2>2. slot' \in Commit /\ busy' \in BOOLEAN /\ overtaken' \subseteq Commits
    BY <1>0, <1>12, <2>1 DEF IssueTake
  <2>3. queued' \subseteq Commits /\ again' \in Nat
    BY <1>12, <2>1 DEF IssueTake
  <2> HIDE DEF Commit
  <2> QED BY <1>12, <2>1, <2>2, <2>3 DEF IssueTake
<1>3. CASE Record
  <2>1. busy' \in BOOLEAN /\ UNCHANGED <<slot, entering, overtaken>>
    BY <1>3 DEF Record, deploys
  <2>2. seen' \in Commit /\ pc' = "sleep"
    BY <1>3 DEF Record
  <2> HIDE DEF Commit
  <2> QED BY <1>3, <2>1, <2>2 DEF Record
<1>4. CASE Fetch
  BY <1>4 DEF Fetch, AfterFetch, Answers, deploys
<1>5. CASE Unavailable
  BY <1>5 DEF Unavailable, deploys
<1>6. ASSUME NEW c \in Commits, Push(c)
      PROVE  BranchTypeOK'
  BY <1>6 DEF Push, deploys
<1>7. CASE ManualDeploy
  BY <1>7 DEF ManualDeploy
<1>13. ASSUME NEW c \in Commit, ManualTake(c)
       PROVE  BranchTypeOK'
  <2>1. slot' \in Commit /\ busy' \in BOOLEAN /\ overtaken' \subseteq Commits
    BY <1>0, <1>13 DEF ManualTake
  <2>2. entering' \in Nat
    BY <1>13 DEF ManualTake
  <2> HIDE DEF Commit
  <2> QED BY <1>13, <2>1, <2>2 DEF ManualTake
<1>8. CASE DeployLands
  <2>1. deployed' \in Commit
    BY <1>8 DEF DeployLands
  <2>2. busy' \in BOOLEAN /\ UNCHANGED <<slot, entering, overtaken>>
    BY <1>8 DEF DeployLands, deploys
  <2> HIDE DEF Commit
  <2> QED BY <1>8, <2>1, <2>2 DEF DeployLands
<1>14. CASE DeployEnds
  BY <1>14 DEF DeployEnds
<1>15. ASSUME NEW c \in Commits, OvertakenEnds(c)
       PROVE  BranchTypeOK'
  BY <1>15 DEF OvertakenEnds
<1>9. CASE Fail
  <2>1. busy' \in BOOLEAN /\ slot' \in Commit /\ entering' \in Nat /\ overtaken' \subseteq Commits
    <3>1. CASE UNCHANGED deploys
      BY <3>1 DEF deploys
    <3>2. CASE busy' = FALSE /\ slot' = None /\ entering' = 0 /\ overtaken' = {}
      BY <3>2
    <3> QED BY <1>9, <3>1, <3>2 DEF Fail
  <2>2. pc' = "sleep" /\ faults' \in 0..MaxFaults
    BY <1>9 DEF Fail
  <2> HIDE DEF Commit
  <2> QED BY <1>9, <2>1, <2>2 DEF Fail
<1>11. CASE Enable
  <2>1. busy' \in BOOLEAN /\ UNCHANGED <<slot, entering, overtaken>>
    BY <1>11 DEF Enable, deploys
  <2>2. seen' \in Commit /\ again' \in Nat
    BY <1>11 DEF Enable
  <2>3. enables' \in 0..MaxEnables
    BY <1>11 DEF Enable
  <2> HIDE DEF Commit
  <2> QED BY <1>11, <2>1, <2>2, <2>3 DEF Enable
<1>10. CASE UNCHANGED branchVars
  BY <1>10 DEF branchVars
<1> QED BY <1>1, <1>2, <1>3, <1>4, <1>5, <1>6, <1>7, <1>8, <1>9, <1>10, <1>11, <1>12,
        <1>13, <1>14, <1>15 DEF BranchNext, CheckStep

\* Every variable keeps its type, whatever is pushed, deployed and lost.
THEOREM WatcherTyped == BranchSpec => []BranchTypeOK
  BY InitBranchTyped, NextBranchTyped, PTL DEF BranchSpec

-----------------------------------------------------------------------------
\* NotRepeated is not inductive: a head that was queued, and not repeated
\* because of a fault, must be in the row before the next check reads it,
\* and in the row that check works with.
Used == again > faults

QueuedOnce ==
    /\ again <= 1 + faults
    /\ pc = "fetch" /\ Used => row.seen = sha
    /\ pc \in {"sleep", "fetch"} /\ Used => seen = sha
    /\ pc \in {"issue", "insert", "note"} => ~Used

LEMMA InitQueued == BranchInit => QueuedOnce
  BY DEF BranchInit, QueuedOnce, Used

LEMMA NextQueued ==
  ASSUME BranchTypeOK, QueuedOnce, [BranchNext]_branchVars
  PROVE  QueuedOnce'
<1> USE DEF BranchTypeOK, QueuedOnce, Used, record, bounds
<1>1. CASE BeginCheck
  BY <1>1 DEF BeginCheck
<1>2. CASE Issue
  BY <1>2 DEF Issue, Deferred
<1>12. CASE IssueTake
  BY <1>12 DEF IssueTake
<1>3. CASE Record
  BY <1>3 DEF Record
<1>4. CASE Fetch
  BY <1>4 DEF Fetch, AfterFetch, Answers
<1>5. CASE Unavailable
  BY <1>5 DEF Unavailable
<1>6. ASSUME NEW c \in Commits, Push(c)
      PROVE  QueuedOnce'
  BY <1>6 DEF Push
<1>7. CASE ManualDeploy \/ (\E c \in Commit : ManualTake(c)) \/ (\E c \in Commits : OvertakenEnds(c))
  BY <1>7 DEF ManualDeploy, ManualTake, OvertakenEnds
<1>8. CASE DeployLands \/ DeployEnds
  BY <1>8 DEF DeployLands, DeployEnds
<1>9. CASE Fail
  BY <1>9 DEF Fail
<1>11. CASE Enable
  BY <1>11 DEF Enable
<1>10. CASE UNCHANGED branchVars
  BY <1>10 DEF branchVars
<1> QED BY <1>1, <1>2, <1>3, <1>4, <1>5, <1>6, <1>7, <1>8, <1>9, <1>10, <1>11, <1>12
        DEF BranchNext, CheckStep

\* A head that stays is queued at most once more than checks have failed,
\* for any number of pushes, enables and deploys issued by others.
THEOREM HeadQueuedOnce == BranchSpec => []NotRepeated
<1>1. BranchTypeOK /\ QueuedOnce /\ [BranchNext]_branchVars => (BranchTypeOK /\ QueuedOnce)'
  BY NextBranchTyped, NextQueued
<1>2. QueuedOnce => NotRepeated
  BY DEF QueuedOnce, NotRepeated
<1> QED BY InitBranchTyped, InitQueued, <1>1, <1>2, PTL DEF BranchSpec

-----------------------------------------------------------------------------
(* Why no head is passed over *)

\* Of a commit that is never deployed: wherever the check compares a head
\* with what was seen, it has been queued if it is what was seen.
Known(c) ==
    /\ row.deployed # c
    /\ row.seen = c \/ seen = c => c \in queued
    /\ pc = "record" /\ sha = c => c \in queued
    /\ pc = "note" => sha # c

LEMMA NextKnown ==
  ASSUME NEW c \in Commits, BranchTypeOK, Known(c), deployed # c, [BranchNext]_branchVars
  PROVE  Known(c)'
<1> USE DEF Known, BranchTypeOK, record, bounds
<1>0. c # None
  BY BranchConstantsAssumption
<1>1. CASE BeginCheck
  BY <1>1 DEF BeginCheck
<1>2. CASE Issue
  BY <1>2 DEF Issue, Deferred
<1>12. CASE IssueTake
  BY <1>12 DEF IssueTake
<1>3. CASE Record
  BY <1>3 DEF Record
<1>4. CASE Fetch
  BY <1>4 DEF Fetch, AfterFetch, Answers
<1>5. CASE Unavailable
  BY <1>5 DEF Unavailable
<1>6. ASSUME NEW d \in Commits, Push(d)
      PROVE  Known(c)'
  BY <1>6 DEF Push
<1>7. CASE ManualDeploy \/ (\E d \in Commit : ManualTake(d)) \/ (\E d \in Commits : OvertakenEnds(d))
  BY <1>7 DEF ManualDeploy, ManualTake, OvertakenEnds
<1>8. CASE DeployLands \/ DeployEnds
  BY <1>8 DEF DeployLands, DeployEnds
<1>9. CASE Fail
  BY <1>9 DEF Fail
<1>10. CASE Enable
  BY <1>10, <1>0 DEF Enable
<1>11. CASE UNCHANGED branchVars
  BY <1>11 DEF branchVars
<1> QED BY <1>1, <1>2, <1>3, <1>4, <1>5, <1>6, <1>7, <1>8, <1>9, <1>10, <1>11, <1>12
        DEF BranchNext, CheckStep

\* A check that GitHub tells of head c issues a deploy of it, or one was queued.
Heeds(c) == Fetch /\ head = c => pc' = "issue" \/ c \in queued

\* The safety half of HeadIsDeployed: as long as a commit is not deployed, no
\* check that is told that it is the head passes over it before a deploy of it
\* was queued, whatever was pushed, enabled, deferred, deployed by others or
\* lost in a crash before.
THEOREM NoHeadPassedOver ==
  ASSUME NEW c \in Commits
  PROVE  BranchSpec /\ [](deployed # c) => [][Heeds(c)]_branchVars
<1>1. BranchInit => BranchTypeOK /\ Known(c)
  <2>1. c # None
    BY BranchConstantsAssumption
  <2> QED BY <2>1, InitBranchTyped DEF BranchInit, Known
<1>2. BranchTypeOK /\ Known(c) /\ deployed # c /\ [BranchNext]_branchVars
          => (BranchTypeOK /\ Known(c))'
  BY NextBranchTyped, NextKnown
<1>3. BranchTypeOK /\ Known(c) /\ [BranchNext]_branchVars => [Heeds(c)]_branchVars
  BY DEF Known, Heeds, Fetch, AfterFetch, Answers
<1> QED BY <1>1, <1>2, <1>3, PTL DEF BranchSpec
=============================================================================
