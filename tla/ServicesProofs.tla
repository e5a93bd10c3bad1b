---------------------------- MODULE ServicesProofs ----------------------------
(* Proofs about the services behind the platform's routes that hold rows,    *)
(* files and containers: databases, log streams, the updater, projects and   *)
(* backups.  They do not share state; each part proves the inductive         *)
(* invariant of its module and then what it promises, for any number of      *)
(* calls and any bounds.                                                     *)
EXTENDS ManagedDatabases, LogStream, SelfUpdate, Projects, Backups,
        FiniteSetTheorems, SequenceTheorems, WellFoundedInduction, TLAPS

\* Numbers are well-founded: a set of them has a smallest one.
Less == {p \in Nat \X Nat : p[1] < p[2]}

LEMMA Smallest ==
  ASSUME NEW T \in SUBSET Nat, T # {}
  PROVE  \E x \in T : \A y \in T : x <= y
<1>1. IsWellFoundedOn(Less, Nat)
  BY NatLessThanWellFounded DEF OpToRel, Less
<1>2. PICK x \in T : \A y \in T : <<y, x>> \notin Less
  BY <1>1, WFMin
<1>3. ASSUME NEW y \in T PROVE x <= y
  <2>1. x \in Nat /\ y \in Nat /\ <<y, x>> \notin Less
    BY <1>2
  <2> QED BY <2>1 DEF Less
<1> QED BY <1>3

-----------------------------------------------------------------------------
(* ManagedDatabases *)

DbKind == DbKinds \cup {"none"}
DbStepName == {"new", "network", "inspect", "up", "volume", "run", "down", "rm", "data", "gone",
               "drop", "ok", "broken", "stopped", "done"}

\* The steps of a call that starts a container, and of one that removes it.
StartSteps  == {"network", "inspect", "up", "volume", "run", "ok", "broken"}
DeleteSteps == {"rm", "data", "gone", "drop"}

\* What a call does is what it was asked for.
StepsFit ==
    \A c \in DbCalls :
        /\ dbCall[c].pc \in StartSteps => dbCall[c].kind \in {"create", "start"}
        /\ dbCall[c].pc \in DeleteSteps => dbCall[c].kind \in {"delete", "wipe"}
        /\ dbCall[c].pc = "data" => dbCall[c].kind = "wipe"
        /\ dbCall[c].pc = "new" <=> dbCall[c].kind = "none"
        /\ dbCall[c].kind = "wipe" => wiped

\* There was no call and no row before the creation, and there is only one.
CreatedOnce ==
    (Present \/ \E c \in DbCalls : dbCall[c].pc # "new")
        => \E c \in DbCalls : dbCall[c].kind = "create"

\* A deletion that has seen the container gone, or was not answered, and a
\* start: one of them is too late.
NoSurprise ==
    /\ \A d \in DbCalls : DbAt(d, "drop") => container = "none" \/ stale \/ unanswered
    /\ \A c, d \in DbCalls : dbCall[c].pc \in StartSteps /\ DbAt(d, "drop") => stale
    /\ \A c \in DbCalls : dbCall[c].pc \in StartSteps => Present \/ stale
    /\ container # "none" => Present \/ stale \/ unanswered

\* A row that says running, or is about to, without a container: a deletion
\* has removed it.
Removing == \E d \in DbCalls : dbCall[d].pc \in {"data", "gone", "drop"}

Missing ==
    container = "none" /\ Present /\ (dbRow = "running" \/ \E c \in DbCalls : DbAt(c, "ok"))
        => Removing

\* What runs, or is about to be called running, has its volume.
HasVolume ==
    ~wiped /\ (container # "none" \/ dbRow = "running" \/ \E c \in DbCalls : DbAt(c, "ok"))
        => volume # 0

DbInv == DbTypeOK /\ StepsFit /\ CreatedOnce /\ NoSurprise /\ Missing /\ HasVolume

LEMMA DbInitInv == DbInit => DbInv
<1> SUFFICES ASSUME DbInit PROVE DbInv
  OBVIOUS
<1>1. \A c \in DbCalls : dbCall[c].kind = "none" /\ dbCall[c].pc = "new"
  BY DEF DbInit
<1>2. Cardinality(DbCalls) \in Nat
  BY DatabasesAssumption, FS_CardinalityType DEF DatabasesAssumption
<1>a. dbCall \in [DbCalls -> [kind : DbKind, pc : DbStepName]]
  BY DEF DbInit, DbKind, DbStepName
<1>b. volume \in 0..Cardinality(DbCalls)
  BY <1>2 DEF DbInit
<1>3. DbTypeOK
  BY <1>a, <1>b DEF DbInit, DbTypeOK, DbKind, DbStepName
<1>4. StepsFit
  BY <1>1 DEF StepsFit, StartSteps, DeleteSteps
<1>5. CreatedOnce
  BY <1>1 DEF DbInit, CreatedOnce, Present
<1>6. NoSurprise
  BY <1>1 DEF DbInit, NoSurprise, DbAt, StartSteps
<1>7. Missing /\ HasVolume
  BY <1>1 DEF DbInit, Missing, HasVolume, Present, DbAt
<1> QED BY <1>3, <1>4, <1>5, <1>6, <1>7 DEF DbInv

\* What DbGoto does.
LEMMA Went ==
  ASSUME DbTypeOK, NEW c \in DbCalls, NEW pc \in DbStepName, DbGoto(c, pc)
  PROVE  /\ dbCall' \in [DbCalls -> [kind : DbKind, pc : DbStepName]]
         /\ dbCall'[c].pc = pc /\ dbCall'[c].kind = dbCall[c].kind
         /\ \A d \in DbCalls \ {c} : dbCall'[d] = dbCall[d]
  BY DEF DbTypeOK, DbGoto, DbKind, DbStepName

\* A volume that is created is a new one unless it was there.
LEMMA NewVolume ==
  ASSUME DbTypeOK, NEW c \in DbCalls, dbCall[c].kind # "wipe"
  PROVE  WithVolume(c) \in 1..Cardinality(DbCalls)
<1> DEFINE W == {d \in DbCalls : dbCall[d].kind = "wipe"}
<1>1. IsFiniteSet(DbCalls) /\ Cardinality(DbCalls) \in Nat
  BY DatabasesAssumption, FS_CardinalityType DEF DatabasesAssumption
<1>2. IsFiniteSet(DbCalls \ {c}) /\ Cardinality(DbCalls \ {c}) = Cardinality(DbCalls) - 1
  BY <1>1, FS_RemoveElement
<1>3. W \in SUBSET (DbCalls \ {c})
  OBVIOUS
<1>4. Cardinality(W) \in Nat /\ Cardinality(W) <= Cardinality(DbCalls \ {c})
  BY <1>2, <1>3, FS_Subset, FS_CardinalityType
<1>5. WithVolume(c) = IF volume # 0 THEN volume ELSE 1 + Cardinality(W)
  BY DEF WithVolume
<1>6. volume \in 0..Cardinality(DbCalls)
  BY DEF DbTypeOK
<1> HIDE DEF W
<1> QED BY <1>1, <1>2, <1>4, <1>5, <1>6

\* Every step leaves each call what it is.
LEMMA DbTypesNext ==
  ASSUME DbInv, NEW c \in DbCalls, DbStep(c)
  PROVE  /\ DbTypeOK'
         /\ \A d \in DbCalls : dbCall'[d].kind = dbCall[d].kind
         /\ \A d \in DbCalls \ {c} : dbCall'[d] = dbCall[d]
         /\ wiped' = wiped
         /\ dbCall[c].pc \in DbStepName \ {"new", "done"}
<1>1. /\ DbTypeOK
      /\ dbCall[c].pc = "volume" \/ dbCall[c].pc = "run" => WithVolume(c) \in 1..Cardinality(DbCalls)
      /\ Cardinality(DbCalls) \in Nat
  BY NewVolume, DatabasesAssumption, FS_CardinalityType
     DEF DatabasesAssumption, DbInv, StepsFit, StartSteps
<1>2. PICK pc \in DbStepName : DbGoto(c, pc)
  BY DEF DbStep, EnsureNetwork, InspectContainer, DockerStart, VolumeCreate, DockerRun, DockerStop,
         WriteDbStatus, DockerRemove, VolumeRemove, InspectGone, DropRow, NextStart, AfterRemove,
         DbStepName
<1>3. /\ dbCall' \in [DbCalls -> [kind : DbKind, pc : DbStepName]]
      /\ \A d \in DbCalls : dbCall'[d].kind = dbCall[d].kind
      /\ \A d \in DbCalls \ {c} : dbCall'[d] = dbCall[d]
  BY <1>1, <1>2, Went
<1>4. /\ dbRow' \in {"absent", "stopped", "running", "error"}
      /\ container' \in {"none", "stopped", "running"}
      /\ dbCall[c].pc \in DbStepName \ {"new", "done"}
  BY <1>1 DEF DbStep, EnsureNetwork, InspectContainer, DockerStart, VolumeCreate, DockerRun, DockerStop,
         WriteDbStatus, DockerRemove, VolumeRemove, InspectGone, DropRow, DbAt, StatusOf, DbTypeOK,
         DbStepName
<1>5. volume' \in 0..Cardinality(DbCalls)
  BY <1>1 DEF DbStep, EnsureNetwork, InspectContainer, DockerStart, VolumeCreate, DockerRun, DockerStop,
         WriteDbStatus, DockerRemove, VolumeRemove, InspectGone, DropRow, DbAt, DbTypeOK
<1>6. wiped' = wiped /\ (UNCHANGED <<stale, unanswered>> \/ InspectGone(c))
  BY DEF DbStep, EnsureNetwork, InspectContainer, DockerStart, VolumeCreate, DockerRun, DockerStop,
         WriteDbStatus, DockerRemove, VolumeRemove, InspectGone, DropRow
<1>7. /\ stale \in BOOLEAN /\ unanswered \in BOOLEAN
      /\ InspectGone(c) => stale' \in BOOLEAN /\ unanswered' \in BOOLEAN
  BY <1>1, Zenon DEF InspectGone, DbTypeOK
<1>8. stale' \in BOOLEAN /\ wiped' \in BOOLEAN /\ unanswered' \in BOOLEAN
  BY <1>1, <1>6, <1>7 DEF DbTypeOK
<1> QED BY <1>3, <1>4, <1>5, <1>6, <1>8 DEF DbTypeOK, DbKind, DbStepName

\* A step of the call c keeps row, container and volume matching.
LEMMA DbStepInv ==
  ASSUME DbInv, NEW c \in DbCalls, DbStep(c)
  PROVE  DbInv'
<1>1. /\ \A d \in DbCalls : dbCall'[d].kind = dbCall[d].kind
      /\ \A d \in DbCalls \ {c} : dbCall'[d] = dbCall[d]
      /\ wiped' = wiped
      /\ dbCall[c].pc \in DbStepName \ {"new", "done"}
      /\ DbTypeOK'
  BY DbTypesNext
<1>2. DbTypeOK /\ StepsFit /\ CreatedOnce /\ NoSurprise /\ Missing /\ HasVolume
  BY DEF DbInv
<1>3. \A pc \in DbStepName : DbGoto(c, pc) => dbCall'[c].pc = pc
  BY <1>2, Went
<1>4. CreatedOnce'
  <2>1. \E d \in DbCalls : dbCall[d].kind = "create"
    BY <1>1, <1>2 DEF CreatedOnce
  <2> QED BY <1>1, <2>1 DEF CreatedOnce
<1>5. CASE EnsureNetwork(c)
  <2>1. UNCHANGED <<dbRow, container, volume, stale, unanswered>> /\ dbCall[c].pc = "network"
        /\ dbCall'[c].pc \in {"inspect", "done"}
    BY <1>3, <1>5 DEF EnsureNetwork, DbAt, DbStepName
  <2>2. StepsFit'
    BY <1>1, <1>2, <2>1 DEF StepsFit, StartSteps, DeleteSteps
  <2>3. NoSurprise'
    BY <1>1, <1>2, <2>1 DEF NoSurprise, StartSteps, DbAt, Present
  <2>4. Missing'
    BY <1>1, <1>2, <2>1 DEF Missing, Removing, DbAt, Present
  <2>5. HasVolume'
    BY <1>1, <1>2, <2>1 DEF HasVolume, StepsFit, DbAt
  <2> QED BY <1>1, <1>4, <2>2, <2>3, <2>4, <2>5 DEF DbInv
<1>6. CASE InspectContainer(c)
  <2>1. UNCHANGED <<dbRow, container, volume, stale, unanswered>> /\ dbCall[c].pc = "inspect"
        /\ dbCall'[c].pc \in {"up", "volume"}
    BY <1>3, <1>6 DEF InspectContainer, DbAt, DbStepName, NextStart
  <2>2. StepsFit'
    BY <1>1, <1>2, <2>1 DEF StepsFit, StartSteps, DeleteSteps
  <2>3. NoSurprise'
    BY <1>1, <1>2, <2>1 DEF NoSurprise, StartSteps, DbAt, Present
  <2>4. Missing'
    BY <1>1, <1>2, <2>1 DEF Missing, Removing, DbAt, Present
  <2>5. HasVolume'
    BY <1>1, <1>2, <2>1 DEF HasVolume, StepsFit, DbAt
  <2> QED BY <1>1, <1>4, <2>2, <2>3, <2>4, <2>5 DEF DbInv
<1>7. CASE DockerStart(c)
  <2>1. UNCHANGED <<dbRow, volume, stale, unanswered>> /\ dbCall[c].pc = "up"
        /\ \/ container # "none" /\ container' = "running" /\ dbCall'[c].pc \in {"ok", "broken"}
           \/ container' = container /\ dbCall'[c].pc = "broken"
    BY <1>3, <1>7 DEF DockerStart, DbAt, DbStepName
  <2>2. StepsFit'
    BY <1>1, <1>2, <2>1 DEF StepsFit, StartSteps, DeleteSteps
  <2>3. NoSurprise'
    BY <1>1, <1>2, <2>1 DEF NoSurprise, StartSteps, DbAt, Present
  <2>4. Missing'
    BY <1>1, <1>2, <2>1 DEF Missing, Removing, DbAt, Present
  <2>5. HasVolume'
    BY <1>1, <1>2, <2>1 DEF HasVolume, StepsFit, DbAt
  <2> QED BY <1>1, <1>4, <2>2, <2>3, <2>4, <2>5 DEF DbInv
<1>8. CASE VolumeCreate(c)
  <2>v. WithVolume(c) # 0
    BY <1>1, <1>2, <1>8, NewVolume DEF StepsFit, StartSteps, DbAt, VolumeCreate
  <2>1. UNCHANGED <<dbRow, container, stale, unanswered>> /\ dbCall[c].pc = "volume"
        /\ dbCall'[c].pc = "run" /\ (volume' = volume \/ volume' # 0)
    BY <1>3, <2>v, <1>8 DEF VolumeCreate, DbAt, DbStepName
  <2>2. StepsFit'
    BY <1>1, <1>2, <2>1 DEF StepsFit, StartSteps, DeleteSteps
  <2>3. NoSurprise'
    BY <1>1, <1>2, <2>1 DEF NoSurprise, StartSteps, DbAt, Present
  <2>4. Missing'
    BY <1>1, <1>2, <2>1 DEF Missing, Removing, DbAt, Present
  <2>5. HasVolume'
    BY <1>1, <1>2, <2>1 DEF HasVolume, StepsFit, DbAt
  <2> QED BY <1>1, <1>4, <2>2, <2>3, <2>4, <2>5 DEF DbInv
<1>9. CASE DockerRun(c)
  <2>v. WithVolume(c) # 0
    BY <1>1, <1>2, <1>9, NewVolume DEF StepsFit, StartSteps, DbAt, DockerRun
  <2>1. UNCHANGED <<dbRow, stale, unanswered>> /\ dbCall[c].pc = "run"
        /\ \/ /\ container = "none" /\ container' # "none" /\ volume' # 0
              /\ dbCall'[c].pc \in {"ok", "broken"}
           \/ UNCHANGED <<container, volume>> /\ dbCall'[c].pc = "broken"
    BY <1>3, <2>v, <1>9 DEF DockerRun, DbAt, DbStepName
  <2>2. StepsFit'
    BY <1>1, <1>2, <2>1 DEF StepsFit, StartSteps, DeleteSteps
  <2>3. NoSurprise'
    BY <1>1, <1>2, <2>1 DEF NoSurprise, StartSteps, DbAt, Present
  <2>4. Missing'
    BY <1>1, <1>2, <2>1 DEF Missing, Removing, DbAt, Present
  <2>5. HasVolume'
    BY <1>1, <1>2, <2>1 DEF HasVolume, StepsFit, DbAt
  <2> QED BY <1>1, <1>4, <2>2, <2>3, <2>4, <2>5 DEF DbInv
<1>10. CASE DockerStop(c)
  <2>1. UNCHANGED <<dbRow, volume, stale, unanswered>> /\ dbCall[c].pc = "down"
        /\ \/ container' = container /\ dbCall'[c].pc = "done"
           \/ container # "none" /\ container' # "none" /\ dbCall'[c].pc \in {"stopped", "done"}
    BY <1>3, <1>10 DEF DockerStop, DbAt, DbStepName
  <2>2. StepsFit'
    BY <1>1, <1>2, <2>1 DEF StepsFit, StartSteps, DeleteSteps
  <2>3. NoSurprise'
    BY <1>1, <1>2, <2>1 DEF NoSurprise, StartSteps, DbAt, Present
  <2>4. Missing'
    BY <1>1, <1>2, <2>1 DEF Missing, Removing, DbAt, Present
  <2>5. HasVolume'
    BY <1>1, <1>2, <2>1 DEF HasVolume, StepsFit, DbAt
  <2> QED BY <1>1, <1>4, <2>2, <2>3, <2>4, <2>5 DEF DbInv
<1>11. CASE WriteDbStatus(c)
  <2>1. /\ UNCHANGED <<container, volume, stale, unanswered>>
        /\ dbCall[c].pc \in {"ok", "broken", "stopped"}
        /\ dbCall'[c].pc = "done"
        /\ dbRow' = "absent" <=> dbRow = "absent"
        /\ dbRow' = "running" => dbRow = "running" \/ dbCall[c].pc = "ok"
    BY <1>3, <1>11 DEF WriteDbStatus, DbAt, DbStepName, StatusOf, Present
  <2>2. StepsFit'
    BY <1>1, <1>2, <2>1 DEF StepsFit, StartSteps, DeleteSteps
  <2>3. NoSurprise'
    BY <1>1, <1>2, <2>1 DEF NoSurprise, StartSteps, DbAt, Present
  <2>4. Missing'
    BY <1>1, <1>2, <2>1 DEF Missing, Removing, DbAt, Present
  <2>5. HasVolume'
    BY <1>1, <1>2, <2>1 DEF HasVolume, StepsFit, DbAt
  <2> QED BY <1>1, <1>4, <2>2, <2>3, <2>4, <2>5 DEF DbInv
<1>12. CASE DockerRemove(c)
  <2>1. /\ UNCHANGED <<dbRow, volume, stale, unanswered>> /\ dbCall[c].pc = "rm"
        /\ container' \in {"none", container}
        /\ dbCall'[c].pc = AfterRemove(dbCall[c].kind)
    BY <1>3, <1>12 DEF DockerRemove, DbAt, DbStepName, AfterRemove
  <2>2. StepsFit'
    BY <1>1, <1>2, <2>1 DEF StepsFit, StartSteps, DeleteSteps, AfterRemove
  <2>3. NoSurprise'
    BY <1>1, <1>2, <2>1 DEF NoSurprise, StartSteps, DbAt, Present, AfterRemove
  <2>4. Missing'
    BY <1>1, <1>2, <2>1 DEF Missing, Removing, DbAt, Present, AfterRemove
  <2>5. HasVolume'
    BY <1>1, <1>2, <2>1 DEF HasVolume, StepsFit, DbAt, AfterRemove
  <2> QED BY <1>1, <1>4, <2>2, <2>3, <2>4, <2>5 DEF DbInv
<1>13. CASE VolumeRemove(c)
  <2>1. UNCHANGED <<dbRow, container, stale, unanswered>> /\ dbCall[c].pc = "data"
        /\ dbCall'[c].pc = "gone"
    BY <1>3, <1>13 DEF VolumeRemove, DbAt, DbStepName
  <2>2. StepsFit'
    BY <1>1, <1>2, <2>1 DEF StepsFit, StartSteps, DeleteSteps
  <2>3. NoSurprise'
    BY <1>1, <1>2, <2>1 DEF NoSurprise, StartSteps, DbAt, Present
  <2>4. Missing'
    BY <1>1, <1>2, <2>1 DEF Missing, Removing, DbAt, Present
  <2>5. HasVolume'
    BY <1>1, <1>2, <2>1 DEF HasVolume, StepsFit, DbAt
  <2> QED BY <1>1, <1>4, <2>2, <2>3, <2>4, <2>5 DEF DbInv
<1>14. CASE InspectGone(c)
  <2>1. /\ UNCHANGED <<dbRow, container, volume>> /\ dbCall[c].pc = "gone"
        /\ dbCall'[c].pc \in {"drop", "done"}
        /\ container = "none" => dbCall'[c].pc = "drop"
    BY <1>3, <1>14 DEF InspectGone, DbAt, DbStepName, Gone
  <2>d. stale' = (stale \/ (dbCall'[c].pc = "drop" /\ Starting # {}))
    BY <1>14, Zenon DEF InspectGone, DbAt
  <2>a. unanswered => unanswered'
    BY <1>14, Zenon DEF InspectGone
  <2>n. dbCall'[c].pc = "drop" => container = "none" \/ unanswered'
    <3>1. CASE DbGoto(c, IF Gone THEN "drop" ELSE "done")
      BY <1>3, <3>1 DEF Gone, DbStepName
    <3>2. CASE unanswered' = (unanswered \/ container # "none")
      BY <3>2, Zenon
    <3> QED BY <1>14, <3>1, <3>2 DEF InspectGone
  <2>2. StepsFit'
    BY <1>1, <1>2, <2>1 DEF StepsFit, StartSteps, DeleteSteps
  <2>s. \A d \in DbCalls : dbCall[d].pc \in StartSteps => d \in Starting
    BY <1>2 DEF StepsFit, Starting, Working, StartSteps
  <2>u. /\ stale => stale'
        /\ dbCall'[c].pc = "drop" /\ Starting # {} => stale'
    BY <2>d, Zenon
  <2>3. NoSurprise'
    BY <1>1, <1>2, <2>1, <2>s, <2>u, <2>a, <2>n DEF NoSurprise, StartSteps, DbAt, Present
  <2>4. Missing'
    BY <1>1, <1>2, <2>1 DEF Missing, Removing, DbAt, Present
  <2>5. HasVolume'
    BY <1>1, <1>2, <2>1 DEF HasVolume, StepsFit, DbAt
  <2> QED BY <1>1, <1>4, <2>2, <2>3, <2>4, <2>5 DEF DbInv
<1>15. CASE DropRow(c)
  <2>1. UNCHANGED <<container, volume, stale, unanswered>> /\ dbCall[c].pc = "drop"
        /\ dbRow' = "absent" /\ dbCall'[c].pc = "done"
    BY <1>3, <1>15 DEF DropRow, DbAt, DbStepName
  <2>2. StepsFit'
    BY <1>1, <1>2, <2>1 DEF StepsFit, StartSteps, DeleteSteps
  <2>3. NoSurprise'
    BY <1>1, <1>2, <2>1 DEF NoSurprise, StartSteps, DbAt, Present
  <2>4. Missing'
    BY <1>1, <1>2, <2>1 DEF Missing, Removing, DbAt, Present
  <2>5. HasVolume'
    BY <1>1, <1>2, <2>1 DEF HasVolume, StepsFit, DbAt
  <2> QED BY <1>1, <1>4, <2>2, <2>3, <2>4, <2>5 DEF DbInv
<1> QED BY <1>5, <1>6, <1>7, <1>8, <1>9, <1>10, <1>11, <1>12, <1>13, <1>14, <1>15 DEF DbStep

\* A call begins: it creates the row, or finds it.
LEMMA DbBeginInv ==
  ASSUME DbInv, NEW c \in DbCalls, NEW kind \in DbKinds, BeginDb(c, kind)
  PROVE  DbInv'
<1>1. DbTypeOK /\ StepsFit /\ CreatedOnce /\ NoSurprise /\ Missing /\ HasVolume
  BY DEF DbInv
<1>2. kind \in {"create", "start", "stop", "delete", "wipe"}
  BY DatabasesAssumption DEF DatabasesAssumption
<1>3. FirstStep[kind] \in {"network", "down", "rm"}
      /\ (FirstStep[kind] = "network" <=> kind \in {"create", "start"})
      /\ (FirstStep[kind] = "rm" <=> kind \in {"delete", "wipe"})
  BY <1>2 DEF FirstStep
<1>4. dbCall' = [dbCall EXCEPT ![c] = [kind |-> kind, pc |-> FirstStep[kind]]]
  BY DEF BeginDb
<1>5. /\ dbCall' \in [DbCalls -> [kind : DbKind, pc : DbStepName]]
      /\ dbCall'[c].kind = kind /\ dbCall'[c].pc = FirstStep[kind]
      /\ \A d \in DbCalls \ {c} : dbCall'[d] = dbCall[d]
  BY <1>1, <1>3, <1>4 DEF DbTypeOK, DbKind, DbStepName
<1>6. /\ UNCHANGED <<container, volume, unanswered>> /\ dbCall[c].pc = "new"
      /\ kind = "create" <=> dbRow = "absent"
      /\ kind = "create" => \A d \in DbCalls : dbCall[d].kind # "create"
      /\ dbRow' = IF kind = "create" THEN "stopped" ELSE dbRow
  BY DEF BeginDb, Present, DbAt
<1>7. /\ wiped => wiped'
      /\ kind = "wipe" => wiped'
      /\ stale => stale'
      /\ kind = "start" /\ (\E d \in DbCalls : DbAt(d, "drop")) => stale'
  BY Zenon DEF BeginDb
<1>8. stale' \in BOOLEAN /\ wiped' \in BOOLEAN
  BY <1>1, Zenon DEF BeginDb, DbTypeOK
<1>9. DbTypeOK'
  BY <1>1, <1>5, <1>6, <1>8 DEF DbTypeOK, DbKind, DbStepName
<1>10. StepsFit'
  BY <1>1, <1>2, <1>3, <1>5, <1>6, <1>7 DEF StepsFit, StartSteps, DeleteSteps
<1>11. kind = "create" => \A d \in DbCalls : dbCall[d].pc = "new"
  BY <1>1, <1>6 DEF CreatedOnce
<1>12. CreatedOnce'
  <2>1. CASE kind = "create"
    BY <1>5, <2>1 DEF CreatedOnce
  <2>2. CASE kind # "create"
    <3>1. PICK d \in DbCalls : dbCall[d].kind = "create"
      BY <1>1, <1>6, <2>2 DEF CreatedOnce, Present
    <3>2. d # c
      BY <1>1, <1>6, <3>1 DEF StepsFit
    <3> QED BY <1>5, <3>1, <3>2 DEF CreatedOnce
  <2> QED BY <2>1, <2>2
<1>13. NoSurprise'
  <2>1. Present'
    BY <1>6 DEF Present
  <2>2. \A d \in DbCalls : DbAt(d, "drop")' => DbAt(d, "drop") /\ d # c
    BY <1>3, <1>5 DEF DbAt
  <2>3. \A d \in DbCalls : DbAt(d, "drop")' => container' = "none" \/ stale' \/ unanswered'
    BY <1>1, <1>6, <1>7, <2>2 DEF NoSurprise
  <2>4. ASSUME NEW b \in DbCalls, NEW d \in DbCalls, dbCall'[b].pc \in StartSteps, DbAt(d, "drop")'
        PROVE  stale'
    <3>1. CASE b = c
      <4>1. kind \in {"create", "start"}
        BY <1>2, <1>3, <1>5, <2>4, <3>1 DEF StartSteps
      <4>2. kind # "create"
        BY <1>11, <2>2, <2>4 DEF DbAt
      <4> QED BY <1>7, <2>2, <2>4, <4>1, <4>2
    <3>2. CASE b # c
      BY <1>1, <1>5, <1>7, <2>2, <2>4, <3>2 DEF NoSurprise
    <3> QED BY <3>1, <3>2
  <2> QED BY <2>1, <2>3, <2>4 DEF NoSurprise
<1>14. Missing'
  <2>1. Removing => Removing'
    BY <1>5, <1>6 DEF Removing
  <2>2. \A d \in DbCalls : DbAt(d, "ok")' => DbAt(d, "ok") /\ kind # "create"
    BY <1>3, <1>5, <1>11 DEF DbAt
  <2> QED BY <1>1, <1>6, <2>1, <2>2 DEF Missing, Present
<1>15. HasVolume'
  <2>1. \A d \in DbCalls : DbAt(d, "ok")' => DbAt(d, "ok")
    BY <1>3, <1>5 DEF DbAt
  <2> QED BY <1>1, <1>6, <1>7, <2>1 DEF HasVolume
<1> QED BY <1>9, <1>10, <1>12, <1>13, <1>14, <1>15 DEF DbInv

LEMMA DbNextInv == DbInv /\ [DbNext]_dbVars => DbInv'
<1> SUFFICES ASSUME DbInv, [DbNext]_dbVars PROVE DbInv'
  OBVIOUS
<1>1. CASE UNCHANGED dbVars
  BY <1>1 DEF dbVars, DbInv, DbTypeOK, StepsFit, CreatedOnce, NoSurprise, Missing, Removing, HasVolume,
              Present, DbAt
<1> QED BY <1>1, DbStepInv, DbBeginInv DEF DbNext, DbQuiet

\* Whatever calls overlap, fail and interleave, row, container and volume of a
\* database match: no container without a row unless a start met a deletion or
\* docker did not answer whether the container was gone, no row that says running without a container once nobody works on it, and
\* no container without its data unless its volume was to be deleted.
THEOREM DatabaseMatches == DbSpec => [](DbTypeOK /\ ContainerMatchesRow)
<1>1. ASSUME DbInv PROVE NoOrphanContainer
  BY <1>1 DEF DbInv, NoSurprise, NoOrphanContainer
<1>2. ASSUME DbInv PROVE RunningHasContainer
  <2>1. Removing => Working # {}
    BY DEF Removing, Working
  <2> QED BY <1>2, <2>1 DEF DbInv, Missing, RunningHasContainer, Present
<1>3. ASSUME DbInv PROVE DataKept
  BY <1>3 DEF DbInv, HasVolume, DataKept
<1>4. DbInv => DbTypeOK /\ ContainerMatchesRow
  BY <1>1, <1>2, <1>3 DEF DbInv, ContainerMatchesRow
<1> QED BY <1>4, DbInitInv, DbNextInv, PTL DEF DbSpec

-----------------------------------------------------------------------------
(* LogStream *)

\* The halves of the first generation.
First(from, to) == {0} \X (from + 1 .. to)

\* Nothing was tailed yet, nor will anything be.
Untailed == logBase.gen = 0 /\ logBase.size = 0 /\ logReader.offset = 0 /\ \A h \in Halves : logTail[h] = 0

\* What the tail has sent, as long as the file is only appended to.
TailSent ==
    /\ logBase.size <= logReader.offset /\ logReader.offset <= logFile.size
    /\ \A h \in Halves : logTail[h] = IF h \in First(logBase.size, logReader.offset) THEN 1 ELSE 0

\* TailExact is not inductive by itself: the snapshot must lie before the
\* place where tailing began, not only before the offset.
LogInv ==
    /\ LogTypeOK
    /\ logFile.gen = 0 =>
          /\ logReader.pc \in {"snapshot", "stat"} => Untailed
          /\ logReader.pc = "snapshot" => logSnapshot = {}
          /\ logReader.pc = "stat" => \A h \in logSnapshot : h[1] = 0 /\ h[2] <= logFile.size
          /\ logReader.pc \in {"poll", "size", "read"} =>
                TailSent /\ \A h \in logSnapshot : h[2] <= logBase.size
          /\ logReader.pc = "ended" =>
                TailSent /\ logSnapshot \cap First(logBase.size, logReader.offset) = {}

LEMMA LogInitInv == LogInit => LogInv
<1> SUFFICES ASSUME LogInit PROVE LogInv
  OBVIOUS
<1>1. LogTypeOK
  BY LogStreamAssumption DEF LogStreamAssumption, LogInit, LogTypeOK, Halves, Sizes
<1> QED BY <1>1 DEF LogInit, LogInv, Untailed, Halves

\* Offsets and sizes are numbers.
LEMMA LogNumbers ==
  ASSUME LogTypeOK
  PROVE  /\ LogHalves \in Nat /\ LogCuts \in Nat /\ LogRounds \in Nat
         /\ logFile.gen \in 0..LogCuts /\ logFile.size \in 0..LogHalves
         /\ logFile = [gen |-> logFile.gen, size |-> logFile.size]
         /\ logReader.offset \in 0..LogHalves /\ logReader.found \in 0..LogHalves
         /\ logReader.round \in 0..LogRounds
         /\ logReader.pc \in {"snapshot", "stat", "poll", "size", "read", "ended"}
         /\ logBase.gen \in 0..LogCuts /\ logBase.size \in 0..LogHalves
  BY LogStreamAssumption DEF LogStreamAssumption, LogTypeOK, Sizes

LEMMA LogNextInv == LogInv /\ [LogNext]_logVars => LogInv'
<1> SUFFICES ASSUME LogInv, [LogNext]_logVars PROVE LogInv'
  OBVIOUS
<1>n. /\ LogHalves \in Nat /\ LogCuts \in Nat /\ LogRounds \in Nat
      /\ logFile.gen \in 0..LogCuts /\ logFile.size \in 0..LogHalves
      /\ logFile = [gen |-> logFile.gen, size |-> logFile.size]
      /\ logReader.offset \in 0..LogHalves /\ logReader.found \in 0..LogHalves
      /\ logReader.round \in 0..LogRounds
      /\ logReader.pc \in {"snapshot", "stat", "poll", "size", "read", "ended"}
      /\ logBase.gen \in 0..LogCuts /\ logBase.size \in 0..LogHalves
      /\ LogTypeOK
  BY LogNumbers DEF LogInv
<1>r. logReader = [pc |-> logReader.pc, offset |-> logReader.offset, round |-> logReader.round,
                   found |-> logReader.found]
  BY DEF LogInv, LogTypeOK
<1>1. CASE LogWrite
  <2>1. /\ logFile'.gen = logFile.gen /\ logFile'.size \in 0..LogHalves /\ logFile.size <= logFile'.size
        /\ logFile' \in [gen : 0..LogCuts, size : Sizes]
        /\ UNCHANGED <<logReader, logRequest, logSnapshot, logTail, logBase>>
    BY <1>1, <1>n DEF LogWrite, Sizes, LogTypeOK
  <2>2. LogTypeOK'
    BY <2>1, <1>n DEF LogTypeOK
  <2>3. \A h \in logSnapshot : h[2] <= logFile.size => h[2] <= logFile'.size
    BY <1>n, <2>1 DEF LogTypeOK, Halves
  <2>4. TailSent => TailSent'
    BY <1>n, <2>1 DEF TailSent
  <2>5. Untailed => Untailed'
    BY <2>1 DEF Untailed
  <2> QED BY <1>n, <2>1, <2>2, <2>3, <2>4, <2>5 DEF LogInv
<1>2. CASE LogCut
  <2>1. /\ logFile'.gen = logFile.gen + 1 /\ logFile' \in [gen : 0..LogCuts, size : Sizes]
        /\ UNCHANGED <<logReader, logRequest, logSnapshot, logTail, logBase>>
    BY <1>2, <1>n DEF LogCut, Sizes
  <2>2. LogTypeOK'
    BY <2>1, <1>n DEF LogTypeOK
  <2> QED BY <1>n, <2>1, <2>2 DEF LogInv
<1>3. CASE LogLeave
  <2>1. /\ logReader' = [pc |-> "ended", offset |-> logReader.offset, round |-> logReader.round,
                         found |-> logReader.found]
        /\ UNCHANGED <<logFile, logSnapshot, logTail, logBase>>
        /\ logRequest' \in [passed : BOOLEAN, there : BOOLEAN]
    BY <1>3, <1>n, <1>r DEF LogLeave, LogTypeOK
  <2>2. LogTypeOK' /\ logReader'.pc = "ended" /\ logReader'.offset = logReader.offset
    BY <2>1, <1>n DEF LogTypeOK, Sizes
  <2>3. CASE logReader.pc \in {"snapshot", "stat"}
    <3>1. \A h \in Halves : h \notin First(0, 0)
      BY DEF First
    <3>2. logSnapshot \cap First(0, 0) = {}
      BY DEF First
    <3> QED BY <1>n, <2>1, <2>2, <2>3, <3>1, <3>2 DEF LogInv, Untailed, TailSent
  <2>4. CASE logReader.pc \in {"poll", "size", "read"}
    <3>1. (\A h \in logSnapshot : h[2] <= logBase.size)
             => logSnapshot \cap First(logBase.size, logReader.offset) = {}
      BY <1>n DEF First
    <3> QED BY <1>n, <2>1, <2>2, <2>4, <3>1 DEF LogInv, TailSent
  <2>5. CASE logReader.pc = "ended"
    BY <1>n, <2>1, <2>2, <2>5 DEF LogInv, TailSent
  <2> QED BY <1>n, <2>3, <2>4, <2>5
<1>4. CASE LogSnapshot
  <2>1. /\ logReader' = [pc |-> "stat", offset |-> logReader.offset, round |-> logReader.round,
                         found |-> logReader.found]
        /\ logReader.pc = "snapshot"
        /\ UNCHANGED <<logFile, logRequest, logTail, logBase>>
    BY <1>4, <1>n, <1>r DEF LogSnapshot
  <2>2. logReader'.pc = "stat" /\ logReader'.offset = logReader.offset
    BY <2>1
  <2>3. PICK from \in 0..logFile.size : logSnapshot' = Piece(from, logFile.size)
    BY <1>4 DEF LogSnapshot
  <2>4. /\ logSnapshot' \subseteq Halves
        /\ \A h \in logSnapshot' : h[1] = logFile.gen /\ h[2] <= logFile.size
    BY <1>n, <2>3 DEF Piece, Halves
  <2>5. LogTypeOK'
    BY <2>1, <2>4, <1>n DEF LogTypeOK, Sizes
  <2> QED BY <1>n, <2>1, <2>2, <2>4, <2>5 DEF LogInv, Untailed
<1>5. CASE LogStat
  <2>1. /\ logReader' = [pc |-> "poll", offset |-> logFile.size, round |-> logReader.round,
                         found |-> logReader.found]
        /\ logReader.pc = "stat" /\ logBase' = logFile
        /\ UNCHANGED <<logFile, logRequest, logSnapshot, logTail>>
    BY <1>5, <1>n, <1>r DEF LogStat
  <2>2. logReader'.pc = "poll" /\ logReader'.offset = logFile.size
    BY <2>1
  <2>3. LogTypeOK'
    BY <2>1, <1>n DEF LogTypeOK, Sizes
  <2>4. \A h \in Halves : h \notin First(logFile.size, logFile.size)
    BY <1>n DEF First
  <2> QED BY <1>n, <2>1, <2>2, <2>3, <2>4 DEF LogInv, Untailed, TailSent
<1>6. CASE LogPoll
  <2>1. /\ \E pc \in {"ended", "size"}, round \in 0..LogRounds :
              logReader' = [pc |-> pc, offset |-> logReader.offset, round |-> round,
                            found |-> logReader.found]
        /\ logReader.pc = "poll"
        /\ UNCHANGED <<logFile, logRequest, logSnapshot, logTail, logBase>>
    <3> DEFINE pc == IF Disconnected \/ logReader.round = LogRounds THEN "ended" ELSE "size"
               round == IF logReader.round < LogRounds THEN logReader.round + 1 ELSE logReader.round
    <3>1. logReader' = [pc |-> pc, offset |-> logReader.offset, round |-> round,
                        found |-> logReader.found]
      BY <1>6, <1>r DEF LogPoll
    <3>2. pc \in {"ended", "size"} /\ round \in 0..LogRounds
      BY <1>n
    <3> HIDE DEF pc, round
    <3> QED BY <1>6, <3>1, <3>2 DEF LogPoll
  <2>2. logReader'.pc \in {"ended", "size"} /\ logReader'.offset = logReader.offset
    BY <2>1
  <2>3. LogTypeOK'
    BY <2>1, <1>n DEF LogTypeOK, Sizes
  <2>4. (\A h \in logSnapshot : h[2] <= logBase.size)
           => logSnapshot \cap First(logBase.size, logReader.offset) = {}
    BY <1>n DEF First
  <2> QED BY <1>n, <2>1, <2>2, <2>3, <2>4 DEF LogInv, TailSent
<1>7. CASE LogSize
  <2>1. /\ \E pc \in {"poll", "read"} :
              logReader' = [pc |-> pc, offset |-> StartOffset, round |-> logReader.round,
                            found |-> logFile.size]
        /\ logReader.pc = "size"
        /\ UNCHANGED <<logFile, logRequest, logSnapshot, logTail, logBase>>
    BY <1>7, <1>n, <1>r DEF LogSize
  <2>2. logReader'.pc \in {"poll", "read"} /\ logReader'.offset = StartOffset
    BY <2>1
  <2>3. StartOffset \in 0..LogHalves
    BY <1>n DEF StartOffset
  <2>4. LogTypeOK'
    BY <2>1, <2>3, <1>n DEF LogTypeOK, Sizes
  <2>5. logFile.gen = 0 => StartOffset = logReader.offset
    BY <1>n, <2>1 DEF StartOffset, LogInv, TailSent
  <2> QED BY <1>n, <2>1, <2>2, <2>4, <2>5 DEF LogInv, TailSent
<1>8. CASE LogRead
  <2> DEFINE new == Piece(logReader.offset, logFile.size)
  <2>1. /\ logReader' = [pc |-> "poll", offset |-> Tell, round |-> logReader.round,
                         found |-> logReader.found]
        /\ logReader.pc = "read"
        /\ logTail' = [h \in Halves |-> IF h \in new /\ logTail[h] < 2 THEN logTail[h] + 1
                                        ELSE logTail[h]]
        /\ UNCHANGED <<logFile, logRequest, logSnapshot, logBase>>
    BY <1>8, <1>n, <1>r DEF LogRead
  <2>2. logReader'.pc = "poll" /\ logReader'.offset = Tell
    BY <2>1
  <2>3. Tell \in 0..LogHalves
    BY <1>n DEF Tell
  <2>4. ASSUME logFile.gen = 0
        PROVE  /\ Tell = logFile.size /\ logBase.size <= logFile.size
               /\ \A h \in Halves :
                     logTail'[h] = IF h \in First(logBase.size, logFile.size) THEN 1 ELSE 0
    <3>1. TailSent
      BY <2>1, <2>4 DEF LogInv
    <3>2. new = First(logReader.offset, logFile.size)
      BY <2>4 DEF Piece, First
    <3>3. Tell = logFile.size /\ logBase.size <= logFile.size
      BY <1>n, <3>1 DEF Tell, TailSent
    <3>4. ASSUME NEW h \in Halves
          PROVE  logTail'[h] = IF h \in First(logBase.size, logFile.size) THEN 1 ELSE 0
      <4>1. h[2] \in Nat
        BY <1>n DEF Halves
      <4>2. /\ h \in First(logBase.size, logFile.size)
                 <=> h \in First(logBase.size, logReader.offset) \/ h \in new
            /\ ~(h \in First(logBase.size, logReader.offset) /\ h \in new)
        BY <1>n, <3>1, <3>2, <4>1 DEF First, TailSent, Halves
      <4>3. logTail[h] = IF h \in First(logBase.size, logReader.offset) THEN 1 ELSE 0
        BY <3>1 DEF TailSent
      <4>4. logTail'[h] = IF h \in new /\ logTail[h] < 2 THEN logTail[h] + 1 ELSE logTail[h]
        BY <2>1
      <4> HIDE DEF new
      <4> QED BY <4>2, <4>3, <4>4
    <3> QED BY <3>3, <3>4
  <2>5. \A h \in Halves : logTail'[h] \in 0..LogCuts + 1
    <3> SUFFICES ASSUME NEW h \in Halves PROVE logTail'[h] \in 0..LogCuts + 1
      OBVIOUS
    <3>1. CASE LogCuts = 0
      BY <1>n, <2>4, <3>1
    <3>2. CASE LogCuts # 0
      <4>1. logTail[h] \in 0..LogCuts + 1
        BY <1>n DEF LogTypeOK
      <4>2. logTail'[h] = logTail[h] \/ (logTail[h] < 2 /\ logTail'[h] = logTail[h] + 1)
        BY <2>1
      <4> QED BY <1>n, <3>2, <4>1, <4>2
    <3> QED BY <3>1, <3>2
  <2>6. logTail' \in [Halves -> 0..LogCuts + 1]
    BY <2>1, <2>5
  <2>7. LogTypeOK'
    BY <2>1, <2>3, <2>6, <1>n DEF LogTypeOK, Sizes
  <2>8. logFile.gen = 0 => \A h \in logSnapshot : h[2] <= logBase.size
    BY <2>1 DEF LogInv
  <2> HIDE DEF new
  <2> QED BY <1>n, <2>1, <2>2, <2>4, <2>7, <2>8 DEF LogInv, TailSent
<1>9. CASE UNCHANGED logVars
  BY <1>9 DEF logVars, LogInv, LogTypeOK, Untailed, TailSent
<1> QED BY <1>1, <1>2, <1>3, <1>4, <1>5, <1>6, <1>7, <1>8, <1>9 DEF LogNext, LogReaderStep, LogQuiet

\* As long as the file is only appended to, what a browser gets is the
\* snapshot, then what lies between the place where tailing began and the
\* offset, each half once, without a hole, and nothing of the snapshot again:
\* for any length of the file, any writers and any number of rounds.
THEOREM TailFaithful == LogSpec => [](LogTypeOK /\ TailExact)
<1>1. ASSUME LogInv PROVE TailExact
  <2> SUFFICES ASSUME logFile.gen = 0, logReader.pc \in {"poll", "size", "read", "ended"}
               PROVE  /\ \A h \in Halves : logTail[h] = IF h \in Piece(logBase.size, logReader.offset)
                                                        THEN 1 ELSE 0
                      /\ logSnapshot \cap Piece(logBase.size, logReader.offset) = {}
    BY <1>1, LogNumbers DEF TailExact, LogInv
  <2>1. TailSent
    BY <1>1 DEF LogInv
  <2>2. Piece(logBase.size, logReader.offset) = First(logBase.size, logReader.offset)
    BY DEF Piece, First
  <2>3. logSnapshot \cap First(logBase.size, logReader.offset) = {}
    <3>1. (\A h \in logSnapshot : h[2] <= logBase.size)
             => logSnapshot \cap First(logBase.size, logReader.offset) = {}
      BY <1>1, LogNumbers DEF First, LogInv
    <3> QED BY <1>1, <3>1 DEF LogInv
  <2> QED BY <2>1, <2>2, <2>3 DEF TailSent
<1>2. LogInv => LogTypeOK /\ TailExact
  BY <1>1 DEF LogInv
<1> QED BY <1>2, LogInitInv, LogNextInv, PTL DEF LogSpec

\* Where a stream that the route hands its request is: before its first poll,
\* or at an end.
FirstPollEnds ==
    logRequest.passed =>
       /\ logReader.pc \notin {"size", "read"}
       /\ logReader.pc # "ended" => logReader.round = 0
       /\ logReader.round <= 1
       /\ \A h \in Halves : logTail[h] = 0

\* api_logs_stream and api_preview_logs_stream hand their request to the
\* generator, and _check_disconnect takes the coroutine of is_disconnected()
\* for an answer: such a stream ends at its first poll, with nothing sent after
\* the snapshot, whatever is written and however many rounds it was to go on.
\* This is why TailsUntilDisconnect fails, for every size of file and every
\* number of rounds; only a stream without a request tails its file.
THEOREM FirstPollEndsTheStream ==
    LogSpec => [](logRequest.passed => /\ logReader.round <= 1
                                       /\ logReader.pc \notin {"size", "read"}
                                       /\ \A h \in Halves : logTail[h] = 0)
<1>1. LogInit => FirstPollEnds
  BY LogStreamAssumption DEF LogStreamAssumption, LogInit, FirstPollEnds, Halves
<1>2. ASSUME LogTypeOK, FirstPollEnds, [LogNext]_logVars PROVE FirstPollEnds'
  <2>n. /\ logReader.round \in 0..LogRounds /\ LogRounds \in Nat
        /\ logReader.pc \in {"snapshot", "stat", "poll", "size", "read", "ended"}
    BY <1>2, LogNumbers
  <2>r. /\ logReader = [pc |-> logReader.pc, offset |-> logReader.offset,
                        round |-> logReader.round, found |-> logReader.found]
        /\ logRequest = [passed |-> logRequest.passed, there |-> logRequest.there]
    BY <1>2 DEF LogTypeOK
  <2>1. ASSUME LogWrite \/ LogCut \/ LogQuiet \/ UNCHANGED logVars PROVE FirstPollEnds'
    BY <1>2, <2>1 DEF LogWrite, LogCut, LogQuiet, logVars, FirstPollEnds
  <2>2. ASSUME LogLeave PROVE FirstPollEnds'
    <3>1. /\ logRequest'.passed = logRequest.passed /\ logTail' = logTail
          /\ logReader'.pc = "ended" /\ logReader'.round = logReader.round
      BY <2>2, <2>r DEF LogLeave
    <3> QED BY <1>2, <3>1 DEF FirstPollEnds
  <2>3. ASSUME LogSnapshot \/ LogStat PROVE FirstPollEnds'
    <3>1. /\ logRequest' = logRequest /\ logTail' = logTail
          /\ logReader.pc \in {"snapshot", "stat"}
          /\ logReader'.pc \in {"stat", "poll"} /\ logReader'.round = logReader.round
      BY <2>3, <2>r DEF LogSnapshot, LogStat
    <3> QED BY <1>2, <3>1 DEF FirstPollEnds
  <2>4. ASSUME LogPoll PROVE FirstPollEnds'
    <3>1. /\ logRequest' = logRequest /\ logTail' = logTail /\ logReader.pc = "poll"
          /\ logReader'.round = IF logReader.round < LogRounds THEN logReader.round + 1
                                ELSE logReader.round
      BY <2>4, <2>r DEF LogPoll
    <3>2. logRequest.passed => logReader'.pc = "ended"
      BY <2>4, <2>r DEF LogPoll, Disconnected
    <3> QED BY <1>2, <2>n, <3>1, <3>2 DEF FirstPollEnds
  <2>5. ASSUME LogSize \/ LogRead PROVE FirstPollEnds'
    <3>1. logRequest' = logRequest /\ logReader.pc \in {"size", "read"}
      BY <2>5 DEF LogSize, LogRead
    <3> QED BY <1>2, <3>1 DEF FirstPollEnds
  <2> QED BY <1>2, <2>1, <2>2, <2>3, <2>4, <2>5 DEF LogNext, LogReaderStep
<1>3. LogInv => LogTypeOK
  BY DEF LogInv
<1>4. FirstPollEnds => (logRequest.passed => /\ logReader.round <= 1
                                             /\ logReader.pc \notin {"size", "read"}
                                             /\ \A h \in Halves : logTail[h] = 0)
  BY DEF FirstPollEnds
<1> QED BY <1>1, <1>2, <1>3, <1>4, LogInitInv, LogNextInv, PTL DEF LogSpec

-----------------------------------------------------------------------------
(* SelfUpdate *)

\* UpdateSound speaks of steps only; before each of them the requirements
\* are complete, and changes that an update under way may meet are unsafe.
UpdInv ==
    /\ UpdTypeOK
    /\ StartsComplete
    /\ edited /\ update.step \notin {"none", "stash"} => unsafe

\* What an update can be.
UpdateSteps == {"none", "stash", "fetch", "fallback", "compare", "checkout", "reset", "pip",
                "schedule"}
UpdateRecord == [step : UpdateSteps, source : Sources \cup {"prbranch"}, point : Snapshots]

LEMMA NoUpdateType == NoUpdate \in UpdateRecord /\ NoUpdate.step = "none"
  BY SelfUpdateAssumption DEF SelfUpdateAssumption, NoUpdate, UpdateRecord, UpdateSteps, Sources

LEMMA UpdInitInv == UpdInit => UpdInv
<1> SUFFICES ASSUME UpdInit PROVE UpdInv
  OBVIOUS
<1>1. update \in UpdateRecord
  BY NoUpdateType DEF UpdInit
<1>2. origin \in [Sources -> Snapshots] /\ updates \in 0..MaxUpdates /\ outside \in 0..MaxOutside
  BY SelfUpdateAssumption DEF SelfUpdateAssumption, UpdInit
<1>3. UpdTypeOK
  BY <1>1, <1>2, SelfUpdateAssumption
     DEF SelfUpdateAssumption, UpdInit, UpdTypeOK, UpdateRecord, UpdateSteps
<1> QED BY <1>3 DEF UpdInit, UpdInv, StartsComplete

\* Every step but those of a restart, and what it makes of the update.
LEMMA UpdateMoves ==
  ASSUME UpdTypeOK, UpdNext
  PROVE  update' \in UpdateRecord
<1>1. NoUpdate \in UpdateRecord /\ update \in UpdateRecord
  BY NoUpdateType DEF UpdTypeOK, UpdateRecord, UpdateSteps
<1>2. ASSUME NEW st \in UpdateSteps PROVE [update EXCEPT !.step = st] \in UpdateRecord
  BY <1>1 DEF UpdateRecord
<1>3. \/ update' = update \/ update' = NoUpdate
      \/ \E st \in UpdateSteps : UpdGoto(st)
      \/ BeginUpdate \/ Fetch
  BY DEF UpdNext, Stash, CompareVersions, Checkout, HardReset, PipInstall, ScheduleRestart,
         WorkerRestarts, ServerDies, Start, Push, EditCheckout, UpdQuiet, UpdateSteps, updVars
<1>4. CASE BeginUpdate
  <2>1. PICK s \in Sources : update' = [update EXCEPT !.step = "stash", !.source = s]
    BY <1>4 DEF BeginUpdate
  <2> QED BY <1>1, <2>1 DEF UpdateRecord, UpdateSteps
<1>5. CASE Fetch
  <2>1. \A s \in Sources : origin[s] \in Snapshots
    BY DEF UpdTypeOK
  <2>2. \/ \E c \in Snapshots : update' = [update EXCEPT !.step = "compare", !.point = c]
        \/ update' = [update EXCEPT !.step = "fallback", !.source = "prbranch"]
        \/ update' = NoUpdate
    BY <1>5, <2>1 DEF Fetch, Sources
  <2> QED BY <1>1, <2>2 DEF UpdateRecord, UpdateSteps
<1> QED BY <1>1, <1>2, <1>3, <1>4, <1>5 DEF UpdGoto

LEMMA UpdateTypes == UpdTypeOK /\ [UpdNext]_updVars => UpdTypeOK'
<1> SUFFICES ASSUME UpdTypeOK, UpdNext PROVE UpdTypeOK'
  BY DEF UpdTypeOK, updVars
<1>1. update' \in UpdateRecord
  BY UpdateMoves
<1>2. checkout' \in Snapshots
  BY DEF UpdTypeOK, UpdNext, BeginUpdate, Stash, Fetch, CompareVersions, Checkout, HardReset,
         PipInstall, ScheduleRestart, WorkerRestarts, ServerDies, Push, EditCheckout, UpdQuiet, updVars
<1>3. installed' \in Snapshots /\ serving' \in Snapshots
  BY DEF UpdTypeOK, UpdNext, BeginUpdate, Stash, Fetch, CompareVersions, Checkout, HardReset,
         PipInstall, ScheduleRestart, WorkerRestarts, ServerDies, Start, Push, EditCheckout, UpdQuiet,
         updVars
<1>4. origin' \in [Sources -> Snapshots]
  BY DEF UpdTypeOK, UpdNext, BeginUpdate, Stash, Fetch, CompareVersions, Checkout, HardReset,
         PipInstall, ScheduleRestart, WorkerRestarts, ServerDies, Push, EditCheckout, UpdQuiet, updVars
<1>5. edited' \in BOOLEAN /\ worker' \in BOOLEAN
  BY Zenon DEF UpdTypeOK, UpdNext, BeginUpdate, Stash, Fetch, CompareVersions, Checkout, HardReset,
         PipInstall, ScheduleRestart, WorkerRestarts, ServerDies, Push, EditCheckout, UpdQuiet, updVars
<1>6. /\ unsafe' = unsafe \/ unsafe' = TRUE \/ EditCheckout
      /\ torn' = torn \/ torn' = TRUE \/ Start
  BY DEF UpdNext, BeginUpdate, Stash, Fetch, CompareVersions, Checkout, HardReset,
         PipInstall, ScheduleRestart, WorkerRestarts, ServerDies, Push, EditCheckout, UpdQuiet, updVars
<1>7. /\ unsafe \in BOOLEAN /\ torn \in BOOLEAN
      /\ EditCheckout => unsafe' \in BOOLEAN
      /\ Start => torn' \in BOOLEAN
  BY Zenon DEF UpdTypeOK, EditCheckout, Start
<1>8. unsafe' \in BOOLEAN /\ torn' \in BOOLEAN
  BY <1>6, <1>7
<1>9. updates' \in 0..MaxUpdates /\ outside' \in 0..MaxOutside
  <2>1. /\ updates' = updates \/ (updates < MaxUpdates /\ updates' = updates + 1)
        /\ outside' = outside \/ Outside
    BY DEF UpdNext, BeginUpdate, Stash, Fetch, CompareVersions, Checkout, HardReset, PipInstall,
           ScheduleRestart, WorkerRestarts, ServerDies, Push, EditCheckout, UpdQuiet, updVars
  <2>2. /\ MaxUpdates \in Nat /\ MaxOutside \in Nat
        /\ updates \in 0..MaxUpdates /\ outside \in 0..MaxOutside
    BY SelfUpdateAssumption DEF SelfUpdateAssumption, UpdTypeOK
  <2> QED BY <2>1, <2>2 DEF Outside
<1> QED BY <1>1, <1>2, <1>3, <1>4, <1>5, <1>8, <1>9 DEF UpdTypeOK, UpdateRecord, UpdateSteps

\* The server starts from what is installed, or from a torn update.
LEMMA StartComplete ==
  ASSUME StartsComplete, Start, UNCHANGED <<checkout, installed>>
  PROVE  StartsComplete'
<1>1. /\ torn => torn'
      /\ update.step \in {"reset", "pip"} => torn'
  BY Zenon DEF Start
<1> QED BY <1>1 DEF StartsComplete, UpdAt

\* Every step keeps the requirements complete, or is on its way to it.
LEMMA CompleteNext == UpdInv /\ [UpdNext]_updVars => StartsComplete'
<1> SUFFICES ASSUME UpdInv, [UpdNext]_updVars PROVE StartsComplete'
  OBVIOUS
<1>1. update \in UpdateRecord /\ StartsComplete
  BY DEF UpdInv, UpdTypeOK, UpdateRecord, UpdateSteps
<1>2. CASE Checkout
  <2>1. CASE checkout' = update.point /\ UpdGoto(IF update.source = "pr" THEN "pip" ELSE "reset")
    <3>1. update'.step \in {"pip", "reset"}
      BY <1>1, <2>1 DEF UpdGoto, UpdateRecord
    <3> QED BY <3>1 DEF StartsComplete, UpdAt
  <2>2. CASE UNCHANGED checkout
    BY <1>1, <1>2, <2>2 DEF Checkout, StartsComplete, UpdAt
  <2> QED BY <1>2, <2>1, <2>2 DEF Checkout
<1>3. CASE HardReset
  <2>1. UpdGoto("pip") => update'.step = "pip"
    BY <1>1 DEF UpdGoto, UpdateRecord
  <2> QED BY <1>3, <2>1 DEF HardReset, StartsComplete, UpdAt
<1>4. CASE PipInstall
  BY <1>4 DEF PipInstall, NeedsPip, StartsComplete
<1>5. CASE WorkerRestarts \/ ServerDies
  BY <1>1, <1>5, StartComplete
     DEF WorkerRestarts, ServerDies, StartsComplete, UpdAt
<1>6. CASE BeginUpdate \/ Stash \/ Fetch \/ CompareVersions \/ ScheduleRestart
  BY <1>1, <1>6
     DEF BeginUpdate, Stash, Fetch, CompareVersions, ScheduleRestart, StartsComplete, UpdAt
<1>7. CASE Push \/ EditCheckout \/ UNCHANGED updVars
  BY <1>1, <1>7 DEF Push, EditCheckout, updVars, StartsComplete, UpdAt
<1> QED BY <1>2, <1>3, <1>4, <1>5, <1>6, <1>7 DEF UpdNext, UpdQuiet

\* Changes of the checkout are in the stash, or unsafe.
LEMMA UnsafeNext ==
  ASSUME UpdInv, [UpdNext]_updVars
  PROVE  /\ edited' /\ update'.step \notin {"none", "stash"} => unsafe'
         /\ edited /\ ~edited' => UpdAt("stash") \/ unsafe
<1>1. /\ update \in UpdateRecord /\ NoUpdate.step = "none"
      /\ edited /\ update.step \notin {"none", "stash"} => unsafe
  BY NoUpdateType DEF UpdInv, UpdTypeOK, UpdateRecord, UpdateSteps
<1>2. CASE EditCheckout
  <2>1. update.step \notin {"none", "stash"} => unsafe'
    BY <1>2, Zenon DEF EditCheckout
  <2> QED BY <1>2, <2>1 DEF EditCheckout
<1>3. CASE BeginUpdate
  <2>1. update'.step = "stash"
    BY <1>1, <1>3 DEF BeginUpdate, UpdateRecord
  <2> QED BY <1>3, <2>1 DEF BeginUpdate
<1>4. CASE Stash
  BY <1>4 DEF Stash
<1>5. CASE Fetch \/ CompareVersions \/ Checkout \/ HardReset \/ PipInstall \/ ScheduleRestart
  BY <1>1, <1>5 DEF Fetch, CompareVersions, Checkout, HardReset, PipInstall, ScheduleRestart, UpdAt
<1>6. CASE WorkerRestarts \/ ServerDies \/ Push \/ UNCHANGED updVars
  BY <1>1, <1>6 DEF WorkerRestarts, ServerDies, Start, Push, updVars
<1> QED BY <1>2, <1>3, <1>4, <1>5, <1>6 DEF UpdNext, UpdQuiet

LEMMA UpdNextInv == UpdInv /\ [UpdNext]_updVars => UpdInv'
  BY UpdateTypes, CompleteNext, UnsafeNext DEF UpdInv

\* Whatever fails, dies or wakes up late, the server is never started without
\* the requirements of what is checked out unless an update was torn, and no
\* local change is thrown away that was not stashed or made too late.
THEOREM UpdateKept == UpdSpec => []UpdTypeOK /\ UpdateSound
<1>1. UpdInv /\ [UpdNext]_updVars
         => [StartsComplete' /\ (edited /\ ~edited' => UpdAt("stash") \/ unsafe)]_updVars
  BY CompleteNext, UnsafeNext
<1>2. UpdInv => UpdTypeOK
  BY DEF UpdInv
<1> QED BY <1>1, <1>2, UpdInitInv, UpdNextInv, PTL DEF UpdSpec, UpdateSound

-----------------------------------------------------------------------------
(* Projects *)

\* _next_port: the smallest port that is not used.
LEMMA NextPortIsFree ==
  ASSUME NEW n \in Nat, n < Cardinality(Creators) + 1, NEW used \in SUBSET (1..n)
  PROVE  NextPort(used) \in 1..(n + 1) /\ NextPort(used) \notin used
<1> DEFINE T == PortsOf \ used
<1>1. Cardinality(Creators) \in Nat
  BY ProjectsAssumption, FS_CardinalityType DEF ProjectsAssumption
<1>2. T \in SUBSET Nat /\ n + 1 \in T
  BY <1>1 DEF PortsOf
<1>3. \E x \in T : \A y \in T : x <= y
  BY <1>2, Smallest
<1>4. NextPort(used) \in T /\ \A y \in T : NextPort(used) <= y
  BY <1>3 DEF NextPort, Min
<1> QED BY <1>1, <1>2, <1>4 DEF PortsOf

-----------------------------------------------------------------------------
MakerSteps == {"new", "check", "insert", "files", "created", "address", "spawn", "fill", "instance",
               "clone", "failed", "refused", "done"}
Makers == [id : Uuids, kind : MakerKinds, used : SUBSET PortsOf, step : MakerSteps]

\* Creations that have inserted their row or ended without it; a port is
\* never higher than their number.
Placed == {c \in Creators : maker[c].step \notin {"new", "check", "insert"}}

\* Creations that have read the table and not inserted their row yet.
Choosing == {c \in Creators : maker[c].step \in {"check", "insert"}}

\* The creation has inserted a row.
Owner(c) == maker[c].step \in MakerSteps \ {"new", "check", "insert", "failed", "refused"}

PortsLow ==
    /\ \A u \in Uuids : projects[u] = NoRow \/ projects[u].port \in 1..Cardinality(Placed)
    /\ \A c \in Creators : maker[c].used \subseteq 1..Cardinality(Placed)

\* A creation that is alone has read every port there is.
Distinct == ~together =>
    /\ \A c, d \in Choosing : c = d
    /\ \A c \in Choosing, u \in Uuids : There(u) => projects[u].port \in maker[c].used
    /\ \A u, v \in Uuids : u # v /\ There(u) /\ There(v) => projects[u].port # projects[v].port

Owned == gone = 0 => \A c \in Creators : Owner(c) =>
    There(maker[c].id) /\ projects[maker[c].id].by = c

ProjInv == ProjTypeOK /\ PortsLow /\ Distinct /\ Owned

\* The number of creations that are placed.
LEMMA PlacedGrows ==
  ASSUME NEW S \in SUBSET Creators, NEW T \in SUBSET Creators, S \subseteq T
  PROVE  /\ Cardinality(S) \in Nat /\ Cardinality(T) \in Nat /\ Cardinality(Creators) \in Nat
         /\ Cardinality(S) <= Cardinality(T) /\ Cardinality(T) <= Cardinality(Creators)
         /\ 1..Cardinality(S) \subseteq 1..Cardinality(T)
         /\ S # T => Cardinality(S) + 1 <= Cardinality(T)
<1>1. /\ IsFiniteSet(Creators) /\ IsFiniteSet(S) /\ IsFiniteSet(T)
      /\ Cardinality(T) <= Cardinality(Creators) /\ Cardinality(S) <= Cardinality(T)
  BY ProjectsAssumption, FS_Subset DEF ProjectsAssumption
<1>2. Cardinality(S) \in Nat /\ Cardinality(T) \in Nat /\ Cardinality(Creators) \in Nat
  BY <1>1, FS_CardinalityType
<1>3. Cardinality(T) = Cardinality(S) => T = S
  BY <1>1, FS_Subset
<1> QED BY <1>1, <1>2, <1>3

LEMMA ProjInitInv == ProjInit => ProjInv
<1> SUFFICES ASSUME ProjInit PROVE ProjInv
  OBVIOUS
<1>1. (CHOOSE u \in Uuids : TRUE) \in Uuids
  BY ProjectsAssumption DEF ProjectsAssumption
<1>2. Unmade \in Makers /\ Unmade.step = "new" /\ Unmade.used = {}
  BY <1>1 DEF Unmade, Makers, MakerSteps, MakerKinds
<1>3. maker \in [Creators -> Makers] /\ \A c \in Creators : maker[c].step = "new" /\ maker[c].used = {}
  BY <1>2 DEF ProjInit
<1>r. projects \in [Uuids -> [by : Creators \cup {0}, port : PortsOf \cup {0},
                               status : {"none", "stopped", "created"}]]
  BY DEF ProjInit, NoRow
<1>s. workspace \subseteq Uuids /\ together \in BOOLEAN
  BY DEF ProjInit
<1>g. gone \in 0..MaxGone
  BY ProjectsAssumption DEF ProjectsAssumption, ProjInit
<1>4. ProjTypeOK
  BY <1>3, <1>r, <1>s, <1>g DEF ProjTypeOK, Makers, MakerSteps
<1>5. PortsLow
  BY <1>3 DEF PortsLow, ProjInit
<1>6. Distinct /\ Owned
  BY <1>3 DEF Distinct, Owned, Owner, Choosing, There, ProjInit
<1> QED BY <1>4, <1>5, <1>6 DEF ProjInv

\* A step of a creation that has inserted its row, or fails: rows keep their
\* owner and their port.
LEMMA OwnerMoves ==
  ASSUME ProjInv, NEW c \in Creators, maker[c].step \in MakerSteps \ {"new", "check", "insert"},
         maker' \in [Creators -> Makers],
         maker'[c].id = maker[c].id, maker'[c].used \subseteq maker[c].used,
         maker'[c].step \in MakerSteps \ {"new", "check", "insert"},
         Owner(c)' => Owner(c),
         \A d \in Creators \ {c} : maker'[d] = maker[d],
         projects' \in [Uuids -> [by : Creators \cup {0}, port : PortsOf \cup {0},
                               status : {"none", "stopped", "created"}]],
         \A u \in Uuids : \/ projects'[u] = projects[u]
                          \/ /\ There(u)
                             /\ projects'[u].by = projects[u].by
                             /\ projects'[u].port = projects[u].port,
         workspace' \subseteq Uuids,
         UNCHANGED <<together, gone>>
  PROVE  ProjInv'
<1>1. ProjTypeOK /\ PortsLow /\ Distinct /\ Owned
  BY DEF ProjInv
<1>2. ProjTypeOK'
  BY <1>1 DEF ProjTypeOK, Makers, MakerSteps
<1>3. Placed' = Placed /\ Choosing' = Choosing
  BY DEF Placed, Choosing
<1>4. Cardinality(Placed) \in Nat
  BY PlacedGrows DEF Placed
<1>5. ASSUME NEW u \in Uuids
      PROVE  /\ There(u)' <=> There(u)
             /\ There(u) => projects'[u].by = projects[u].by /\ projects'[u].port = projects[u].port
  <2>1. There(u) => projects[u].port # 0
    BY <1>1, <1>4 DEF PortsLow, There
  <2>2. projects'[u].port # 0 => projects'[u] # NoRow
    BY DEF NoRow
  <2> QED BY <2>1, <2>2 DEF There
<1>6. PortsLow'
  <2>1. \A u \in Uuids : projects'[u] = NoRow \/ projects'[u].port \in 1..Cardinality(Placed)
    BY <1>1, <1>5 DEF PortsLow, There
  <2>2. \A d \in Creators : maker'[d].used \subseteq maker[d].used
    OBVIOUS
  <2>3. \A d \in Creators : maker'[d].used \subseteq 1..Cardinality(Placed)
    BY <1>1, <2>2 DEF PortsLow
  <2> QED BY <1>3, <2>1, <2>3 DEF PortsLow
<1>7. Distinct'
  <2>1. \A d \in Choosing : d # c /\ maker'[d] = maker[d]
    BY DEF Choosing
  <2> QED BY <1>1, <1>3, <1>5, <2>1 DEF Distinct
<1>8. Owned'
  BY <1>1, <1>5 DEF Owned, Owner, ProjTypeOK
<1> QED BY <1>2, <1>6, <1>7, <1>8 DEF ProjInv

\* A creation that ends keeps its id only.
LEMMA Ends ==
  ASSUME ProjTypeOK, NEW c \in Creators, NEW step \in MakerSteps, MakerEnds(c, step)
  PROVE  /\ maker' \in [Creators -> Makers]
         /\ maker'[c].id = maker[c].id /\ maker'[c].used = {} /\ maker'[c].step = step
         /\ \A d \in Creators \ {c} : maker'[d] = maker[d]
<1>1. maker \in [Creators -> Makers]
  BY DEF ProjTypeOK, Makers, MakerSteps
<1> DEFINE ended == [Unmade EXCEPT !.id = maker[c].id, !.step = step]
<1>2. ended \in Makers /\ ended.id = maker[c].id /\ ended.used = {} /\ ended.step = step
  BY <1>1 DEF Unmade, Makers, MakerKinds
<1>3. maker' = [maker EXCEPT ![c] = ended]
  BY DEF MakerEnds
<1> HIDE DEF ended
<1> QED BY <1>1, <1>2, <1>3

LEMMA Goes ==
  ASSUME ProjTypeOK, NEW c \in Creators, NEW step \in MakerSteps, MakerGoto(c, step)
  PROVE  /\ maker' \in [Creators -> Makers]
         /\ maker'[c].id = maker[c].id /\ maker'[c].used = maker[c].used /\ maker'[c].step = step
         /\ \A d \in Creators \ {c} : maker'[d] = maker[d]
<1>1. maker \in [Creators -> Makers]
  BY DEF ProjTypeOK, Makers, MakerSteps
<1> QED BY <1>1 DEF MakerGoto, Makers

\* update_project changes columns of a row that is there.
LEMMA Marks ==
  ASSUME ProjTypeOK, NEW u \in Uuids, NEW st \in {"stopped", "created"},
         Mark(u, st) \/ UNCHANGED projects
  PROVE  /\ projects' \in [Uuids -> [by : Creators \cup {0}, port : PortsOf \cup {0},
                                     status : {"none", "stopped", "created"}]]
         /\ \A v \in Uuids : \/ projects'[v] = projects[v]
                             \/ /\ There(v)
                                /\ projects'[v].by = projects[v].by
                                /\ projects'[v].port = projects[v].port
<1>1. projects \in [Uuids -> [by : Creators \cup {0}, port : PortsOf \cup {0},
                              status : {"none", "stopped", "created"}]]
  BY DEF ProjTypeOK
<1> QED BY <1>1 DEF Mark

\* The steps that follow the insert of a row.
Later(c) ==
    \/ WriteFiles(c) \/ MarkCreated(c) \/ AssignAddress(c) \/ SpawnFirstDeploy(c) \/ FillTemplate(c)
    \/ CreateInstance(c) \/ CloneImport(c)

LEMMA LaterInv ==
  ASSUME ProjInv, NEW c \in Creators, Later(c)
  PROVE  ProjInv'
<1>1. ProjTypeOK /\ maker[c].id \in Uuids /\ maker[c].kind \in MakerKinds
  BY DEF ProjInv, ProjTypeOK
<1>2. /\ maker[c].step \in {"files", "created", "address", "spawn", "fill", "instance", "clone"}
      /\ \/ \E st \in {"created", "address", "spawn", "fill", "clone", "instance"} : MakerGoto(c, st)
         \/ \E st \in {"done", "failed"} : MakerEnds(c, st)
  BY <1>1 DEF Later, WriteFiles, MarkCreated, AssignAddress, SpawnFirstDeploy, FillTemplate,
              CreateInstance, CloneImport, MakerAt, AfterAddress, MakerKinds
<1>3. /\ maker' \in [Creators -> Makers]
      /\ maker'[c].id = maker[c].id /\ maker'[c].used \subseteq maker[c].used
      /\ maker'[c].step \in MakerSteps \ {"new", "check", "insert"}
      /\ \A d \in Creators \ {c} : maker'[d] = maker[d]
  BY <1>1, <1>2, Goes, Ends DEF MakerSteps
<1>4. Owner(c)
  BY <1>2 DEF Owner, MakerSteps
<1>5. (\E st \in {"stopped", "created"} : Mark(maker[c].id, st)) \/ UNCHANGED projects
  BY DEF Later, WriteFiles, MarkCreated, AssignAddress, SpawnFirstDeploy, FillTemplate,
         CreateInstance, CloneImport
<1>6. /\ projects' \in [Uuids -> [by : Creators \cup {0}, port : PortsOf \cup {0},
                                  status : {"none", "stopped", "created"}]]
      /\ \A v \in Uuids : \/ projects'[v] = projects[v]
                          \/ /\ There(v)
                             /\ projects'[v].by = projects[v].by
                             /\ projects'[v].port = projects[v].port
  BY <1>1, <1>5, Marks
<1>7. workspace' \subseteq Uuids /\ UNCHANGED <<together, gone>>
  BY <1>1 DEF ProjTypeOK, Later, WriteFiles, MarkCreated, AssignAddress, SpawnFirstDeploy, FillTemplate,
              CreateInstance, CloneImport
<1>8. maker[c].step \in MakerSteps \ {"new", "check", "insert"}
  BY <1>2 DEF MakerSteps
<1> QED BY <1>3, <1>4, <1>6, <1>7, <1>8, OwnerMoves

\* list_projects: the ports of all rows are read.
LEMMA ReadInv ==
  ASSUME ProjInv, NEW c \in Creators, NEW u \in Uuids, NEW k \in MakerKinds, ReadProjects(c, u, k)
  PROVE  ProjInv'
<1>1. /\ ProjTypeOK /\ PortsLow /\ Distinct /\ Owned
      /\ maker[c].step = "new" /\ UNCHANGED <<projects, workspace, gone>>
  BY DEF ProjInv, ReadProjects, MakerAt
<1>2. Cardinality(Placed) \in Nat
  BY PlacedGrows DEF Placed
<1>3. PortsTaken \subseteq 1..Cardinality(Placed) /\ PortsTaken \subseteq PortsOf
  <2>1. 1..Cardinality(Placed) \subseteq PortsOf
    BY PlacedGrows DEF Placed, PortsOf
  <2> QED BY <1>1, <2>1 DEF PortsTaken, PortsLow, There
<1>4. /\ maker' = [maker EXCEPT ![c] = [id |-> u, kind |-> k, used |-> PortsTaken, step |-> "check"]]
      /\ maker \in [Creators -> Makers]
  BY <1>1 DEF ReadProjects, ProjTypeOK, Makers, MakerSteps
<1>5. /\ maker' \in [Creators -> Makers]
      /\ maker'[c].step = "check" /\ maker'[c].used = PortsTaken
      /\ \A d \in Creators \ {c} : maker'[d] = maker[d]
  BY <1>3, <1>4 DEF Makers, MakerSteps
<1>6. Placed' = Placed /\ Choosing' = Choosing \cup {c}
  BY <1>1, <1>5 DEF Placed, Choosing
<1>7. together' \in BOOLEAN /\ (together => together') /\ (Choosing # {} => together')
  BY <1>1, Zenon DEF ReadProjects, ProjTypeOK, Choosing
<1>8. ProjTypeOK'
  BY <1>1, <1>5, <1>7 DEF ProjTypeOK, Makers, MakerSteps
<1>9. PortsLow'
  BY <1>1, <1>3, <1>5, <1>6 DEF PortsLow
<1>10. Distinct'
  <2> SUFFICES ASSUME ~together' PROVE Distinct'
    BY DEF Distinct
  <2>1. Choosing' = {c} /\ ~together
    BY <1>6, <1>7
  <2>2. \A v \in Uuids : There(v)' => projects'[v].port \in maker'[c].used
    BY <1>1, <1>5 DEF PortsTaken, There
  <2>3. \A v, w \in Uuids : v # w /\ There(v)' /\ There(w)' => projects'[v].port # projects'[w].port
    BY <1>1, <2>1 DEF Distinct, There
  <2> QED BY <2>1, <2>2, <2>3 DEF Distinct
<1>11. Owned'
  <2>1. \A d \in Creators : Owner(d)' => d # c
    BY <1>5 DEF Owner
  <2> QED BY <1>1, <1>5, <2>1 DEF Owned, Owner, There
<1> QED BY <1>8, <1>9, <1>10, <1>11 DEF ProjInv

\* The creation ends before it has inserted a row.
LEMMA RefusedInv ==
  ASSUME ProjInv, NEW c \in Creators, maker[c].step \in {"check", "insert"},
         \/ MakerEnds(c, "refused")
         \/ maker[c].step = "check" /\ MakerGoto(c, "insert"),
         UNCHANGED <<projects, workspace, together, gone>>
  PROVE  ProjInv'
<1>1. ProjTypeOK /\ PortsLow /\ Distinct /\ Owned
  BY DEF ProjInv
<1>2. /\ maker' \in [Creators -> Makers]
      /\ maker'[c].used \subseteq maker[c].used
      /\ \/ maker'[c].step = "refused"
         \/ maker'[c].step = "insert" /\ maker'[c].used = maker[c].used
      /\ \A d \in Creators \ {c} : maker'[d] = maker[d]
  BY <1>1, Ends, Goes DEF MakerSteps
<1>3. Placed \subseteq Placed' /\ Choosing' \subseteq Choosing
  BY <1>2 DEF Placed, Choosing
<1>4. 1..Cardinality(Placed) \subseteq 1..Cardinality(Placed')
  BY <1>3, PlacedGrows DEF Placed
<1>5. ProjTypeOK'
  BY <1>1, <1>2 DEF ProjTypeOK, Makers, MakerSteps
<1>6. PortsLow'
  <2>1. Cardinality(Placed)' = Cardinality(Placed')
    OBVIOUS
  <2>2. \A d \in Creators : maker'[d].used \subseteq maker[d].used
    BY <1>2
  <2>3. \A d \in Creators : maker'[d].used \subseteq 1..Cardinality(Placed')
    BY <1>1, <1>4, <2>2 DEF PortsLow
  <2> QED BY <1>1, <1>4, <2>3 DEF PortsLow
<1>7. Distinct'
  <2>1. \A d \in Choosing' : maker'[d].used = maker[d].used
    BY <1>2 DEF Choosing
  <2> QED BY <1>1, <1>3, <2>1 DEF Distinct, There
<1>8. Owned'
  <2>1. \A d \in Creators : Owner(d)' => d # c
    BY <1>2 DEF Owner
  <2> QED BY <1>1, <1>2, <2>1 DEF Owned, Owner, There
<1> QED BY <1>5, <1>6, <1>7, <1>8 DEF ProjInv

\* create_project: the port is free, unless another creation has overlapped.
LEMMA InsertInv ==
  ASSUME ProjInv, NEW c \in Creators, InsertProject(c)
  PROVE  ProjInv'
<1>1. /\ ProjTypeOK /\ PortsLow /\ Distinct /\ Owned
      /\ maker[c].step = "insert" /\ UNCHANGED <<workspace, together, gone>>
  BY DEF ProjInv, InsertProject, MakerAt
<1>2. CASE There(maker[c].id)
  BY <1>1, <1>2, RefusedInv DEF InsertProject
<1>3. CASE ~There(maker[c].id)
  <2> DEFINE id == maker[c].id
             port == NextPort(maker[c].used)
  <2>1. /\ projects' = [projects EXCEPT ![id] = [by |-> c, port |-> port, status |-> "stopped"]]
        /\ maker' = [maker EXCEPT ![c].used = {}, ![c].step = "files"]
        /\ maker \in [Creators -> Makers] /\ id \in Uuids
    BY <1>1, <1>3 DEF InsertProject, ProjTypeOK, Makers, MakerSteps
  <2>2. /\ maker' \in [Creators -> Makers]
        /\ maker'[c].id = id /\ maker'[c].used = {} /\ maker'[c].step = "files"
        /\ \A d \in Creators \ {c} : maker'[d] = maker[d]
    BY <2>1 DEF Makers, MakerSteps
  <2>3. /\ Placed \subseteq Placed' /\ c \in Placed' /\ c \notin Placed
        /\ Choosing' = Choosing \ {c} /\ c \in Choosing
    BY <1>1, <2>2 DEF Placed, Choosing
  <2>4. /\ Cardinality(Placed) \in Nat /\ Cardinality(Placed') \in Nat
        /\ Cardinality(Creators) \in Nat
        /\ Cardinality(Placed) + 1 <= Cardinality(Placed')
        /\ Cardinality(Placed') <= Cardinality(Creators)
        /\ 1..Cardinality(Placed) \subseteq 1..Cardinality(Placed')
    BY <2>3, PlacedGrows DEF Placed
  <2>5. maker[c].used \in SUBSET (1..Cardinality(Placed))
    BY <1>1 DEF PortsLow
  <2>6. port \in 1..(Cardinality(Placed) + 1) /\ port \notin maker[c].used
    BY <2>4, <2>5, NextPortIsFree
  <2>7. port \in 1..Cardinality(Placed') /\ port \in PortsOf
    BY <2>4, <2>6 DEF PortsOf
  <2> HIDE DEF port, id
  <2>8. /\ projects'[id] = [by |-> c, port |-> port, status |-> "stopped"]
        /\ \A u \in Uuids \ {id} : projects'[u] = projects[u]
        /\ projects' \in [Uuids -> [by : Creators \cup {0}, port : PortsOf \cup {0},
                                    status : {"none", "stopped", "created"}]]
    BY <1>1, <2>1, <2>7 DEF ProjTypeOK
  <2>9. projects'[id].by = c /\ projects'[id].port = port /\ projects'[id] # NoRow /\ projects[id] = NoRow
    BY <1>3, <2>4, <2>7, <2>8 DEF NoRow, There, id
  <2>10. ProjTypeOK'
    BY <1>1, <2>2, <2>8 DEF ProjTypeOK, Makers, MakerSteps
  <2>11. PortsLow'
    <3>1. \A d \in Creators : maker'[d].used \subseteq 1..Cardinality(Placed')
      BY <1>1, <2>2, <2>4 DEF PortsLow
    <3>2. \A u \in Uuids : projects'[u] = NoRow \/ projects'[u].port \in 1..Cardinality(Placed')
      BY <1>1, <2>4, <2>7, <2>8, <2>9 DEF PortsLow
    <3> QED BY <3>1, <3>2 DEF PortsLow
  <2>12. Distinct'
    <3> SUFFICES ASSUME ~together PROVE Distinct'
      BY <1>1 DEF Distinct
    <3>1. Choosing' = {}
      BY <1>1, <2>3 DEF Distinct
    <3>2. \A u \in Uuids : There(u) => projects[u].port # port
      BY <1>1, <2>3, <2>6 DEF Distinct
    <3>3. ASSUME NEW u \in Uuids, NEW v \in Uuids, u # v, There(u)', There(v)'
          PROVE  projects'[u].port # projects'[v].port
      BY <1>1, <2>1, <2>8, <2>9, <3>2, <3>3 DEF Distinct, There
    <3> QED BY <3>1, <3>3 DEF Distinct
  <2>13. Owned'
    <3> SUFFICES ASSUME gone = 0, NEW d \in Creators, Owner(d)'
                 PROVE  projects'[maker'[d].id] # NoRow /\ projects'[maker'[d].id].by = d
      BY <1>1 DEF Owned, There
    <3>1. CASE d = c
      BY <2>2, <2>9, <3>1 DEF There
    <3>2. CASE d # c
      <4>1. Owner(d) /\ maker'[d] = maker[d]
        BY <2>2, <3>2 DEF Owner
      <4>2. There(maker[d].id) /\ projects[maker[d].id].by = d /\ maker[d].id \in Uuids
        BY <1>1, <4>1 DEF Owned, ProjTypeOK
      <4>3. maker[d].id # id
        BY <1>3, <4>2 DEF id
      <4> QED BY <2>8, <4>1, <4>2, <4>3 DEF There
    <3> QED BY <3>1, <3>2
  <2> QED BY <2>10, <2>11, <2>12, <2>13 DEF ProjInv
<1> QED BY <1>2, <1>3

\* A removal, or a death of the server, ends what is known of owners.
LEMMA GoneInv ==
  ASSUME ProjInv, LoseCreations \/ \E u \in Uuids : RemoveProject(u)
  PROVE  ProjInv'
<1>1. ProjTypeOK /\ PortsLow /\ Distinct /\ Owned
  BY DEF ProjInv
<1>2. gone' = gone + 1 /\ gone \in 0..MaxGone /\ gone < MaxGone /\ MaxGone \in Nat
      /\ UNCHANGED <<workspace, together>>
  BY <1>1, ProjectsAssumption DEF ProjectsAssumption, LoseCreations, RemoveProject, ProjTypeOK
<1>3. gone' \in 0..MaxGone /\ gone' # 0
  BY <1>2
<1>4. Owned'
  BY <1>3 DEF Owned
<1>5. CASE \E u \in Uuids : RemoveProject(u)
  <2>1. /\ maker' = maker
        /\ projects' \in [Uuids -> [by : Creators \cup {0}, port : PortsOf \cup {0},
                                    status : {"none", "stopped", "created"}]]
        /\ \A u \in Uuids : projects'[u] = projects[u] \/ projects'[u] = NoRow
    BY <1>1, <1>5 DEF RemoveProject, ProjTypeOK, NoRow
  <2>2. Placed' = Placed /\ Choosing' = Choosing
    BY <2>1 DEF Placed, Choosing
  <2>3. ProjTypeOK'
    BY <1>1, <1>2, <1>3, <2>1 DEF ProjTypeOK
  <2>4. PortsLow'
    BY <1>1, <2>1, <2>2 DEF PortsLow
  <2>5. Distinct'
    BY <1>1, <1>2, <2>1, <2>2 DEF Distinct, There
  <2> QED BY <1>4, <2>3, <2>4, <2>5 DEF ProjInv
<1>6. CASE LoseCreations
  <2>1. /\ projects' = projects
        /\ maker' = [c \in Creators |-> IF MakerAt(c, "new") \/ Settled(c) THEN maker[c]
                                ELSE [Unmade EXCEPT !.id = maker[c].id, !.step = "failed"]]
        /\ maker \in [Creators -> Makers]
    BY <1>1, <1>6 DEF LoseCreations, ProjTypeOK, Makers, MakerSteps
  <2>2. ASSUME NEW c \in Creators
        PROVE  /\ maker'[c] \in Makers
               /\ \/ maker'[c] = maker[c] /\ c \notin Choosing
                  \/ maker'[c].used = {} /\ maker'[c].step = "failed"
    <3> DEFINE lost == [Unmade EXCEPT !.id = maker[c].id, !.step = "failed"]
    <3>1. lost \in Makers /\ lost.used = {} /\ lost.step = "failed"
      BY <2>1 DEF Unmade, Makers, MakerSteps, MakerKinds
    <3>2. maker'[c] = IF MakerAt(c, "new") \/ Settled(c) THEN maker[c] ELSE lost
      BY <2>1
    <3> HIDE DEF lost
    <3> QED BY <2>1, <3>1, <3>2 DEF MakerAt, Settled, Choosing
  <2>3. maker' \in [Creators -> Makers]
    BY <2>1, <2>2
  <2>4. Placed \subseteq Placed' /\ Choosing' = {}
    BY <2>2 DEF Placed, Choosing
  <2>5. 1..Cardinality(Placed) \subseteq 1..Cardinality(Placed')
    BY <2>4, PlacedGrows DEF Placed
  <2>6. ProjTypeOK'
    BY <1>1, <1>2, <1>3, <2>1, <2>3 DEF ProjTypeOK, Makers, MakerSteps
  <2>7. PortsLow'
    <3>1. \A c \in Creators : maker'[c].used \subseteq maker[c].used
      BY <2>2
    <3>2. \A c \in Creators : maker'[c].used \subseteq 1..Cardinality(Placed')
      BY <1>1, <2>5, <3>1 DEF PortsLow
    <3> QED BY <1>1, <2>1, <2>5, <3>2 DEF PortsLow
  <2>8. Distinct'
    BY <1>1, <1>2, <2>1, <2>4 DEF Distinct, There
  <2> QED BY <1>4, <2>6, <2>7, <2>8 DEF ProjInv
<1> QED BY <1>5, <1>6

LEMMA ProjNextInv == ProjInv /\ [ProjNext]_projVars => ProjInv'
<1> SUFFICES ASSUME ProjInv, [ProjNext]_projVars PROVE ProjInv'
  OBVIOUS
<1>1. ASSUME NEW c \in Creators, MakerStep(c)
      PROVE  ProjInv'
  <2>1. CASE CheckUuid(c)
    BY <2>1, RefusedInv DEF CheckUuid, MakerAt
  <2> QED BY <1>1, <2>1, ReadInv, InsertInv, LaterInv DEF MakerStep, Later
<1>2. CASE UNCHANGED projVars
  <2>1. Placed' = Placed /\ Choosing' = Choosing
    BY <1>2 DEF projVars, Placed, Choosing
  <2> QED BY <1>2, <2>1 DEF projVars, ProjInv, ProjTypeOK, PortsLow, Distinct, Owned, Owner, There
<1> QED BY <1>1, <1>2, GoneInv DEF ProjNext, ProjQuiet

\* Two projects never get the same port, and no two creations answer with
\* success for one project, unless creations overlap or a project was removed
\* or the server died: for any number of ids, creations and removals.
THEOREM PortsApart == ProjSpec => [](ProjTypeOK /\ PortsUnique)
<1>1. ASSUME ProjInv PROVE PortsUnique
  <2>1. \A c \in Creators : MakerAt(c, "done") => Owner(c)
    BY DEF MakerAt, Owner, MakerSteps
  <2> QED BY <1>1, <2>1 DEF ProjInv, Distinct, Owned, PortsUnique
<1>2. ProjInv => ProjTypeOK /\ PortsUnique
  BY <1>1 DEF ProjInv
<1> QED BY <1>2, ProjInitInv, ProjNextInv, PTL DEF ProjSpec

-----------------------------------------------------------------------------
(* Backups *)

\* A run that is alive has its row.
AliveHasRow == \A x \in Runs : running[x] # "none" => x \in DOMAIN execution

\* There is a time after all modification times.
TimesBounded == \E t \in Nat : \A a \in DOMAIN files : files[a] <= t

\* The artifact of the newest dump is there and was written last.
NewestIsLast ==
    \A d \in Own : newest[d] # 0 =>
        /\ <<d, newest[d]>> \in DOMAIN files
        /\ \A a \in DOMAIN files : a[1] = d /\ a # <<d, newest[d]>> => files[a] < files[<<d, newest[d]>>]

FilesInv == AliveHasRow /\ TimesBounded /\ NewestIsLast

\* A pass begins in a minute in which nothing was served; its rows are of
\* different schedules which it has not begun.
ServedBefore ==
    /\ wakes <= minute + 1
    /\ \A s \in Schedules : served[s] <= minute
    /\ loop = Idle => \A s \in Schedules : served[s] < wakes
    /\ loop # Idle => loop.current \in 1..minute
RowsAhead ==
    /\ \A i, j \in DOMAIN loop.rows : loop.rows[i][1] = loop.rows[j][1] => i = j
    /\ \A i \in DOMAIN loop.rows : served[loop.rows[i][1]] < loop.current

BackupInv == BackupsTypeOK /\ FilesInv /\ ServedBefore /\ RowsAhead

RunSteps == {"none", "dump", "upload", "prune", "write", "stamp"}
RunRow == [schedule : Schedules, file : Runs, status : {"running", "failed", "finished"}]

\* The time of a new artifact is after all that are there.
LEMMA NowIsLater ==
  ASSUME BackupsTypeOK, TimesBounded
  PROVE  Now \in Nat /\ \A a \in DOMAIN files : files[a] < Now
<1> DEFINE T == {files[a] : a \in DOMAIN files} \cup {0}
           U == {t \in Nat : \A y \in T : y <= t}
<1>1. T \in SUBSET Nat
  BY DEF BackupsTypeOK
<1>2. U \in SUBSET Nat /\ U # {}
  BY DEF TimesBounded
<1>3. PICK u \in U : \A v \in U : u <= v
  <2> HIDE DEF U
  <2> QED BY <1>2, Smallest
<1>4. u \in T
  <2>1. SUFFICES ASSUME u \notin T PROVE FALSE
    OBVIOUS
  <2>2. u \in Nat /\ \A y \in T : y <= u /\ y # u
    BY <1>3, <2>1
  <2>3. u # 0
    BY <2>1
  <2>4. u - 1 \in Nat /\ \A y \in T : y <= u - 1
    BY <1>1, <2>2, <2>3
  <2>5. u - 1 \in U
    BY <2>4
  <2> QED
    BY <1>3, <2>2, <2>5
<1>5. \E x \in T : \A y \in T : x >= y
  BY <1>1, <1>3, <1>4
<1>6. Max(T) \in T /\ \A y \in T : Max(T) >= y
  <2> HIDE DEF T
  <2> QED BY <1>5 DEF Max
<1>7. PICK m \in Nat : Now = m + 1 /\ \A y \in T : m >= y
  <2>1. Max(T) \in Nat
    BY <1>1, <1>6
  <2>2. Now = Max(T) + 1
    BY DEF Now
  <2> HIDE DEF T
  <2> QED BY <1>6, <2>1, <2>2
<1>8. ASSUME NEW a \in DOMAIN files PROVE files[a] \in Nat /\ files[a] < Now
  <2>1. files[a] \in T /\ files[a] \in Nat
    BY DEF BackupsTypeOK
  <2>2. m >= files[a]
    BY <1>7, <2>1
  <2> QED BY <1>7, <2>1, <2>2
<1> HIDE DEF T, U
<1> QED
  BY <1>7, <1>8

\* The rows of a pass are all schedules, each once.
LEMMA RowsDiffer ==
  ASSUME BackupsAssumption
  PROVE  /\ Cardinality(Schedules) \in Nat
         /\ SetToSeq(Schedules) \in [1..Cardinality(Schedules) -> Schedules]
         /\ \A i, j \in 1..Cardinality(Schedules) : SetToSeq(Schedules)[i] = SetToSeq(Schedules)[j] => i = j
<1>1. IsFiniteSet(Schedules)
  BY DEF BackupsAssumption
<1>2. Cardinality(Schedules) \in Nat /\ ExistsBijection(1..Cardinality(Schedules), Schedules)
  BY <1>1, FS_CardinalityType
<1>3. PICK f \in Bijection(1..Cardinality(Schedules), Schedules) : TRUE
  BY <1>2 DEF ExistsBijection
<1>4. f \in [1..Cardinality(Schedules) -> Schedules] /\ IsInjective(f)
  BY <1>3 DEF Bijection, Injection, Surjection, IsInjective
<1>5. /\ SetToSeq(Schedules) \in [1..Cardinality(Schedules) -> Schedules]
      /\ IsInjective(SetToSeq(Schedules))
  BY <1>4 DEF SetToSeq
<1> QED
  BY <1>2, <1>5 DEF IsInjective

LEMMA BackupsInitInv == BackupsAssumption /\ BackupsInit => BackupInv
<1> SUFFICES ASSUME BackupsAssumption, BackupsInit PROVE BackupInv
  OBVIOUS
<1>1. BackupsTypeOK
  BY DEF BackupsAssumption, BackupsInit, BackupsTypeOK, Minutes, Runs, Idle
<1>2. FilesInv
  BY DEF BackupsInit, FilesInv, AliveHasRow, TimesBounded, NewestIsLast, Runs, Own
<1>3. ServedBefore /\ RowsAhead
  BY DEF BackupsInit, ServedBefore, RowsAhead, Idle
<1> QED
  BY <1>1, <1>2, <1>3 DEF BackupInv

-----------------------------------------------------------------------------
\* What a new execution is.
LEMMA ExecutionBegins ==
  ASSUME BackupsAssumption, BackupsTypeOK, AliveHasRow, NEW s \in Schedules, NewExecution(s)
  PROVE  /\ execution' \in Seq(RunRow) /\ Len(execution') = Len(execution) + 1
         /\ Len(execution) + 1 \in Runs
         /\ execution'[Len(execution) + 1].schedule = s
         /\ \A y \in DOMAIN execution : execution'[y] = execution[y] /\ y \in DOMAIN execution'
         /\ running' \in [Runs -> RunSteps] /\ AliveHasRow'
<1>1. /\ execution \in Seq(RunRow) /\ Len(execution) \in Nat /\ MaxRuns \in Nat
      /\ running \in [Runs -> RunSteps] /\ DOMAIN execution = 1..Len(execution)
  BY DEF BackupsTypeOK, BackupsAssumption, RunRow, RunSteps
<1>2. Len(execution) + 1 \in Runs
  BY <1>1 DEF NewExecution, Runs
<1>3. PICK x \in {y \in DOMAIN execution : running[y] = "dump" /\ DatabaseRun(y) = DatabaseOf[s]}
                  \cup {Len(execution) + 1} :
        execution' = Append(execution, [schedule |-> s, status |-> "running",
                                        file |-> IF x \in DOMAIN execution
                                                 THEN execution[x].file ELSE x])
  BY DEF NewExecution
<1>4. PICK row \in RunRow : execution' = Append(execution, row) /\ row.schedule = s
  <2>1. CASE x \in DOMAIN execution
    <3>1. execution[x] \in RunRow
      BY <1>1, <2>1
    <3>2. execution[x].file \in Runs
      BY <3>1 DEF RunRow
    <3> QED BY <1>3, <2>1, <3>2 DEF RunRow
  <2>2. CASE x \notin DOMAIN execution
    <3>1. x \in Runs
      BY <1>2, <1>3, <2>2
    <3> QED BY <1>3, <2>2, <3>1 DEF RunRow
  <2> QED BY <2>1, <2>2
<1>5. /\ execution' \in Seq(RunRow) /\ Len(execution') = Len(execution) + 1
      /\ execution'[Len(execution) + 1] = row
      /\ \A y \in 1..Len(execution) : execution'[y] = execution[y]
      /\ DOMAIN execution' = 1..(Len(execution) + 1)
  BY <1>1, <1>4
<1>6. running' = [running EXCEPT ![Len(execution) + 1] = "dump"]
  BY DEF NewExecution
<1>7. running' \in [Runs -> RunSteps]
  BY <1>1, <1>2, <1>6 DEF RunSteps
<1>8. AliveHasRow'
  BY <1>1, <1>5, <1>6, <1>2 DEF AliveHasRow
<1> QED
  BY <1>1, <1>2, <1>4, <1>5, <1>7, <1>8

\* A run changes the state of its row only, and its own step.
LEMMA RunMoves ==
  ASSUME BackupsTypeOK, AliveHasRow, NEW x \in Runs, running[x] # "none",
         NEW step \in RunSteps, RunGoto(x, step),
         \/ UNCHANGED execution
         \/ \E st \in {"failed", "finished"} : execution' = [execution EXCEPT ![x].status = st]
  PROVE  /\ x \in DOMAIN execution /\ execution[x] \in RunRow
         /\ execution' \in Seq(RunRow) /\ Len(execution') = Len(execution)
         /\ \A y \in DOMAIN execution : execution'[y].schedule = execution[y].schedule
         /\ running' \in [Runs -> RunSteps] /\ AliveHasRow'
<1>1. /\ execution \in Seq(RunRow) /\ x \in DOMAIN execution
      /\ running \in [Runs -> RunSteps]
  BY DEF BackupsTypeOK, AliveHasRow, RunRow, RunSteps
<1>2. execution[x] \in RunRow
  BY <1>1
<1>3. /\ execution' \in Seq(RunRow) /\ Len(execution') = Len(execution)
      /\ DOMAIN execution' = DOMAIN execution
      /\ \A y \in DOMAIN execution : execution'[y].schedule = execution[y].schedule
  <2>1. CASE UNCHANGED execution
    BY <1>1, <2>1
  <2>2. ASSUME NEW st \in {"failed", "finished"}, execution' = [execution EXCEPT ![x].status = st]
        PROVE  /\ execution' \in Seq(RunRow) /\ Len(execution') = Len(execution)
               /\ DOMAIN execution' = DOMAIN execution
               /\ \A y \in DOMAIN execution : execution'[y].schedule = execution[y].schedule
    <3>1. /\ [execution[x] EXCEPT !.status = st] \in RunRow
          /\ [execution[x] EXCEPT !.status = st].schedule = execution[x].schedule
      BY <1>2 DEF RunRow
    <3>2. execution' = [execution EXCEPT ![x] = [execution[x] EXCEPT !.status = st]]
      BY <2>2
    <3>3. execution' \in Seq(RunRow) /\ Len(execution') = Len(execution)
      BY <1>1, <3>1, <3>2, ExceptSeq
    <3> QED BY <1>1, <3>1, <3>2, <3>3
  <2> QED BY <2>1, <2>2
<1>4. running' = [running EXCEPT ![x] = step]
  BY DEF RunGoto
<1> QED
  BY <1>1, <1>2, <1>3, <1>4 DEF AliveHasRow

\* A dump puts its artifact last; it is the newest of its database only.
LEMMA DumpKeeps ==
  ASSUME BackupsAssumption, BackupsTypeOK, FilesInv, NEW x \in Runs, Dump(x)
  PROVE  BackupsTypeOK' /\ FilesInv'
<1>1. AliveHasRow /\ TimesBounded /\ NewestIsLast /\ x \in DOMAIN execution /\ running[x] = "dump"
  BY DEF FilesInv, Dump, AliveHasRow
<1>2. CASE Fail(x) /\ UNCHANGED <<files, newest>>
  <2>1. /\ execution' \in Seq(RunRow) /\ Len(execution') = Len(execution)
        /\ running' \in [Runs -> RunSteps] /\ AliveHasRow'
    BY <1>1, <1>2, RunMoves DEF Fail, RunSteps
  <2>2. BackupsTypeOK'
    BY <1>2, <2>1 DEF Dump, BackupsTypeOK, RunRow, RunSteps
  <2>3. FilesInv'
    BY <1>1, <1>2, <2>1 DEF FilesInv, TimesBounded, NewestIsLast
  <2> QED BY <2>2, <2>3
<1>3. CASE ~(Fail(x) /\ UNCHANGED <<files, newest>>)
  <2> DEFINE d == DatabaseRun(x)
             f == execution[x].file
             a0 == <<d, f>>
  <2>1. /\ files' = [a \in DOMAIN files \cup {a0} |-> IF a = a0 THEN Now ELSE files[a]]
        /\ newest' = [newest EXCEPT ![d] = f]
        /\ RunGoto(x, IF ScheduleOf(x) \in Stored THEN "upload" ELSE "prune")
        /\ UNCHANGED <<execution, minute, exists, lastRun, loop, wakes, served>>
    BY <1>3 DEF Dump, FileOf
  <2>2. /\ execution[x] \in RunRow /\ running' \in [Runs -> RunSteps] /\ AliveHasRow'
    BY <1>1, <2>1, RunMoves DEF RunSteps
  <2>3. d \in Databases /\ f \in Runs /\ f # 0
    BY <2>2 DEF RunRow, DatabaseRun, ScheduleOf, BackupsAssumption, Runs
  <2>4. Now \in Nat /\ \A a \in DOMAIN files : files[a] \in Nat /\ files[a] < Now
    BY <1>1, NowIsLater DEF BackupsTypeOK
  <2> HIDE DEF d, f
  <2>5. DOMAIN files' = DOMAIN files \cup {a0}
    BY <2>1
  <2>6. \A a \in DOMAIN files' : files'[a] = IF a = a0 THEN Now ELSE files[a]
    BY <2>1
  <2>7. DOMAIN files' \subseteq Databases \X Runs /\ files' \in [DOMAIN files' -> Nat]
    BY <2>1, <2>3, <2>4 DEF BackupsTypeOK
  <2>8. newest' \in [Databases -> 0..MaxRuns]
    BY <2>1, <2>3 DEF BackupsTypeOK, Runs
  <2>9. BackupsTypeOK'
    BY <2>1, <2>2, <2>7, <2>8 DEF BackupsTypeOK, RunRow, RunSteps
  <2>10. TimesBounded'
    <3>1. \A a \in DOMAIN files' : files'[a] <= Now
      BY <2>4, <2>5, <2>6
    <3>2. PICK t \in Nat : t = Now
      BY <2>4
    <3> QED BY <3>1, <3>2 DEF TimesBounded
  <2>11. NewestIsLast'
    <3> SUFFICES ASSUME NEW e \in Own, newest'[e] # 0
                 PROVE  /\ <<e, newest'[e]>> \in DOMAIN files'
                        /\ \A a \in DOMAIN files' : a[1] = e /\ a # <<e, newest'[e]>>
                               => files'[a] < files'[<<e, newest'[e]>>]
      BY DEF NewestIsLast
    <3>0. e \in Databases /\ newest \in [Databases -> 0..MaxRuns]
      BY DEF Own, BackupsTypeOK
    <3>1. CASE e = d
      <4>1. newest'[e] = f /\ <<e, newest'[e]>> = a0
        BY <2>1, <3>0, <3>1
      <4> QED BY <4>1, <2>4, <2>5, <2>6
    <3>2. CASE e # d
      <4>1. newest'[e] = newest[e] /\ newest[e] # 0
        BY <2>1, <3>0, <3>2
      <4>2. /\ <<e, newest[e]>> \in DOMAIN files
            /\ \A a \in DOMAIN files : a[1] = e /\ a # <<e, newest[e]>> => files[a] < files[<<e, newest[e]>>]
        BY <1>1, <4>1 DEF NewestIsLast
      <4>3. <<e, newest[e]>> # a0 /\ a0[1] # e
        BY <3>2
      <4>4. files'[<<e, newest[e]>>] = files[<<e, newest[e]>>]
        BY <2>5, <2>6, <4>2, <4>3
      <4> QED BY <2>5, <2>6, <4>1, <4>2, <4>3, <4>4
    <3> QED BY <3>1, <3>2
  <2> QED BY <2>2, <2>9, <2>10, <2>11 DEF FilesInv
<1> QED
  BY <1>2, <1>3

\* What retention removes is not the newest artifact of its own database,
\* and nothing of the others.
LEMMA PruneKeeps ==
  ASSUME BackupsAssumption, BackupsTypeOK, FilesInv, NEW x \in Runs, Prune(x)
  PROVE  BackupsTypeOK' /\ FilesInv'
<1> DEFINE d == DatabaseRun(x)
           s == ScheduleOf(x)
           saved == IF Kept(x) THEN DOMAIN files ELSE DOMAIN files \ {FileOf(x)}
           left == Survivors(d, Retention[s], saved)
<1>1. AliveHasRow /\ TimesBounded /\ NewestIsLast /\ x \in DOMAIN execution /\ running[x] = "prune"
  BY DEF FilesInv, Prune, AliveHasRow
<1>2. /\ files' = Restrict(files, left) /\ RunGoto(x, "write")
      /\ UNCHANGED <<minute, exists, lastRun, execution, loop, wakes, newest, served>>
  BY DEF Prune
<1>3. execution[x] \in RunRow /\ running' \in [Runs -> RunSteps] /\ AliveHasRow'
  BY <1>1, <1>2, RunMoves DEF RunSteps
<1>4. s \in Schedules /\ d \in Databases /\ d = DatabaseOf[s] /\ Retention[s] \in Nat /\ Retention[s] >= 1
  BY <1>3 DEF RunRow, DatabaseRun, ScheduleOf, BackupsAssumption
<1>5. saved \subseteq DOMAIN files /\ left \subseteq saved
  BY DEF Survivors
<1>6. DOMAIN files' = left /\ \A a \in left : files'[a] = files[a]
  BY <1>2 DEF Restrict
<1>7. files' = [a \in left |-> files[a]]
  BY <1>2 DEF Restrict
<1>8. ASSUME NEW e \in Own, newest[e] # 0
      PROVE  <<e, newest[e]>> \in left
  <2> DEFINE n == <<e, newest[e]>>
  <2>1. /\ n \in DOMAIN files
        /\ \A a \in DOMAIN files : a[1] = e /\ a # n => files[a] < files[n]
    BY <1>1, <1>8 DEF NewestIsLast
  <2>2. /\ e \in Databases
        /\ \A b \in Databases \ {e} : <<b, e>> \notin Matching /\ <<e, b>> \notin Matching
        /\ \A r \in Schedules : DatabaseOf[r] = e => r \in SaveLocally
    BY DEF Own
  <2>3. n \in saved
    <3>1. CASE d = e
      BY <1>4, <2>1, <2>2, <3>1 DEF Kept
    <3>2. CASE d # e
      BY <2>1, <3>2 DEF FileOf
    <3> QED BY <3>1, <3>2
  <2>4. CASE d # e
    <3>1. ~Matches(d, n)
      BY <1>4, <2>2, <2>4 DEF Matches
    <3> QED BY <2>3, <3>1 DEF Survivors
  <2>5. CASE d = e
    <3> DEFINE later == {b \in saved : Matches(d, b) /\ files[b] >= files[n]}
    <3>1. \A b \in DOMAIN files : b[1] \in Databases /\ files[b] \in Nat
      BY DEF BackupsTypeOK
    <3>2. \A b \in saved : Matches(d, b) => b[1] = e
      BY <1>5, <2>2, <2>5, <3>1 DEF Matches
    <3>3. later \subseteq {n}
      <4> SUFFICES ASSUME NEW b \in later, b # n PROVE FALSE
        OBVIOUS
      <4>1. b \in DOMAIN files /\ b[1] = e /\ files[b] >= files[n]
        BY <1>5, <3>2
      <4>2. files[b] < files[n]
        BY <2>1, <4>1
      <4> QED BY <2>1, <3>1, <4>1, <4>2
    <3>4. n \in later
      <4>1. Matches(d, n)
        BY <2>2, <2>5 DEF Matches, BackupsAssumption
      <4>2. files[n] >= files[n]
        BY <2>1, <3>1
      <4> QED BY <2>3, <4>1, <4>2
    <3>5. later = {n}
      <4> HIDE DEF later
      <4> QED BY <3>3, <3>4
    <3>6. Cardinality(later) = 1
      <4> HIDE DEF later, n
      <4> QED BY <3>5, FS_Singleton
    <3> QED BY <1>4, <2>3, <3>6 DEF Survivors
  <2> QED BY <2>4, <2>5
<1> HIDE DEF left, saved, s, d
<1>9. BackupsTypeOK'
  <2>1. DOMAIN files' \subseteq Databases \X Runs /\ files' \in [DOMAIN files' -> Nat]
    BY <1>5, <1>6, <1>7 DEF BackupsTypeOK
  <2> QED BY <1>2, <1>3, <2>1 DEF BackupsTypeOK, RunRow, RunSteps
<1>10. TimesBounded'
  BY <1>1, <1>5, <1>6 DEF TimesBounded
<1>11. NewestIsLast'
  <2> SUFFICES ASSUME NEW e \in Own, newest'[e] # 0
               PROVE  /\ <<e, newest'[e]>> \in DOMAIN files'
                      /\ \A a \in DOMAIN files' : a[1] = e /\ a # <<e, newest'[e]>>
                             => files'[a] < files'[<<e, newest'[e]>>]
    BY DEF NewestIsLast
  <2>1. newest'[e] = newest[e] /\ <<e, newest[e]>> \in left
    BY <1>2, <1>8
  <2>2. \A a \in DOMAIN files : a[1] = e /\ a # <<e, newest[e]>> => files[a] < files[<<e, newest[e]>>]
    BY <1>1, <2>1 DEF NewestIsLast
  <2> QED BY <1>5, <1>6, <2>1, <2>2
<1> QED
  BY <1>3, <1>9, <1>10, <1>11 DEF FilesInv

-----------------------------------------------------------------------------
\* A row that is visited is one of a schedule that this pass has not begun.
LEMMA HeadOfRows ==
  ASSUME BackupsTypeOK, RowsAhead, loop.rows # <<>>
  PROVE  /\ Head(loop.rows)[1] \in Schedules
         /\ Tail(loop.rows) \in Seq(Schedules \X Minutes)
         /\ served[Head(loop.rows)[1]] < loop.current
         /\ \A i, j \in DOMAIN Tail(loop.rows) : Tail(loop.rows)[i][1] = Tail(loop.rows)[j][1] => i = j
         /\ \A i \in DOMAIN Tail(loop.rows) :
               /\ Tail(loop.rows)[i][1] \in Schedules
               /\ Tail(loop.rows)[i][1] # Head(loop.rows)[1]
               /\ served[Tail(loop.rows)[i][1]] < loop.current
<1> DEFINE rows == loop.rows
           rest == Tail(loop.rows)
<1>1. rows \in Seq(Schedules \X Minutes) /\ rows # <<>>
  BY DEF BackupsTypeOK
<1>2. /\ Len(rows) \in Nat /\ Len(rows) >= 1 /\ DOMAIN rows = 1..Len(rows)
      /\ rest \in Seq(Schedules \X Minutes) /\ DOMAIN rest = 1..(Len(rows) - 1)
      /\ Head(rows) = rows[1]
      /\ \A i \in 1..(Len(rows) - 1) : rest[i] = rows[i + 1] /\ i + 1 \in 1..Len(rows)
  BY <1>1
<1>3. \A i \in 1..Len(rows) : rows[i][1] \in Schedules
  BY <1>1
<1>4. /\ \A i, j \in 1..Len(rows) : rows[i][1] = rows[j][1] => i = j
      /\ \A i \in 1..Len(rows) : served[rows[i][1]] < loop.current
  BY <1>2 DEF RowsAhead
<1> HIDE DEF rows, rest
<1>5. 1 \in 1..Len(rows)
  BY <1>2
<1>6. \A i, j \in DOMAIN rest : rest[i][1] = rest[j][1] => i = j
  <2> SUFFICES ASSUME NEW i \in DOMAIN rest, NEW j \in DOMAIN rest, rest[i][1] = rest[j][1] PROVE i = j
    OBVIOUS
  <2>1. i \in Nat /\ j \in Nat /\ i + 1 = j + 1
    BY <1>2, <1>4
  <2> QED BY <2>1
<1>7. ASSUME NEW i \in DOMAIN rest
      PROVE  rest[i][1] \in Schedules /\ rest[i][1] # Head(rows)[1] /\ served[rest[i][1]] < loop.current
  <2>1. i + 1 \in 1..Len(rows) /\ i + 1 # 1 /\ rest[i] = rows[i + 1]
    BY <1>2
  <2> QED BY <1>2, <1>3, <1>4, <1>5, <2>1
<1>8. Head(rows)[1] \in Schedules /\ served[Head(rows)[1]] < loop.current
  BY <1>2, <1>3, <1>4, <1>5
<1> QED
  BY <1>2, <1>6, <1>7, <1>8 DEF rows, rest

\* The rows of a new pass are those of all schedules, none of them begun in
\* this minute.
LEMMA PassBegins ==
  ASSUME BackupsAssumption, BackupsTypeOK, ServedBefore, BeginPass
  PROVE  /\ loop' \in [current : Minutes, rows : Seq(Schedules \X Minutes), run : 0..MaxRuns]
         /\ ServedBefore' /\ RowsAhead'
<1> DEFINE N == Cardinality(Schedules)
           q == SetToSeq(Schedules)
           r == [i \in 1..N |-> <<q[i], lastRun[q[i]]>>]
<1>1. /\ N \in Nat /\ q \in [1..N -> Schedules]
      /\ \A i, j \in 1..N : q[i] = q[j] => i = j
  BY RowsDiffer
<1>2. /\ loop' = [current |-> minute, run |-> 0, rows |-> r]
      /\ loop = Idle /\ minute >= wakes
      /\ UNCHANGED <<minute, wakes, served>>
  BY DEF BeginPass
<1>3. /\ minute \in Minutes /\ minute \in Nat /\ wakes \in Nat /\ MaxRuns \in Nat /\ minute # 0
      /\ lastRun \in [Schedules -> Minutes] /\ served \in [Schedules -> Nat]
  BY DEF BackupsTypeOK, BackupsAssumption, Minutes
<1> HIDE DEF N, q
<1>4. /\ r \in Seq(Schedules \X Minutes) /\ DOMAIN r = 1..N
      /\ \A i \in 1..N : r[i][1] = q[i] /\ q[i] \in Schedules
  BY <1>1, <1>3
<1> HIDE DEF r
<1>5. loop'.current = minute /\ loop'.run = 0 /\ loop'.rows = r /\ loop' # Idle
  BY <1>2, <1>3 DEF Idle
<1>6. loop' \in [current : Minutes, rows : Seq(Schedules \X Minutes), run : 0..MaxRuns]
  BY <1>2, <1>3, <1>4
<1>7. \A s \in Schedules : served[s] < minute
  BY <1>2, <1>3 DEF ServedBefore
<1>8. ServedBefore'
  BY <1>2, <1>3, <1>5 DEF ServedBefore
<1>9. RowsAhead'
  BY <1>1, <1>2, <1>4, <1>5, <1>7 DEF RowsAhead
<1> QED
  BY <1>6, <1>8, <1>9

\* What the visit of a row leaves, and that it begins a schedule which was not
\* begun in this minute.
LEMMA RowVisited ==
  ASSUME BackupsAssumption, BackupInv, VisitRow
  PROVE  BackupInv'
<1> DEFINE s == Head(loop.rows)[1]
           next == [loop EXCEPT !.rows = Tail(loop.rows)]
<1>1. /\ BackupsTypeOK /\ RowsAhead /\ ServedBefore /\ AliveHasRow /\ TimesBounded /\ NewestIsLast
      /\ loop.rows # <<>> /\ loop.run = 0
  BY DEF BackupInv, FilesInv, VisitRow
<1>2. /\ s \in Schedules
      /\ Tail(loop.rows) \in Seq(Schedules \X Minutes)
      /\ served[s] < loop.current
      /\ \A i, j \in DOMAIN Tail(loop.rows) : Tail(loop.rows)[i][1] = Tail(loop.rows)[j][1] => i = j
      /\ \A i \in DOMAIN Tail(loop.rows) :
            /\ Tail(loop.rows)[i][1] \in Schedules
            /\ Tail(loop.rows)[i][1] # s
            /\ served[Tail(loop.rows)[i][1]] < loop.current
  BY <1>1, HeadOfRows
<1>3. /\ loop \in [current : Minutes, rows : Seq(Schedules \X Minutes), run : 0..MaxRuns]
      /\ lastRun \in [Schedules -> Minutes] /\ served \in [Schedules -> Minutes]
      /\ minute \in Nat /\ wakes \in Nat /\ MaxRuns \in Nat
  <2>1. /\ loop \in [current : Minutes, rows : Seq(Schedules \X Minutes), run : 0..MaxRuns]
        /\ lastRun \in [Schedules -> Minutes] /\ served \in [Schedules -> Minutes]
        /\ minute \in 1..LastMinute /\ wakes \in Minutes
    BY <1>1 DEF BackupsTypeOK
  <2>2. minute \in Nat /\ wakes \in Nat /\ MaxRuns \in Nat
    BY <2>1 DEF BackupsAssumption, Minutes
  <2> QED BY <2>1, <2>2
<1>4. loop # Idle /\ loop.current \in Nat /\ loop.current <= minute /\ loop.current # 0
  <2>1. loop # Idle
    BY <1>1 DEF Idle
  <2>2. loop.current \in Nat /\ served[s] \in Nat
    BY <1>2, <1>3 DEF Minutes
  <2> QED BY <1>1, <1>2, <2>1, <2>2 DEF ServedBefore
<1>5. UNCHANGED <<minute, exists, files, wakes, newest>>
  BY DEF VisitRow
<1>6. TimesBounded' /\ NewestIsLast'
  BY <1>1, <1>5 DEF TimesBounded, NewestIsLast
<1> HIDE DEF s
<1>7. ASSUME NEW run \in 0..MaxRuns, loop' = [next EXCEPT !.run = run],
             \/ UNCHANGED served
             \/ served' = [served EXCEPT ![s] = loop.current]
      PROVE  /\ loop' \in [current : Minutes, rows : Seq(Schedules \X Minutes), run : 0..MaxRuns]
             /\ served' \in [Schedules -> Minutes]
             /\ ServedBefore' /\ RowsAhead'
  <2>1. /\ loop' \in [current : Minutes, rows : Seq(Schedules \X Minutes), run : 0..MaxRuns]
        /\ loop'.current = loop.current /\ loop'.rows = Tail(loop.rows)
    BY <1>2, <1>3, <1>7
  <2>2. loop' # Idle
    BY <1>4, <2>1 DEF Idle
  <2>3. served' \in [Schedules -> Minutes]
    BY <1>2, <1>3, <1>7
  <2>4. \A z \in Schedules : z # s => served'[z] = served[z]
    BY <1>2, <1>3, <1>7
  <2>5. served'[s] = served[s] \/ served'[s] = loop.current
    BY <1>2, <1>3, <1>7
  <2>6. \A z \in Schedules : served'[z] <= minute
    BY <1>1, <1>2, <1>4, <2>4, <2>5 DEF ServedBefore
  <2>7. ServedBefore'
    BY <1>1, <1>4, <1>5, <2>1, <2>2, <2>6 DEF ServedBefore
  <2>8. RowsAhead'
    BY <1>2, <2>1, <2>4 DEF RowsAhead
  <2> QED BY <2>1, <2>3, <2>7, <2>8
<1>8. next = [next EXCEPT !.run = 0] /\ 0 \in 0..MaxRuns
  BY <1>1, <1>3
<1>9. CASE loop' = next /\ UNCHANGED <<execution, running, served>>
           /\ (UNCHANGED lastRun \/ lastRun' = [lastRun EXCEPT ![s] = loop.current])
  <2>1. lastRun' \in [Schedules -> Minutes]
    BY <1>2, <1>3, <1>9
  <2>2. /\ loop' \in [current : Minutes, rows : Seq(Schedules \X Minutes), run : 0..MaxRuns]
        /\ ServedBefore' /\ RowsAhead'
    <3>1. loop' = [next EXCEPT !.run = 0] /\ UNCHANGED served
      BY <1>8, <1>9
    <3> HIDE DEF next
    <3> QED BY <1>7, <1>8, <3>1
  <2>3. BackupsTypeOK'
    <3>1. UNCHANGED <<minute, exists, files, wakes, newest, execution, running, served>>
      BY <1>5, <1>9
    <3> HIDE DEF next
    <3> QED BY <1>1, <2>1, <2>2, <3>1 DEF BackupsTypeOK
  <2>4. AliveHasRow'
    BY <1>1, <1>9 DEF AliveHasRow
  <2> QED BY <1>6, <2>2, <2>3, <2>4 DEF BackupInv, FilesInv
<1>10. CASE /\ NewExecution(s)
            /\ loop' = [next EXCEPT !.run = Len(execution) + 1]
            /\ served' = [served EXCEPT ![s] = loop.current]
            /\ UNCHANGED lastRun
  <2>1. /\ execution' \in Seq(RunRow) /\ Len(execution') = Len(execution) + 1
        /\ Len(execution) + 1 \in Runs
        /\ running' \in [Runs -> RunSteps] /\ AliveHasRow'
    BY <1>1, <1>2, <1>10, ExecutionBegins
  <2>2. Len(execution) + 1 \in 0..MaxRuns
    BY <1>3, <2>1 DEF Runs
  <2>3. /\ loop' \in [current : Minutes, rows : Seq(Schedules \X Minutes), run : 0..MaxRuns]
        /\ served' \in [Schedules -> Minutes]
        /\ ServedBefore' /\ RowsAhead'
    <3> HIDE DEF next
    <3> QED BY <1>7, <1>10, <2>2
  <2>4. Len(execution') <= MaxRuns
    BY <1>3, <2>1, <2>2
  <2>5. BackupsTypeOK'
    BY <1>1, <1>5, <1>10, <2>1, <2>3, <2>4 DEF BackupsTypeOK, RunRow, RunSteps
  <2> QED BY <1>6, <2>1, <2>3, <2>5 DEF BackupInv, FilesInv
<1> QED
  BY <1>9, <1>10 DEF VisitRow, s

LEMMA BackupsStep ==
  ASSUME BackupsAssumption, BackupInv, [BackupsNext]_backupVars
  PROVE  BackupInv'
<1>1. /\ BackupsTypeOK /\ RowsAhead /\ ServedBefore /\ FilesInv
      /\ AliveHasRow /\ TimesBounded /\ NewestIsLast
  BY DEF BackupInv, FilesInv
<1>2. /\ loop \in [current : Minutes, rows : Seq(Schedules \X Minutes), run : 0..MaxRuns]
      /\ lastRun \in [Schedules -> Minutes] /\ served \in [Schedules -> Minutes]
      /\ running \in [Runs -> RunSteps]
      /\ minute \in 1..LastMinute /\ wakes \in Minutes
      /\ MaxRuns \in Nat /\ LastMinute \in Nat
  BY <1>1 DEF BackupsTypeOK, BackupsAssumption, RunSteps
<1>3. \* steps that leave the loop alone
      ASSUME UNCHANGED <<minute, loop, wakes, served>>
      PROVE  ServedBefore' /\ RowsAhead'
  BY <1>1, <1>3 DEF ServedBefore, RowsAhead
<1>4. \* steps that leave the files alone
      ASSUME UNCHANGED <<files, newest>>
      PROVE  TimesBounded' /\ NewestIsLast'
  BY <1>1, <1>4 DEF TimesBounded, NewestIsLast
<1>5. ASSUME NEW x \in Runs, Dump(x) PROVE BackupInv'
  <2>1. UNCHANGED <<minute, loop, wakes, served>>
    BY <1>5 DEF Dump
  <2> QED BY <1>1, <1>3, <1>5, <2>1, DumpKeeps DEF BackupInv
<1>6. ASSUME NEW x \in Runs, Prune(x) PROVE BackupInv'
  <2>1. UNCHANGED <<minute, loop, wakes, served>>
    BY <1>6 DEF Prune
  <2> QED BY <1>1, <1>3, <1>6, <2>1, PruneKeeps DEF BackupInv
<1>7. ASSUME NEW x \in Runs, Upload(x) \/ WriteFinished(x) PROVE BackupInv'
  <2>1. UNCHANGED <<minute, exists, lastRun, files, loop, wakes, newest, served>>
    BY <1>7 DEF Upload, WriteFinished
  <2>2. /\ execution' \in Seq(RunRow) /\ Len(execution') = Len(execution)
        /\ running' \in [Runs -> RunSteps] /\ AliveHasRow'
    BY <1>1, <1>7, RunMoves DEF Upload, WriteFinished, Fail, RunSteps
  <2>3. BackupsTypeOK'
    BY <1>1, <2>1, <2>2 DEF BackupsTypeOK, RunRow, RunSteps
  <2> QED BY <1>3, <1>4, <2>1, <2>2, <2>3 DEF BackupInv, FilesInv
<1>8. ASSUME NEW x \in Runs, Stamp(x) PROVE BackupInv'
  <2>1. UNCHANGED <<minute, exists, execution, files, loop, wakes, newest, served>>
    BY <1>8 DEF Stamp
  <2>2. /\ x \in DOMAIN execution /\ execution[x] \in RunRow
        /\ running' \in [Runs -> RunSteps] /\ AliveHasRow'
    BY <1>1, <1>8, RunMoves DEF Stamp, RunSteps
  <2>3. ScheduleOf(x) \in Schedules /\ minute \in Minutes
    BY <1>2, <2>2 DEF ScheduleOf, RunRow, Minutes
  <2>4. lastRun' \in [Schedules -> Minutes]
    BY <1>2, <1>8, <2>3 DEF Stamp
  <2>5. BackupsTypeOK'
    BY <1>1, <2>1, <2>2, <2>4 DEF BackupsTypeOK, RunSteps
  <2> QED BY <1>3, <1>4, <2>1, <2>2, <2>5 DEF BackupInv, FilesInv
<1>9. ASSUME NEW s \in Schedules, ManualRun(s) PROVE BackupInv'
  <2>1. UNCHANGED <<minute, exists, lastRun, files, loop, wakes, newest, served>>
    BY <1>9 DEF ManualRun
  <2>2. /\ execution' \in Seq(RunRow) /\ Len(execution') = Len(execution) + 1
        /\ Len(execution) + 1 \in Runs
        /\ running' \in [Runs -> RunSteps] /\ AliveHasRow'
    BY <1>1, <1>9, ExecutionBegins DEF ManualRun
  <2>3. Len(execution') <= MaxRuns
    BY <2>2, <1>2 DEF Runs
  <2>4. BackupsTypeOK'
    BY <1>1, <2>1, <2>2, <2>3 DEF BackupsTypeOK, RunRow, RunSteps
  <2> QED BY <1>3, <1>4, <2>1, <2>2, <2>4 DEF BackupInv, FilesInv
<1>10. ASSUME NEW d \in Databases, DeleteDatabase(d) PROVE BackupInv'
  <2>1. /\ UNCHANGED <<minute, lastRun, execution, running, files, loop, wakes, newest, served>>
        /\ exists' = exists \ {d}
    BY <1>10 DEF DeleteDatabase
  <2>2. BackupsTypeOK' /\ AliveHasRow'
    BY <1>1, <2>1 DEF BackupsTypeOK, AliveHasRow
  <2> QED BY <1>3, <1>4, <2>1, <2>2 DEF BackupInv, FilesInv
<1>11. CASE BeginPass
  <2>1. UNCHANGED <<minute, exists, lastRun, execution, running, files, wakes, newest, served>>
    BY <1>11 DEF BeginPass
  <2>2. /\ loop' \in [current : Minutes, rows : Seq(Schedules \X Minutes), run : 0..MaxRuns]
        /\ ServedBefore' /\ RowsAhead'
    BY <1>1, <1>11, PassBegins
  <2>3. BackupsTypeOK' /\ AliveHasRow'
    BY <1>1, <2>1, <2>2 DEF BackupsTypeOK, AliveHasRow
  <2> QED BY <1>4, <2>1, <2>2, <2>3 DEF BackupInv, FilesInv
<1>12. CASE VisitRow
  BY <1>12, RowVisited
<1>13. CASE Resume
  <2>1. /\ UNCHANGED <<minute, exists, lastRun, execution, running, files, wakes, newest, served>>
        /\ loop' = [loop EXCEPT !.run = 0] /\ loop.run # 0
    BY <1>13 DEF Resume
  <2>2. /\ loop' \in [current : Minutes, rows : Seq(Schedules \X Minutes), run : 0..MaxRuns]
        /\ loop'.current = loop.current /\ loop'.rows = loop.rows /\ loop # Idle
    <3>1. 0 \in 0..MaxRuns
      BY <1>2
    <3>2. loop # Idle
      BY <2>1 DEF Idle
    <3> QED BY <1>2, <2>1, <3>1, <3>2
  <2>3. loop.current \in 1..minute
    BY <1>1, <2>2 DEF ServedBefore
  <2>4. BackupsTypeOK' /\ AliveHasRow'
    BY <1>1, <2>1, <2>2 DEF BackupsTypeOK, AliveHasRow
  <2>5. loop' # Idle
    BY <1>2, <2>2, <2>3 DEF Idle
  <2>6. ServedBefore' /\ RowsAhead'
    BY <1>1, <2>1, <2>2, <2>3, <2>5 DEF ServedBefore, RowsAhead
  <2> QED BY <1>4, <2>1, <2>4, <2>6 DEF BackupInv, FilesInv
<1>14. CASE EndPass
  <2>1. /\ UNCHANGED <<minute, exists, lastRun, execution, running, files, newest, served>>
        /\ loop' = Idle /\ wakes' = minute + 1
    BY <1>14 DEF EndPass, Wake
  <2>2. /\ loop' \in [current : Minutes, rows : Seq(Schedules \X Minutes), run : 0..MaxRuns]
        /\ loop'.rows = <<>> /\ wakes' \in Minutes
    BY <1>2, <2>1 DEF Idle, Minutes
  <2>3. BackupsTypeOK' /\ AliveHasRow'
    BY <1>1, <2>1, <2>2 DEF BackupsTypeOK, AliveHasRow
  <2>4. \A s \in Schedules : served[s] \in Nat /\ served[s] <= minute
    BY <1>1, <1>2 DEF ServedBefore, Minutes
  <2>5. ServedBefore' /\ RowsAhead'
    BY <1>2, <2>1, <2>2, <2>4 DEF ServedBefore, RowsAhead
  <2> QED BY <1>4, <2>1, <2>3, <2>5 DEF BackupInv, FilesInv
<1>15. CASE Tick
  <2>1. /\ UNCHANGED <<exists, lastRun, execution, running, files, loop, wakes, newest, served>>
        /\ minute < LastMinute /\ minute' = minute + 1
    BY <1>15 DEF Tick
  <2>2. BackupsTypeOK' /\ AliveHasRow' /\ RowsAhead'
    BY <1>1, <1>2, <2>1 DEF BackupsTypeOK, AliveHasRow, RowsAhead
  <2>3. (\A s \in Schedules : served[s] \in Nat) /\ wakes \in Nat /\ loop.current \in Nat
    BY <1>2 DEF Minutes
  <2>4. ServedBefore'
    BY <1>1, <1>2, <2>1, <2>3 DEF ServedBefore
  <2> QED BY <1>4, <2>1, <2>2, <2>4 DEF BackupInv, FilesInv
<1>16. CASE Restart
  <2>1. /\ UNCHANGED <<minute, exists, lastRun, execution, files, newest>>
        /\ loop' = Idle /\ wakes' = minute /\ served' = [s \in Schedules |-> 0]
        /\ running' = [x \in Runs |-> "none"]
    BY <1>16 DEF Restart
  <2>2. /\ loop' \in [current : Minutes, rows : Seq(Schedules \X Minutes), run : 0..MaxRuns]
        /\ loop'.rows = <<>> /\ wakes' \in Minutes /\ served' \in [Schedules -> Minutes]
    BY <1>2, <2>1 DEF Idle, Minutes
  <2>3. BackupsTypeOK' /\ AliveHasRow'
    BY <1>1, <2>1, <2>2 DEF BackupsTypeOK, AliveHasRow
  <2>4. ServedBefore' /\ RowsAhead'
    BY <1>2, <2>1, <2>2 DEF ServedBefore, RowsAhead
  <2> QED BY <1>4, <2>1, <2>3, <2>4 DEF BackupInv, FilesInv
<1>17. CASE UNCHANGED backupVars
  <2>1. BackupsTypeOK' /\ AliveHasRow'
    BY <1>1, <1>17 DEF BackupsTypeOK, AliveHasRow, backupVars
  <2> QED BY <1>3, <1>4, <1>17, <2>1 DEF BackupInv, FilesInv, backupVars
<1> QED
  BY <1>5, <1>6, <1>7, <1>8, <1>9, <1>10, <1>11, <1>12, <1>13, <1>14, <1>15, <1>16, <1>17
     DEF BackupsNext, RunStep, LoopStep, BackupsQuiet

\* The execution that the loop waits for is new, and of the row it visited.
LEMMA BegunOnce ==
  ASSUME BackupsAssumption, BackupInv, [BackupsNext]_backupVars,
         NEW s \in Schedules, loop.run = 0, loop'.run # 0, ScheduleOf(loop.run)' = s
  PROVE  loop.current # served[s]
<1>1. /\ BackupsTypeOK /\ RowsAhead /\ AliveHasRow
      /\ loop \in [current : Minutes, rows : Seq(Schedules \X Minutes), run : 0..MaxRuns]
  BY DEF BackupInv, FilesInv, BackupsTypeOK
<1>2. CASE VisitRow
  <2> DEFINE r == Head(loop.rows)[1]
  <2>1. NewExecution(r) /\ loop'.run = Len(execution) + 1
    BY <1>1, <1>2 DEF VisitRow
  <2>2. r \in Schedules /\ served[r] < loop.current
    BY <1>1, <1>2, HeadOfRows DEF VisitRow
  <2>3. execution'[Len(execution) + 1].schedule = r
    BY <1>1, <2>1, <2>2, ExecutionBegins
  <2>4. s = r
    BY <2>1, <2>3 DEF ScheduleOf
  <2>5. served[r] \in Nat /\ loop.current \in Nat
    BY <1>1, <2>2 DEF BackupsTypeOK, Minutes
  <2> QED BY <2>2, <2>4, <2>5
<1>3. CASE ~VisitRow
  <2>1. loop' = loop \/ loop'.run = 0
    <3>1. CASE BeginPass
      BY <3>1 DEF BeginPass
    <3>2. CASE Resume
      BY <1>1, <3>2 DEF Resume
    <3>3. CASE EndPass \/ Restart
      BY <3>3 DEF EndPass, Restart, Idle
    <3>4. CASE ~(BeginPass \/ Resume \/ EndPass \/ Restart)
      BY <1>3, <3>4 DEF BackupsNext, backupVars, RunStep, LoopStep, BackupsQuiet, Dump, Upload, Prune,
            WriteFinished, Stamp, ManualRun, DeleteDatabase, Tick
    <3> QED BY <3>1, <3>2, <3>3, <3>4
  <2> QED BY <2>1
<1> QED
  BY <1>2, <1>3

\* Whatever runs overlap, fail or die, and whatever retention removes, the
\* artifact of the newest successful dump of a database stays, if its schedules
\* keep what they dump and its files match the pattern of no other database:
\* for any schedules, databases and retentions.
THEOREM NewestStays == BackupsSpec => [](BackupsTypeOK /\ NewestDumpKept)
<1>1. BackupsInit => BackupInv
  BY BackupsInitInv, BackupsAssumption
<1>2. BackupInv /\ [BackupsNext]_backupVars => BackupInv'
  BY BackupsStep, BackupsAssumption
<1>3. BackupInv => BackupsTypeOK /\ NewestDumpKept
  BY DEF BackupInv, FilesInv, NewestIsLast, NewestDumpKept
<1> QED
  BY <1>1, <1>2, <1>3, PTL DEF BackupsSpec

\* The loop begins a schedule once in a minute at most between two starts of
\* the server: a pass has each schedule once, and sleeps into the next minute.
THEOREM BegunOncePerMinute == BackupsSpec => OncePerMinute
<1>1. BackupsInit => BackupInv
  BY BackupsInitInv, BackupsAssumption
<1>2. BackupInv /\ [BackupsNext]_backupVars => BackupInv'
  BY BackupsStep, BackupsAssumption
<1>3. BackupInv /\ [BackupsNext]_backupVars =>
        [\A s \in Schedules : loop.run = 0 /\ loop'.run # 0 /\ ScheduleOf(loop.run)' = s
            => loop.current # served[s]]_backupVars
  BY BegunOnce, BackupsAssumption
<1> QED
  BY <1>1, <1>2, <1>3, PTL DEF BackupsSpec, OncePerMinute

=============================================================================
