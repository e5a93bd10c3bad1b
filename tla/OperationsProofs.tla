-------------------------- MODULE OperationsProofs --------------------------
(* Proofs about what the routes of the platform may do and leave behind:      *)
(* Releases (decisions stand, and as long as releases do not overlap each     *)
(* deploy uses up an approval), Access (no window holds more than its budget) *)
(* and Proxy (a configuration that was applied is served), for any numbers of *)
(* releases, approvals, requests, sessions, hosts and projects and any        *)
(* budgets and windows.                                                       *)
EXTENDS Releases, Access, Proxy, FunctionTheorems, FiniteSetTheorems, WellFoundedInduction,
        TLAPS

(* Releases *)

\* Where a release has not yet issued its deploy.
BeforeIssue ==
    {"new", "environment", "check", "request", "branch", "restore", "issue", "insert"}

\* Where it has been found to be approved.
Checked == {"branch", "restore", "issue", "insert"}

RelTyped ==
    /\ approval \in [Approvals -> ApprovalStatus]
    /\ call \in [Releases -> Suspended \cup {"new", "done"}]
    /\ picked \in [Releases -> Approvals \cup {None}]
    /\ DOMAIN seen = Releases
    /\ queued \subseteq Releases
    /\ overlapped \in BOOLEAN

\* What a release knows at its awaits: it has queued nothing before it issues
\* its deploy, and what it is about to consume was approved.
Local ==
    /\ \A r \in Releases : call[r] \in BeforeIssue => r \notin queued
    /\ \A r \in Releases : call[r] = "write" =>
          picked[r] \in Approvals /\ approval[picked[r]] \in {"approved", "consumed"}

\* A release that is alone finds the approval it has seen.
NoneOverlaps ==
    /\ \A q, r \in UnderWay : q = r
    /\ \A r \in Releases : call[r] \in Checked /\ seen[r].protected
          => Approved # {}
    /\ \A r \in Releases : call[r] = "write" => approval[picked[r]] = "approved"
    /\ Cardinality(queued \ Unpaid) <= Cardinality(Consumed)
    /\ Cardinality(queued) <= Cardinality(Consumed \cup Approved)

RInv == RelTyped /\ Local /\ (~overlapped => NoneOverlaps)

\* Subsets of a finite set are finite, and no larger than what contains them.
LEMMA Smaller ==
    ASSUME NEW U, IsFiniteSet(U), NEW S \in SUBSET U, NEW T \in SUBSET S
    PROVE  /\ IsFiniteSet(S) /\ IsFiniteSet(T)
           /\ Cardinality(S) \in Nat /\ Cardinality(T) \in Nat
           /\ Cardinality(T) <= Cardinality(S)
<1>1. IsFiniteSet(S)
  BY FS_Subset
<1>2. IsFiniteSet(T) /\ Cardinality(T) <= Cardinality(S)
  BY <1>1, FS_Subset
<1> QED BY <1>1, <1>2, FS_CardinalityType

LEMMA Finite == IsFiniteSet(Releases) /\ IsFiniteSet(Approvals) /\ None \notin Approvals
  BY ReleasesAssumption DEF ReleasesAssumption

LEMMA InitRInv == RelInit => RInv
<1> SUFFICES ASSUME RelInit PROVE RInv
  OBVIOUS
<1>1. RelTyped /\ Local
  BY DEF RelInit, RelTyped, Local, ApprovalStatus, Suspended, BeforeIssue
<1>2. UnderWay = {}
  BY DEF RelInit, UnderWay, Suspended
<1>3. Consumed \subseteq Approvals /\ Approved \subseteq Approvals
  BY DEF Consumed, Approved
<1>4. Cardinality(Consumed) \in Nat /\ Cardinality(Consumed \cup Approved) \in Nat
  BY <1>3, Finite, Smaller
<1>5. queued = {} /\ queued \ Unpaid = {}
  BY DEF RelInit
<1>6. Cardinality({}) = 0
  BY FS_EmptySet
<1>7. NoneOverlaps
  BY <1>2, <1>4, <1>5, <1>6 DEF NoneOverlaps, Checked, RelInit
<1> QED BY <1>1, <1>7 DEF RInv

-----------------------------------------------------------------------------
\* A step that moves one release between places at which nothing is unpaid.
LEMMA MoveKeeps ==
    ASSUME RInv, NEW r \in Releases, NEW l \in Suspended \cup {"new", "done"},
           call' = [call EXCEPT ![r] = l], call[r] \in BeforeIssue \ {"new"},
           l \in BeforeIssue \cup {"done"},
           UNCHANGED <<queued, overlapped, picked, approval>>,
           l \in Checked /\ seen'[r].protected => Approved # {},
           DOMAIN seen' = Releases,
           \A q \in Releases : q # r => seen'[q] = seen[q]
    PROVE  RInv'
<1>1. RelTyped' /\ Local'
  BY DEF RInv, RelTyped, Local, BeforeIssue
<1>2. Unpaid' = Unpaid
  BY DEF RInv, RelTyped, Local, Unpaid, BeforeIssue
<1>3. Consumed' = Consumed /\ Approved' = Approved
  BY DEF Consumed, Approved
<1>4. ASSUME ~overlapped' PROVE NoneOverlaps'
  <2>1. NoneOverlaps
    BY <1>4 DEF RInv
  <2>2. UnderWay' \subseteq UnderWay
    BY DEF RInv, RelTyped, UnderWay, BeforeIssue, Suspended
  <2>3. \A q \in Releases : call'[q] \in Checked /\ seen'[q].protected
             => Approved' # {}
    <3> SUFFICES ASSUME NEW q \in Releases,
                        call'[q] \in Checked, seen'[q].protected
                 PROVE  Approved # {}
      BY <1>3
    <3>1. CASE q = r
      BY <3>1 DEF RInv, RelTyped
    <3>2. CASE q # r
      BY <2>1, <3>2 DEF RInv, RelTyped, NoneOverlaps, Checked
    <3> QED BY <3>1, <3>2
  <2>4. \A q \in Releases : call'[q] = "write" => approval'[picked'[q]] = "approved"
    BY <2>1 DEF NoneOverlaps, Checked, RInv, RelTyped, BeforeIssue
  <2>5. Cardinality(queued \ Unpaid)' <= Cardinality(Consumed)'
        /\ Cardinality(queued)' <= Cardinality(Consumed \cup Approved)'
    BY <1>2, <1>3, <2>1 DEF NoneOverlaps, Checked
  <2> QED BY <2>1, <2>2, <2>3, <2>4, <2>5 DEF NoneOverlaps, Checked
<1> QED BY <1>1, <1>4 DEF RInv

\* Requests and decisions add to what is approved and leave the rest alone; a
\* release that asks for an approval ends there.
LEMMA RowsKeep ==
    ASSUME RInv, approval' \in [Approvals -> ApprovalStatus],
           UNCHANGED <<queued, overlapped, picked, seen>>,
           \/ call' = call
           \/ \E r \in Releases : call[r] = "request" /\ call' = [call EXCEPT ![r] = "done"],
           \A a \in Approvals : approval[a] = "approved" => approval'[a] = "approved",
           \A a \in Approvals : approval[a] = "consumed" <=> approval'[a] = "consumed"
    PROVE  RInv'
<1>1. \A q \in Releases : call'[q] = call[q] \/ (call[q] = "request" /\ call'[q] = "done")
  BY DEF RInv, RelTyped
<1>2. RelTyped' /\ Local'
  BY <1>1 DEF RInv, RelTyped, Local, BeforeIssue
<1>3. Consumed' = Consumed /\ Approved \subseteq Approved' /\ Approved' \subseteq Approvals
      /\ Consumed \subseteq Approvals
  BY DEF Consumed, Approved
<1>4. ASSUME ~overlapped' PROVE NoneOverlaps'
  <2>1. NoneOverlaps
    BY <1>4 DEF RInv
  <2>2. Unpaid' = Unpaid /\ UnderWay' \subseteq UnderWay
    BY <1>1 DEF Unpaid, UnderWay, Suspended, RInv, RelTyped
  <2>3. \A q \in Releases : call'[q] = "write" => approval'[picked'[q]] = "approved"
    BY <1>1, <2>1 DEF NoneOverlaps, Checked, RInv, Local
  <2>4. \A q \in Releases : call'[q] \in Checked /\ seen'[q].protected
             => Approved' # {}
    BY <1>1, <1>3, <2>1 DEF NoneOverlaps, Checked
  <2>5. Cardinality(Consumed \cup Approved) \in Nat /\ Cardinality((Consumed \cup Approved)') \in Nat
        /\ Cardinality(Consumed \cup Approved) <= Cardinality((Consumed \cup Approved)')
    BY <1>3, Finite, Smaller
  <2>6. Cardinality(queued) \in Nat
    BY Finite, Smaller DEF RInv, RelTyped
  <2>7. Cardinality(queued)' <= Cardinality((Consumed \cup Approved)')
    BY <2>1, <2>5, <2>6 DEF NoneOverlaps, Checked
  <2> QED BY <1>3, <2>1, <2>2, <2>3, <2>4, <2>7 DEF NoneOverlaps, Checked
<1> QED BY <1>2, <1>4 DEF RInv

LEMMA BeginReleaseKeeps ==
    ASSUME RInv, NEW r \in Releases, BeginRelease(r)
    PROVE  RInv'
<1>1. call' = [call EXCEPT ![r] = "environment"] /\ UNCHANGED <<queued, picked, seen, approval>>
      /\ call[r] = "new" /\ overlapped' = (overlapped \/ UnderWay # {})
  BY DEF BeginRelease, Goto, rows
<1>2. RelTyped' /\ Local'
  BY <1>1 DEF RInv, RelTyped, Local, Suspended, BeforeIssue
<1>3. ASSUME ~overlapped' PROVE NoneOverlaps'
  <2>1. NoneOverlaps /\ UnderWay = {}
    BY <1>1, <1>3 DEF RInv
  <2>2. UnderWay' \subseteq {r}
    BY <1>1, <2>1 DEF RInv, RelTyped, UnderWay
  <2>3. Unpaid' = Unpaid /\ Consumed' = Consumed /\ Approved' = Approved
    BY <1>1 DEF Unpaid, Consumed, Approved, RInv, RelTyped
  <2>4. \A q \in Releases : call'[q] = "write" => approval'[picked'[q]] = "approved"
    BY <1>1, <2>1 DEF NoneOverlaps, Checked, RInv, RelTyped
  <2>5. \A q \in Releases : call'[q] \in Checked /\ seen'[q].protected
             => Approved' # {}
    BY <1>1, <2>1, <2>3 DEF NoneOverlaps, Checked, RInv, RelTyped
  <2> QED BY <1>1, <2>1, <2>2, <2>3, <2>4, <2>5 DEF NoneOverlaps, Checked
<1> QED BY <1>2, <1>3 DEF RInv

\* The deploy that is queued is paid for by an approval that is still there.
LEMMA IssueKeeps ==
    ASSUME RInv, NEW r \in Releases, IssueDeploy(r) \/ IssueTake(r)
    PROVE  RInv'
<1>1. /\ call[r] \in {"issue", "insert"}
      /\ \/ call' = [call EXCEPT ![r] = "done"] /\ queued' = queued
         \/ call' = [call EXCEPT ![r] = "insert"] /\ queued' = queued
         \/ call' = [call EXCEPT ![r] = "consume"] /\ queued' = queued
         \/ /\ call' = [call EXCEPT ![r] = "consume"] /\ queued' = queued \cup {r}
            /\ seen[r].protected
      /\ UNCHANGED <<approval, picked, seen, overlapped>>
  BY DEF IssueDeploy, IssueTake, Goto, AfterIssue, rows
<1>2. RelTyped' /\ Local'
  BY <1>1 DEF RInv, RelTyped, Local, Suspended, BeforeIssue
<1>3. Consumed' = Consumed /\ Approved' = Approved /\ r \notin queued
  BY <1>1 DEF Consumed, Approved, RInv, Local, BeforeIssue
<1>4. (queued \ Unpaid)' = queued \ Unpaid
  BY <1>1, <1>3 DEF Unpaid, RInv, RelTyped
<1>5. ASSUME ~overlapped' PROVE NoneOverlaps'
  <2>1. NoneOverlaps
    BY <1>1, <1>5 DEF RInv
  <2>2. UnderWay' \subseteq UnderWay
    BY <1>1 DEF RInv, RelTyped, UnderWay, Suspended
  <2>3. \A q \in Releases : call'[q] = "write" => approval'[picked'[q]] = "approved"
    BY <1>1, <2>1 DEF NoneOverlaps, Checked, RInv, RelTyped
  <2>4. \A q \in Releases : call'[q] \in Checked /\ seen'[q].protected
             => Approved' # {}
    BY <1>1, <1>3, <2>1 DEF NoneOverlaps, Checked, RInv, RelTyped
  <2>5. Cardinality(queued') <= Cardinality(Consumed \cup Approved)
    <3>1. CASE queued' = queued
      BY <2>1, <3>1 DEF NoneOverlaps, Checked
    <3>2. CASE queued' = queued \cup {r} /\ seen[r].protected
      <4>1. PICK a \in Approved : TRUE
        BY <1>1, <2>1, <3>2 DEF NoneOverlaps, Checked
      <4>2. Unpaid = {}
        BY <1>1, <1>3, <2>1 DEF NoneOverlaps, Checked, UnderWay, Unpaid, Suspended, RInv, RelTyped
      <4>3. Cardinality(queued) <= Cardinality(Consumed)
        BY <2>1, <4>2 DEF NoneOverlaps, Checked
      <4>4. IsFiniteSet(queued) /\ Cardinality(queued) \in Nat
        BY Finite, Smaller DEF RInv, RelTyped
      <4>5. Cardinality(queued \cup {r}) = Cardinality(queued) + 1
        BY <1>3, <4>4, FS_AddElement
      <4>6. Consumed \subseteq Approvals /\ a \in Approvals /\ a \notin Consumed
        BY <4>1 DEF Consumed, Approved
      <4>7. IsFiniteSet(Consumed) /\ Cardinality(Consumed) \in Nat
        BY <4>6, Finite, Smaller
      <4>8. Cardinality(Consumed \cup {a}) = Cardinality(Consumed) + 1
        BY <4>6, <4>7, FS_AddElement
      <4>9. Consumed \cup Approved \subseteq Approvals /\ Consumed \cup {a} \subseteq Consumed \cup Approved
        BY <4>1 DEF Consumed, Approved
      <4>10. Cardinality(Consumed \cup {a}) <= Cardinality(Consumed \cup Approved)
             /\ Cardinality(Consumed \cup Approved) \in Nat
        BY <4>9, Finite, Smaller
      <4> QED BY <3>2, <4>3, <4>4, <4>5, <4>7, <4>8, <4>10
    <3> QED BY <1>1, <3>1, <3>2
  <2> QED BY <1>3, <1>4, <2>1, <2>2, <2>3, <2>4, <2>5 DEF NoneOverlaps, Checked
<1> QED BY <1>2, <1>5 DEF RInv

LEMMA PickKeeps ==
    ASSUME RInv, NEW r \in Releases, PickApproval(r)
    PROVE  RInv'
<1>1. /\ call[r] = "consume"
      /\ \/ Approved = {} /\ call' = [call EXCEPT ![r] = "done"] /\ picked' = picked
         \/ \E a \in Approved : /\ call' = [call EXCEPT ![r] = "write"]
                                /\ picked' = [picked EXCEPT ![r] = a]
      /\ UNCHANGED <<approval, queued, seen, overlapped>>
  BY DEF PickApproval, Goto, Newest, rows
<1>2. RelTyped' /\ Local'
  BY <1>1 DEF RInv, RelTyped, Local, Suspended, BeforeIssue, Approved
<1>3. Consumed' = Consumed /\ Approved' = Approved
  BY <1>1 DEF Consumed, Approved
<1>4. ASSUME ~overlapped' PROVE NoneOverlaps'
  <2>1. NoneOverlaps
    BY <1>1, <1>4 DEF RInv
  <2>2. UnderWay' \subseteq UnderWay
    BY <1>1 DEF RInv, RelTyped, UnderWay, Suspended
  <2>3. \A q \in Releases : call'[q] = "write" => approval'[picked'[q]] = "approved"
    BY <1>1, <2>1 DEF NoneOverlaps, Checked, RInv, RelTyped, Approved
  <2>4. \A q \in Releases : call'[q] \in Checked /\ seen'[q].protected
             => Approved' # {}
    BY <1>1, <1>3, <2>1 DEF NoneOverlaps, Checked, RInv, RelTyped
  <2>5. Cardinality((queued \ Unpaid)') <= Cardinality(Consumed)
    <3>1. CASE Approved = {}
      <4>1. Consumed \cup Approved = Consumed /\ Consumed \subseteq Approvals
        BY <3>1 DEF Consumed
      <4>2. Cardinality(queued) <= Cardinality(Consumed) /\ Cardinality(Consumed) \in Nat
        BY <2>1, <4>1, Finite, Smaller DEF NoneOverlaps, Checked
      <4>3. (queued \ Unpaid)' \subseteq queued
        BY <1>1
      <4>4. Cardinality((queued \ Unpaid)') <= Cardinality(queued) /\ Cardinality(queued) \in Nat
            /\ Cardinality((queued \ Unpaid)') \in Nat
        BY <4>3, Finite, Smaller DEF RInv, RelTyped
      <4> QED BY <4>2, <4>4
    <3>2. CASE Approved # {}
      <4>1. (queued \ Unpaid)' = queued \ Unpaid
        BY <1>1, <3>2 DEF Unpaid, RInv, RelTyped
      <4> QED BY <2>1, <4>1 DEF NoneOverlaps, Checked
    <3> QED BY <3>1, <3>2
  <2>6. Cardinality(queued') <= Cardinality((Consumed \cup Approved)')
    BY <1>1, <1>3, <2>1 DEF NoneOverlaps, Checked
  <2> QED BY <1>3, <2>1, <2>2, <2>3, <2>4, <2>5, <2>6 DEF NoneOverlaps, Checked
<1> QED BY <1>2, <1>4 DEF RInv

LEMMA ConsumeKeeps ==
    ASSUME RInv, NEW r \in Releases, ConsumeApproval(r)
    PROVE  RInv'
<1> DEFINE a == picked[r]
<1>1. /\ call[r] = "write" /\ approval' = [approval EXCEPT ![a] = "consumed"]
      /\ call' = [call EXCEPT ![r] = "done"]
      /\ UNCHANGED <<queued, picked, seen, overlapped>>
  BY DEF ConsumeApproval, Goto
<1>2. a \in Approvals /\ approval[a] \in {"approved", "consumed"}
  BY <1>1 DEF RInv, Local
<1>3. RelTyped' /\ Local'
  BY <1>1, <1>2 DEF RInv, RelTyped, Local, Suspended, BeforeIssue, ApprovalStatus
<1>4. ASSUME ~overlapped' PROVE NoneOverlaps'
  <2>1. NoneOverlaps
    BY <1>1, <1>4 DEF RInv
  <2>2. approval[a] = "approved"
    BY <1>1, <2>1 DEF NoneOverlaps, Checked
  <2>3. UnderWay' = {}
    BY <1>1, <2>1 DEF NoneOverlaps, Checked, RInv, RelTyped, UnderWay, Suspended
  <2>4. \A q \in Releases : call'[q] \notin Suspended
    BY <2>3 DEF UnderWay
  <2>5. Consumed' = Consumed \cup {a} /\ a \notin Consumed
        /\ (Consumed \cup Approved)' = Consumed \cup Approved
    BY <1>1, <1>2, <2>2 DEF Consumed, Approved, RInv, RelTyped
  <2>6. Consumed \subseteq Approvals
    BY DEF Consumed
  <2>7. IsFiniteSet(Consumed) /\ Cardinality(Consumed) \in Nat
    BY <2>6, Finite, Smaller
  <2>8. Cardinality(Consumed') = Cardinality(Consumed) + 1
    BY <2>5, <2>7, FS_AddElement
  <2>9. (queued \ Unpaid)' \subseteq (queued \ Unpaid) \cup {r}
    BY <1>1 DEF Unpaid, RInv, RelTyped
  <2>10. IsFiniteSet(queued \ Unpaid) /\ Cardinality(queued \ Unpaid) \in Nat
    BY Finite, Smaller DEF RInv, RelTyped
  <2>11. IsFiniteSet((queued \ Unpaid) \cup {r})
         /\ Cardinality((queued \ Unpaid) \cup {r}) <= Cardinality(queued \ Unpaid) + 1
    BY <2>10, FS_AddElement
  <2>12. Cardinality((queued \ Unpaid)') <= Cardinality((queued \ Unpaid) \cup {r})
         /\ Cardinality((queued \ Unpaid)') \in Nat
         /\ Cardinality((queued \ Unpaid) \cup {r}) \in Nat
    BY <2>9, <2>11, Smaller
  <2>13. Cardinality((queued \ Unpaid)') <= Cardinality(Consumed')
    BY <2>1, <2>7, <2>8, <2>10, <2>11, <2>12 DEF NoneOverlaps, Checked
  <2>14. Cardinality(queued') <= Cardinality((Consumed \cup Approved)')
    BY <1>1, <2>1, <2>5 DEF NoneOverlaps, Checked
  <2> QED BY <2>3, <2>4, <2>13, <2>14 DEF NoneOverlaps, Checked, Suspended
<1> QED BY <1>3, <1>4 DEF RInv

-----------------------------------------------------------------------------
LEMMA NextRInv == RInv /\ [RelNext]_relVars => RInv'
<1> SUFFICES ASSUME RInv, [RelNext]_relVars PROVE RInv'
  OBVIOUS
<1>1. ASSUME NEW r \in Releases, ReleaseStep(r) PROVE RInv'
  <2>1. CASE ReadEnvironment(r)
    <3>1. /\ call[r] = "environment"
          /\ \E l \in {"check", "done"} : call' = [call EXCEPT ![r] = l]
          /\ seen' = seen \/ seen' = [seen EXCEPT ![r] = Ensured]
          /\ UNCHANGED <<approval, picked, queued, overlapped>>
      BY <2>1 DEF ReadEnvironment, Goto
    <3>2. DOMAIN seen' = Releases /\ \A q \in Releases : q # r => seen'[q] = seen[q]
      BY <3>1 DEF RInv, RelTyped
    <3>3. PICK l \in {"check", "done"} : call' = [call EXCEPT ![r] = l]
      BY <3>1
    <3>4. /\ l \in Suspended \cup {"new", "done"} /\ l \in BeforeIssue \cup {"done"}
          /\ l \notin Checked /\ call[r] \in BeforeIssue \ {"new"}
      BY <3>1, <3>3 DEF BeforeIssue, Suspended, Checked
    <3> QED BY <3>1, <3>2, <3>3, <3>4, MoveKeeps
  <2>2. CASE CheckApproval(r)
    <3>1. /\ call[r] = "check"
          /\ \/ call' = [call EXCEPT ![r] = "branch"] /\ (seen[r].protected => Approved # {})
             \/ call' = [call EXCEPT ![r] = "request"]
          /\ UNCHANGED <<approval, picked, queued, overlapped, seen>> /\ DOMAIN seen = Releases
      BY <2>2 DEF CheckApproval, MayRelease, Goto, rows, RInv, RelTyped
    <3> QED BY <3>1, MoveKeeps DEF BeforeIssue, Suspended, Checked
  <2>3. CASE CheckBranch(r) \/ RestorePoint(r)
    <3>1. /\ call[r] \in {"branch", "restore"}
          /\ \E l \in {"restore", "issue", "done"} : call' = [call EXCEPT ![r] = l]
          /\ UNCHANGED <<approval, picked, queued, overlapped, seen>> /\ DOMAIN seen = Releases
      BY <2>3 DEF CheckBranch, RestorePoint, Goto, rows, RInv, RelTyped
    <3>2. PICK l \in {"restore", "issue", "done"} : call' = [call EXCEPT ![r] = l]
      BY <3>1
    <3>3. CASE overlapped
      <4>1. RelTyped' /\ Local' /\ overlapped'
        BY <3>1, <3>2, <3>3 DEF RInv, RelTyped, Local, BeforeIssue, Suspended
      <4> QED BY <4>1 DEF RInv
    <3>4. CASE ~overlapped
      <4>1. seen'[r].protected => Approved # {}
        BY <3>1, <3>4 DEF RInv, NoneOverlaps, Checked
      <4> QED BY <3>1, <3>2, <4>1, MoveKeeps DEF BeforeIssue, Suspended
    <3> QED BY <3>3, <3>4
  <2>4. ASSUME NEW b \in Approvals, AskApproval(r, b) PROVE RInv'
    <3>1. /\ call[r] = "request" /\ call' = [call EXCEPT ![r] = "done"]
          /\ approval[b] = "none" /\ approval' = [approval EXCEPT ![b] = "pending"]
          /\ UNCHANGED <<picked, queued, overlapped, seen>>
      BY <2>4 DEF AskApproval, NewRequest, Insert, Goto
    <3>2. /\ approval' \in [Approvals -> ApprovalStatus]
          /\ \A a \in Approvals : approval[a] = "approved" => approval'[a] = "approved"
          /\ \A a \in Approvals : approval[a] = "consumed" <=> approval'[a] = "consumed"
      BY <3>1 DEF RInv, RelTyped, ApprovalStatus
    <3> QED BY <3>1, <3>2, RowsKeep
  <2> QED BY <1>1, <2>1, <2>2, <2>3, <2>4, BeginReleaseKeeps, IssueKeeps, PickKeeps, ConsumeKeeps
          DEF ReleaseStep
<1>2. ASSUME NEW b \in Approvals, RequestApproval(b) PROVE RInv'
  <2>1. /\ approval[b] = "none" /\ approval' = [approval EXCEPT ![b] = "pending"]
        /\ UNCHANGED <<call, picked, queued, overlapped, seen>>
    BY <1>2 DEF RequestApproval, NewRequest, Insert, locals
  <2>2. /\ approval' \in [Approvals -> ApprovalStatus]
        /\ \A a \in Approvals : approval[a] = "approved" => approval'[a] = "approved"
        /\ \A a \in Approvals : approval[a] = "consumed" <=> approval'[a] = "consumed"
    BY <2>1 DEF RInv, RelTyped, ApprovalStatus
  <2> QED BY <2>1, <2>2, RowsKeep
<1>3. ASSUME NEW b \in Approvals, NEW v \in {"approved", "rejected"}, DecideApproval(b, v)
      PROVE  RInv'
  <2>1. /\ approval[b] = "pending" /\ approval' = [approval EXCEPT ![b] = v]
        /\ UNCHANGED <<call, picked, queued, overlapped, seen>>
    BY <1>3 DEF DecideApproval, Decidable, locals
  <2>2. /\ approval' \in [Approvals -> ApprovalStatus]
        /\ \A a \in Approvals : approval[a] = "approved" => approval'[a] = "approved"
        /\ \A a \in Approvals : approval[a] = "consumed" <=> approval'[a] = "consumed"
    BY <2>1 DEF RInv, RelTyped, ApprovalStatus
  <2> QED BY <2>1, <2>2, RowsKeep
<1>4. CASE \/ \E p, m \in BOOLEAN : UpdateEnvironment(p, m)
           \/ DropProject \/ Recreate \/ OtherDeploy \/ OtherTake \/ DeployEnds \/ RelQuiet
           \/ UNCHANGED relVars
  <2>1. UNCHANGED <<approval, call, picked, seen, queued, overlapped>>
    <3>1. CASE \E p, m \in BOOLEAN : UpdateEnvironment(p, m)
      BY <3>1 DEF UpdateEnvironment, locals
    <3>2. CASE DropProject \/ Recreate \/ OtherDeploy \/ OtherTake
      BY <3>2 DEF DropProject, Recreate, OtherDeploy, OtherTake, rows, locals
    <3>3. CASE DeployEnds \/ RelQuiet \/ UNCHANGED relVars
      BY <3>3 DEF DeployEnds, RelQuiet, relVars, rows, locals
    <3> QED BY <1>4, <3>1, <3>2, <3>3
  <2>2. approval' \in [Approvals -> ApprovalStatus]
    BY <2>1 DEF RInv, RelTyped
  <2> QED BY <2>1, <2>2, RowsKeep
<1> QED BY <1>1, <1>2, <1>3, <1>4 DEF RelNext

\* As long as releases do not overlap, every protected release that queued a
\* deploy has used up an approval of its own (the deploy route checks, issues
\* and consumes in three steps, with decisions and other deploys in between).
THEOREM ApprovalsUsedOnce == RelSpec => []SingleUse
<1>1. RInv => SingleUse
  BY DEF RInv, NoneOverlaps, Checked, SingleUse
<1> QED BY <1>1, InitRInv, NextRInv, PTL DEF RelSpec

\* No step undoes a decision, and only what was approved is ever consumed
\* (decide_approval tests the status in its UPDATE; consume_approved_release
\* does not, and relies on the row it selected before an await).
THEOREM DecisionsFinal == RelSpec => DecisionStands
<1> DEFINE Stands(a) ==
       /\ approval[a] \in {"rejected", "consumed"} => approval'[a] = approval[a]
       /\ approval[a] = "approved" => approval'[a] \in {"approved", "consumed"}
       /\ approval[a] \in {"none", "pending"} => approval'[a] # "consumed"
<1>1. ASSUME RInv, [RelNext]_relVars PROVE [\A a \in Approvals : Stands(a)]_relVars
  <2>1. ASSUME NEW r \in Releases, ConsumeApproval(r) PROVE \A a \in Approvals : Stands(a)
    BY <1>1, <2>1 DEF ConsumeApproval, RInv, Local, RelTyped, ApprovalStatus
  <2>2. ASSUME NEW r \in Releases, NEW b \in Approvals, AskApproval(r, b)
        PROVE  \A a \in Approvals : Stands(a)
    BY <1>1, <2>2 DEF AskApproval, NewRequest, Insert, RInv, RelTyped, ApprovalStatus
  <2>3. ASSUME NEW b \in Approvals, RequestApproval(b) PROVE \A a \in Approvals : Stands(a)
    BY <1>1, <2>3 DEF RequestApproval, NewRequest, Insert, RInv, RelTyped, ApprovalStatus
  <2>4. ASSUME NEW b \in Approvals, NEW v \in {"approved", "rejected"}, DecideApproval(b, v)
        PROVE  \A a \in Approvals : Stands(a)
    BY <1>1, <2>4 DEF DecideApproval, Decidable, RInv, RelTyped, ApprovalStatus
  <2>5. ASSUME approval' = approval PROVE \A a \in Approvals : Stands(a)
    BY <2>5
  <2>6. ASSUME NEW r \in Releases, ReleaseStep(r)
        PROVE  \/ ConsumeApproval(r) \/ (\E b \in Approvals : AskApproval(r, b))
               \/ approval' = approval
    BY <2>6 DEF ReleaseStep, BeginRelease, ReadEnvironment, CheckApproval, CheckBranch,
                RestorePoint, IssueDeploy, IssueTake, PickApproval, rows
  <2>7. ASSUME \/ \E p, m \in BOOLEAN : UpdateEnvironment(p, m)
               \/ DropProject \/ Recreate \/ OtherDeploy \/ OtherTake \/ DeployEnds \/ RelQuiet
        PROVE  approval' = approval
    <3>1. CASE \E p, m \in BOOLEAN : UpdateEnvironment(p, m)
      BY <3>1 DEF UpdateEnvironment
    <3>2. CASE DropProject \/ Recreate \/ OtherDeploy \/ OtherTake
      BY <3>2 DEF DropProject, Recreate, OtherDeploy, OtherTake, rows
    <3>3. CASE DeployEnds \/ RelQuiet
      BY <3>3 DEF DeployEnds, RelQuiet, relVars, rows
    <3> QED BY <2>7, <3>1, <3>2, <3>3
  <2> QED BY <1>1, <2>1, <2>2, <2>3, <2>4, <2>5, <2>6, <2>7 DEF RelNext
<1> QED BY <1>1, InitRInv, NextRInv, PTL DEF RelSpec, DecisionStands

-----------------------------------------------------------------------------
(* Types of releases *)

\* A finite set of numbers has a greatest one: a smallest set without one
\* would have one but for one of its members.
LEMMA Greatest ==
  ASSUME NEW T \in SUBSET Nat, IsFiniteSet(T), T # {}
  PROVE  \E x \in T : \A y \in T : y <= x
<1> DEFINE Topped(U) == \E x \in U : \A y \in U : y <= x
           Sizes == {n \in Nat : \E U \in SUBSET Nat : IsFiniteSet(U) /\ U # {} /\ Cardinality(U) = n /\ ~Topped(U)}
           Less == OpToRel(<, Nat)
<1>1. SUFFICES ASSUME Sizes # {} PROVE FALSE
  <2>1. Cardinality(T) \in Nat
    BY FS_CardinalityType
  <2> QED BY <1>1, <2>1
<1>2. PICK n \in Sizes : \A m \in Sizes : <<m, n>> \notin Less
  <2>1. IsWellFoundedOn(Less, Nat)
    BY NatLessThanWellFounded DEF OpToRel
  <2> HIDE DEF Less, Topped
  <2> QED BY <1>1, <2>1, WFMin
<1>3. PICK U \in SUBSET Nat : IsFiniteSet(U) /\ U # {} /\ Cardinality(U) = n /\ ~Topped(U)
  BY <1>2
<1>4. PICK u \in U : TRUE
  BY <1>3
<1>5. IsFiniteSet(U \ {u}) /\ Cardinality(U \ {u}) = n - 1 /\ n - 1 \in Nat
  <2>1. IsFiniteSet(U \ {u}) /\ Cardinality(U \ {u}) = n - 1
    BY <1>3, <1>4, FS_RemoveElement
  <2> QED BY <2>1, FS_CardinalityType
<1>6. CASE U \ {u} = {}
  <2>1. \A y \in U : y <= u
    BY <1>4, <1>6
  <2> QED BY <1>3, <1>4, <2>1
<1>7. CASE U \ {u} # {}
  <2>1. n - 1 \notin Sizes
    <3>0. n \in Nat
      BY <1>3, FS_CardinalityType
    <3>1. n - 1 < n /\ n - 1 \in Nat
      BY <1>5, <3>0
    <3>2. <<n - 1, n>> \in Less
      BY <3>0, <3>1 DEF OpToRel
    <3> HIDE DEF Less, Sizes
    <3> QED BY <1>2, <3>2
  <2>2. Topped(U \ {u})
    <3>1. SUFFICES ASSUME ~Topped(U \ {u}) PROVE n - 1 \in Sizes
      BY <2>1
    <3>2. PICK V : V = U \ {u}
      OBVIOUS
    <3>3. V \in SUBSET Nat /\ IsFiniteSet(V) /\ V # {} /\ Cardinality(V) = n - 1 /\ ~Topped(V)
      BY <1>3, <1>5, <1>7, <3>1, <3>2
    <3> HIDE DEF Topped
    <3> QED BY <1>5, <3>3
  <2>3. PICK x \in U \ {u} : \A y \in U \ {u} : y <= x
    BY <2>2
  <2>4. CASE u <= x
    <3>1. \A y \in U : y <= x
      BY <2>3, <2>4
    <3> QED BY <1>3, <2>3, <3>1
  <2>5. CASE ~(u <= x)
    <3>1. \A y \in U : y <= u
      BY <1>4, <2>3, <2>5
    <3> QED BY <1>3, <1>4, <3>1
  <2> QED BY <2>4, <2>5
<1> QED BY <1>6, <1>7

LEMMA InitRelTyped == RelInit => RelTypeOK
<1> SUFFICES ASSUME RelInit PROVE RelTypeOK
  OBVIOUS
<1>1. project \in BOOLEAN /\ busy \in BOOLEAN /\ overlapped \in BOOLEAN /\ entering \in Nat
  BY DEF RelInit
<1>2. Absent \in Environment
  BY DEF Absent, Environment
<1>3. 0 \in 0..MaxOthers /\ 0 \in 0..MaxEdits
  BY ReleasesAssumption DEF ReleasesAssumption
<1>4. /\ approval \in [Approvals -> ApprovalStatus] /\ decided \in [Approvals -> Nat]
      /\ call \in [Releases -> Suspended \cup {"new", "done"}]
      /\ seen \in [Releases -> Environment] /\ picked \in [Releases -> Approvals \cup {None}]
  BY <1>2 DEF RelInit, ApprovalStatus
<1> QED BY <1>1, <1>2, <1>3, <1>4 DEF RelInit, RelTypeOK

LEMMA EnsuredTyped == ASSUME RelTypeOK PROVE Ensured \in Environment
  BY DEF RelTypeOK, Ensured, Environment

LEMMA NextRelTyped == RelTypeOK /\ [RelNext]_relVars => RelTypeOK'
<1> SUFFICES ASSUME RelTypeOK, [RelNext]_relVars PROVE RelTypeOK'
  OBVIOUS
<1>1. ASSUME NEW r \in Releases, ReleaseStep(r) PROVE RelTypeOK'
  <2>1. CASE BeginRelease(r)
    BY <2>1 DEF BeginRelease, engine, RelTypeOK, Goto, Suspended, rows
  <2>2. CASE ReadEnvironment(r)
    BY <2>2, EnsuredTyped DEF ReadEnvironment, engine, RelTypeOK, Goto, Suspended
  <2>3. CASE CheckApproval(r) \/ CheckBranch(r) \/ RestorePoint(r)
    BY <2>3 DEF CheckApproval, engine, CheckBranch, RestorePoint, RelTypeOK, Goto, Suspended, rows
  <2>4. CASE IssueDeploy(r)
    BY <2>4 DEF IssueDeploy, AfterIssue, RelTypeOK, Goto, Suspended, rows, engine
  <2>8. CASE IssueTake(r)
    BY <2>8 DEF IssueTake, AfterIssue, RelTypeOK, Goto, Suspended, rows
  <2>5. CASE PickApproval(r)
    BY <2>5 DEF PickApproval, engine, Newest, Approved, RelTypeOK, Goto, Suspended, rows
  <2>6. CASE ConsumeApproval(r)
    BY <2>6 DEF ConsumeApproval, engine, RelTypeOK, Goto, Suspended, ApprovalStatus
  <2>7. CASE \E a \in Approvals : AskApproval(r, a)
    BY <2>7 DEF AskApproval, engine, NewRequest, RelTypeOK, Goto, Suspended, ApprovalStatus
  <2> QED BY <1>1, <2>1, <2>2, <2>3, <2>4, <2>5, <2>6, <2>7, <2>8 DEF ReleaseStep
<1>2. ASSUME NEW a \in Approvals, RequestApproval(a) PROVE RelTypeOK'
  BY <1>2, EnsuredTyped DEF RequestApproval, engine, NewRequest, RelTypeOK, ApprovalStatus, locals
<1>3. ASSUME NEW a \in Approvals, NEW v \in {"approved", "rejected"}, DecideApproval(a, v)
      PROVE  RelTypeOK'
  <2> DEFINE T == {decided[b] : b \in Approvals}
  <2>1. T \in SUBSET Nat /\ T # {} /\ IsFiniteSet(T)
    <3>1. decided \in [Approvals -> T] /\ \A t \in T : \E b \in Approvals : decided[b] = t
      BY DEF RelTypeOK
    <3>2. decided \in Surjection(Approvals, T)
      BY <3>1 DEF Surjection
    <3>3. IsFiniteSet(T)
      <4> HIDE DEF T
      <4> QED BY <3>2, ReleasesAssumption, FS_Surjection DEF ReleasesAssumption
    <3> QED BY <3>3 DEF RelTypeOK
  <2>2. Max(T) \in Nat
    <3> HIDE DEF T
    <3>1. \E x \in T : \A y \in T : y <= x
      BY <2>1, Greatest
    <3> QED BY <2>1, <3>1 DEF Max
  <2>3. decided' \in [Approvals -> Nat]
    BY <1>3, <2>2 DEF DecideApproval, engine, RelTypeOK
  <2>4. approval' \in [Approvals -> ApprovalStatus]
    BY <1>3 DEF DecideApproval, engine, RelTypeOK, ApprovalStatus
  <2> QED BY <1>3, <2>3, <2>4 DEF DecideApproval, engine, RelTypeOK, locals
<1>4. ASSUME NEW p \in BOOLEAN, NEW m \in BOOLEAN, UpdateEnvironment(p, m) PROVE RelTypeOK'
  <2>1. environment' \in Environment
    BY <1>4 DEF UpdateEnvironment, RelTypeOK, engine, Environment
  <2>2. edits' \in 0..MaxEdits
    BY <1>4, ReleasesAssumption DEF ReleasesAssumption, UpdateEnvironment, RelTypeOK
  <2> QED BY <1>4, <2>1, <2>2 DEF UpdateEnvironment, RelTypeOK, locals, engine
<1>5. CASE DropProject \/ Recreate
  <2>1. edits' \in 0..MaxEdits
    BY <1>5, ReleasesAssumption DEF ReleasesAssumption, DropProject, Recreate, RelTypeOK
  <2>2. project' \in BOOLEAN
    BY <1>5 DEF DropProject, Recreate
  <2> QED BY <1>5, <2>1, <2>2 DEF DropProject, Recreate, RelTypeOK, engine, locals
<1>6. CASE OtherDeploy \/ OtherTake \/ DeployEnds
  <2>1. others' \in 0..MaxOthers
    BY <1>6, ReleasesAssumption
       DEF ReleasesAssumption, OtherDeploy, OtherTake, DeployEnds, RelTypeOK
  <2>2. busy' \in BOOLEAN
    <3>1. busy' = busy \/ busy' = TRUE \/ busy' = FALSE
      BY <1>6 DEF OtherDeploy, OtherTake, DeployEnds
    <3> QED BY <3>1 DEF RelTypeOK
  <2>3. entering' \in Nat
    <3>1. entering \in Nat
      BY DEF RelTypeOK
    <3>2. \/ entering' = entering
          \/ entering' = entering + 1
          \/ entering > 0 /\ entering' = entering - 1
      BY <1>6 DEF OtherDeploy, OtherTake, DeployEnds
    <3> QED BY <3>1, <3>2
  <2> QED BY <1>6, <2>1, <2>2, <2>3 DEF OtherDeploy, OtherTake, DeployEnds, RelTypeOK, locals, rows
<1>7. CASE RelQuiet \/ UNCHANGED relVars
  BY <1>7 DEF RelQuiet, engine, relVars, RelTypeOK, locals, rows
<1> QED BY <1>1, <1>2, <1>3, <1>4, <1>5, <1>6, <1>7 DEF RelNext

\* Every row and every local variable of releases keeps its type.
THEOREM ReleasesTyped == RelSpec => []RelTypeOK
  BY InitRelTyped, NextRelTyped, PTL DEF RelSpec

-----------------------------------------------------------------------------
(* Access *)

\* What the deques know of the admitted requests: every fresh one is counted,
\* and what is counted stays within the budgets.
Counting ==
    /\ Fresh(at) \subseteq hits
    /\ \A k \in {Plain, Elevated} : Cardinality({r \in hits : LimitOf(r) <= k}) <= k
    /\ Fresh(countedAt) \subseteq counted
    /\ Cardinality(counted) <= TokenBudget

WTyped ==
    /\ now \in Nat
    /\ asked \in [Requests -> [kind : {"page", "token", "session"}, session : Sessions,
                               pc : {"new", "lookup", "enforce", "done"}]]
    /\ hits \subseteq Requests /\ counted \subseteq Requests
    /\ at \in [Requests -> Nat] /\ countedAt \in [Requests -> Nat]

WInv == WTyped /\ Counting

\* Subsets of the requests are finite, and no larger than what contains them.
LEMMA Subsets ==
    ASSUME NEW S \in SUBSET Requests, NEW T \in SUBSET S
    PROVE  /\ IsFiniteSet(S) /\ IsFiniteSet(T)
           /\ Cardinality(S) \in Nat /\ Cardinality(T) \in Nat
           /\ Cardinality(T) <= Cardinality(S)
<1>1. IsFiniteSet(S)
  BY AccessAssumption, FS_Subset DEF AccessAssumption
<1>2. IsFiniteSet(T) /\ Cardinality(T) <= Cardinality(S)
  BY <1>1, FS_Subset
<1> QED BY <1>1, <1>2, FS_CardinalityType

\* One more element makes a set larger by one at most.
LEMMA OneMore ==
    ASSUME NEW S \in SUBSET Requests, NEW r \in Requests
    PROVE  Cardinality(S \cup {r}) <= Cardinality(S) + 1
<1>1. IsFiniteSet(S)
  BY Subsets
<1> QED BY <1>1, Subsets, FS_AddElement

\* No request changes its kind, and with it its budget.
LEMMA SameLimit ==
    ASSUME WTyped, NEW r \in Requests, NEW p, PcTo(r, p), NEW q \in Requests
    PROVE  LimitOf(q)' = LimitOf(q)
<1>1. asked'[q].kind = asked[q].kind
  BY DEF PcTo, WTyped
<1> QED BY <1>1 DEF LimitOf

LEMMA LimitTyped ==
    ASSUME NEW r \in Requests
    PROVE  LimitOf(r) \in {Plain, Elevated}
BY DEF LimitOf

LEMMA BudgetsTyped == Plain \in Nat /\ Elevated \in Nat /\ TokenBudget \in Nat /\ Window \in Nat
BY AccessAssumption DEF AccessAssumption

LEMMA InitWInv == AccessInit => WInv
<1> SUFFICES ASSUME AccessInit PROVE WInv
  OBVIOUS
<1>1. WTyped
  <2>1. Kinds \subseteq {"page", "token", "session"}
    BY AccessAssumption DEF AccessAssumption
  <2> QED BY <2>1 DEF AccessInit, WTyped
<1>2. Fresh(at) = {} /\ Fresh(countedAt) = {}
  BY DEF AccessInit, Fresh
<1>3. Cardinality({}) = 0
  BY FS_EmptySet
<1>4. \A k \in {Plain, Elevated} : {r \in hits : LimitOf(r) <= k} = {}
  BY DEF AccessInit
<1>5. Counting
  BY <1>2, <1>3, <1>4, BudgetsTyped DEF Counting, AccessInit
<1> QED BY <1>1, <1>5 DEF WInv

\* A deque that is cut to its recent part and extended by a request keeps
\* every fresh request.
LEMMA FreshKept ==
    ASSUME NEW now1 \in Nat, now = now1,
           NEW set \in SUBSET Requests, NEW time \in [Requests -> Nat],
           NEW r \in Requests, Fresh(time) \subseteq set
    PROVE  /\ Fresh(time) \subseteq Recent(set, time)
           /\ Fresh([time EXCEPT ![r] = now]) \subseteq Recent(set, time) \cup {r}
BY DEF Fresh, Recent

LEMMA AllowKeeps ==
    ASSUME WInv, NEW r \in Requests, Allow(r)
    PROVE  WInv'
<1> DEFINE recent == Recent(hits, at)
<1> USE DEF WInv
<1>1. recent \subseteq hits /\ recent \in SUBSET Requests
  BY DEF Recent, WTyped
<1>2. PICK p \in {"lookup", "enforce", "done"} : PcTo(r, p)
  BY DEF Allow, Next2, WTyped
<1>3. now' = now /\ counted' = counted /\ countedAt' = countedAt
  BY DEF Allow
<1>4. asked' \in [Requests -> [kind : {"page", "token", "session"}, session : Sessions,
                               pc : {"new", "lookup", "enforce", "done"}]]
  BY <1>2 DEF PcTo, WTyped
<1>5. /\ Fresh(at) \subseteq recent
      /\ Fresh([at EXCEPT ![r] = now]) \subseteq recent \cup {r}
  BY FreshKept DEF WTyped, Counting
<1>6. \A q \in Requests : LimitOf(q)' = LimitOf(q)
  BY <1>2, SameLimit
<1>7. ASSUME NEW k \in {Plain, Elevated}
      PROVE  Cardinality({q \in recent : LimitOf(q) <= k}) <= k
  <2>1. {q \in recent : LimitOf(q) <= k} \subseteq {q \in hits : LimitOf(q) <= k}
    BY <1>1
  <2>2. {q \in hits : LimitOf(q) <= k} \in SUBSET Requests
    BY DEF WTyped
  <2>3. /\ Cardinality({q \in recent : LimitOf(q) <= k}) <= Cardinality({q \in hits : LimitOf(q) <= k})
        /\ Cardinality({q \in recent : LimitOf(q) <= k}) \in Nat
        /\ Cardinality({q \in hits : LimitOf(q) <= k}) \in Nat
    BY <2>1, <2>2, Subsets
  <2>4. Cardinality({q \in hits : LimitOf(q) <= k}) <= k
    BY DEF Counting
  <2> QED BY <2>3, <2>4, BudgetsTyped
<1>8. Fresh(countedAt)' = Fresh(countedAt)
  BY <1>3 DEF Fresh
<1>9. CASE HasRoom(recent, LimitOf(r)) /\ hits' = recent \cup {r} /\ at' = [at EXCEPT ![r] = now]
  <2>1. WTyped'
    BY <1>1, <1>3, <1>4, <1>9 DEF WTyped
  <2>2. Fresh(at)' \subseteq hits'
    BY <1>3, <1>5, <1>9 DEF Fresh
  <2>3. ASSUME NEW k \in {Plain, Elevated}
        PROVE  Cardinality({q \in hits' : LimitOf(q)' <= k}) <= k
    <3> DEFINE old == {q \in recent : LimitOf(q) <= k}
               new == {q \in hits' : LimitOf(q)' <= k}
    <3>1. CASE LimitOf(r) <= k
      <4>1. new \subseteq recent \cup {r}
        BY <1>9
      <4>2. recent \cup {r} \in SUBSET Requests
        BY <1>1
      <4>3. /\ Cardinality(new) <= Cardinality(recent \cup {r})
            /\ Cardinality(new) \in Nat /\ Cardinality(recent \cup {r}) \in Nat
        BY <4>1, <4>2, Subsets
      <4>4. Cardinality(recent \cup {r}) <= Cardinality(recent) + 1 /\ Cardinality(recent) \in Nat
        BY <1>1, OneMore, Subsets
      <4>5. Cardinality(recent) < LimitOf(r)
        BY <1>9 DEF HasRoom
      <4> QED BY <3>1, <4>3, <4>4, <4>5, LimitTyped, BudgetsTyped
    <3>2. CASE ~(LimitOf(r) <= k)
      <4>1. new = old
        BY <1>1, <1>6, <1>9, <3>2
      <4> QED BY <4>1, <1>7
    <3> QED BY <3>1, <3>2
  <2>4. Counting'
    BY <1>3, <1>8, <2>2, <2>3 DEF Counting
  <2> QED BY <2>1, <2>4
<1>10. CASE hits' = recent /\ at' = at
  <2>1. WTyped'
    BY <1>1, <1>3, <1>4, <1>10 DEF WTyped
  <2>2. Fresh(at)' \subseteq hits'
    BY <1>3, <1>5, <1>10 DEF Fresh
  <2>3. ASSUME NEW k \in {Plain, Elevated}
        PROVE  Cardinality({q \in hits' : LimitOf(q)' <= k}) <= k
    <3>1. {q \in hits' : LimitOf(q)' <= k} = {q \in recent : LimitOf(q) <= k}
      BY <1>1, <1>6, <1>10
    <3> QED BY <3>1, <1>7
  <2>4. Counting'
    BY <1>3, <1>8, <2>2, <2>3 DEF Counting
  <2> QED BY <2>1, <2>4
<1> QED BY <1>9, <1>10 DEF Allow

LEMMA EnforceTokenKeeps ==
    ASSUME WInv, NEW r \in Requests, EnforceToken(r)
    PROVE  WInv'
<1> DEFINE recent == Recent(counted, countedAt)
<1> USE DEF WInv
<1>1. recent \subseteq counted /\ recent \in SUBSET Requests
  BY DEF Recent, WTyped
<1>2. PcTo(r, "done") /\ now' = now /\ hits' = hits /\ at' = at
  BY DEF EnforceToken
<1>3. asked' \in [Requests -> [kind : {"page", "token", "session"}, session : Sessions,
                               pc : {"new", "lookup", "enforce", "done"}]]
  BY <1>2 DEF PcTo, WTyped
<1>4. \A q \in Requests : LimitOf(q)' = LimitOf(q)
  BY <1>2, SameLimit
<1>5. /\ Fresh(countedAt) \subseteq recent
      /\ Fresh([countedAt EXCEPT ![r] = now]) \subseteq recent \cup {r}
  BY FreshKept DEF WTyped, Counting
<1>6. \A k \in {Plain, Elevated} : {q \in hits' : LimitOf(q)' <= k} = {q \in hits : LimitOf(q) <= k}
  BY <1>2, <1>4 DEF WTyped
<1>7. Fresh(at)' = Fresh(at)
  BY <1>2 DEF Fresh
<1>8. /\ Cardinality(recent) <= Cardinality(counted)
      /\ Cardinality(recent) \in Nat /\ Cardinality(counted) \in Nat
  BY <1>1, Subsets DEF WTyped
<1>9. CASE HasRoom(recent, TokenBudget) /\ counted' = recent \cup {r}
           /\ countedAt' = [countedAt EXCEPT ![r] = now]
  <2>1. WTyped'
    BY <1>1, <1>2, <1>3, <1>9 DEF WTyped
  <2>2. Fresh(countedAt)' \subseteq counted'
    BY <1>2, <1>5, <1>9 DEF Fresh
  <2>3. recent \cup {r} \in SUBSET Requests
    BY <1>1
  <2>4. Cardinality(recent \cup {r}) <= Cardinality(recent) + 1
        /\ Cardinality(recent \cup {r}) \in Nat
    BY <1>1, <2>3, OneMore, Subsets
  <2>5. Cardinality(counted') <= TokenBudget
    BY <1>8, <1>9, <2>4, BudgetsTyped DEF HasRoom
  <2> QED BY <1>2, <1>6, <1>7, <2>1, <2>2, <2>5 DEF Counting
<1>10. CASE counted' = recent /\ countedAt' = countedAt
  <2>1. WTyped'
    BY <1>1, <1>2, <1>3, <1>10 DEF WTyped
  <2>2. Fresh(countedAt)' \subseteq counted'
    BY <1>2, <1>5, <1>10 DEF Fresh
  <2>3. Cardinality(counted') <= TokenBudget
    BY <1>8, <1>10, BudgetsTyped DEF Counting
  <2> QED BY <1>2, <1>6, <1>7, <2>1, <2>2, <2>3 DEF Counting
<1> QED BY <1>9, <1>10 DEF EnforceToken

\* Steps that leave both windows, and the kinds of the requests, as they are,
\* and do not turn the clock back.
LEMMA OthersKeep ==
    ASSUME WInv, now' \in Nat, now <= now',
           UNCHANGED <<hits, counted, at, countedAt>>,
           asked' \in [Requests -> [kind : {"page", "token", "session"}, session : Sessions,
                                    pc : {"new", "lookup", "enforce", "done"}]],
           \A q \in Requests : asked'[q].kind = asked[q].kind
    PROVE  WInv'
<1> USE DEF WInv
<1>1. WTyped'
  BY DEF WTyped
<1>2. Fresh(at)' \subseteq Fresh(at) /\ Fresh(countedAt)' \subseteq Fresh(countedAt)
  BY BudgetsTyped DEF Fresh, WTyped
<1>3. \A q \in Requests : LimitOf(q)' = LimitOf(q)
  BY DEF LimitOf
<1>4. \A k \in {Plain, Elevated} : {q \in hits' : LimitOf(q)' <= k} = {q \in hits : LimitOf(q) <= k}
  BY <1>3 DEF WTyped
<1> QED BY <1>1, <1>2, <1>4 DEF Counting

LEMMA AccessRestartKeeps == WInv /\ AccessRestart => WInv'
<1> SUFFICES ASSUME WInv, AccessRestart PROVE WInv'
  OBVIOUS
<1> USE DEF WInv
<1>1. WTyped'
  BY DEF AccessRestart, WTyped
<1>2. Fresh(at)' = {} /\ Fresh(countedAt)' = {}
  BY DEF AccessRestart, Fresh
<1>3. \A k \in {Plain, Elevated} : {q \in hits' : LimitOf(q)' <= k} = {}
  BY DEF AccessRestart
<1>4. Cardinality({}) = 0
  BY FS_EmptySet
<1>5. Counting'
  BY <1>2, <1>3, <1>4, BudgetsTyped DEF Counting, AccessRestart
<1> QED BY <1>1, <1>5

LEMMA NextWInv == WInv /\ [AccessNext]_accessVars => WInv'
<1> SUFFICES ASSUME WInv, [AccessNext]_accessVars PROVE WInv'
  OBVIOUS
<1>1. ASSUME NEW r \in Requests, Lookup(r) PROVE WInv'
  <2>1. PICK p \in {"enforce", "done"} : PcTo(r, p)
    BY <1>1 DEF Lookup
  <2>2. UNCHANGED <<now, hits, counted, at, countedAt>>
    BY <1>1 DEF Lookup
  <2> QED BY <2>1, <2>2, OthersKeep DEF PcTo, WInv, WTyped
<1>2. ASSUME NEW r \in Requests, VerifySession(r) PROVE WInv'
  <2>1. PcTo(r, "done") /\ UNCHANGED <<now, hits, counted, at, countedAt>>
    BY <1>2 DEF VerifySession
  <2> QED BY <2>1, OthersKeep DEF PcTo, WInv, WTyped
<1>3. ASSUME NEW s \in Sessions, CreateSession(s) \/ RevokeSession(s) PROVE WInv'
  BY <1>3, OthersKeep DEF CreateSession, RevokeSession, WInv, WTyped
<1>4. CASE RevokeToken
  BY <1>4, OthersKeep DEF RevokeToken, WInv, WTyped
<1>5. CASE ClockTick
  BY <1>5, OthersKeep DEF ClockTick, WInv, WTyped
<1>6. CASE UNCHANGED accessVars
  BY <1>6, OthersKeep DEF accessVars, WInv, WTyped
<1> QED BY <1>1, <1>2, <1>3, <1>4, <1>5, <1>6, AllowKeeps, EnforceTokenKeeps, AccessRestartKeeps
        DEF AccessNext, Handle, AccessQuiet

LEMMA WInvBounds == WInv => WindowBounded
<1> SUFFICES ASSUME WInv PROVE WindowBounded
  OBVIOUS
<1> USE DEF WInv
<1>1. ASSUME NEW k \in {Plain, Elevated}
      PROVE  Cardinality({r \in Fresh(at) : LimitOf(r) <= k}) <= k
  <2>1. {r \in Fresh(at) : LimitOf(r) <= k} \subseteq {r \in hits : LimitOf(r) <= k}
    BY DEF Counting
  <2>2. {r \in hits : LimitOf(r) <= k} \in SUBSET Requests
    BY DEF WTyped
  <2>3. /\ Cardinality({r \in Fresh(at) : LimitOf(r) <= k})
             <= Cardinality({r \in hits : LimitOf(r) <= k})
        /\ Cardinality({r \in Fresh(at) : LimitOf(r) <= k}) \in Nat
        /\ Cardinality({r \in hits : LimitOf(r) <= k}) \in Nat
    BY <2>1, <2>2, Subsets
  <2>4. Cardinality({r \in hits : LimitOf(r) <= k}) <= k
    BY DEF Counting
  <2> QED BY <2>3, <2>4, BudgetsTyped
<1>2. Cardinality(Fresh(countedAt)) <= TokenBudget
  <2>1. /\ Cardinality(Fresh(countedAt)) <= Cardinality(counted)
        /\ Cardinality(Fresh(countedAt)) \in Nat /\ Cardinality(counted) \in Nat
    BY Subsets DEF Counting, WTyped
  <2> QED BY <2>1, BudgetsTyped DEF Counting
<1> QED BY <1>1, <1>2 DEF WindowBounded

-----------------------------------------------------------------------------
\* A session that is there was created by a login that still counts, and ends
\* its lifetime after it.
SInv ==
    /\ session \in [Sessions -> Nat] /\ login \in [Sessions -> Nat]
    /\ \A s \in Sessions : session[s] # 0 => login[s] # 0 /\ session[s] = login[s] + TTL
    /\ now # 0
    /\ SessionsExpire

LEMMA InitSInv == AccessInit => SInv
BY DEF AccessInit, SInv, SessionsExpire

LEMMA NextSInv == WTyped /\ SInv /\ [AccessNext]_accessVars => SInv'
<1> SUFFICES ASSUME WTyped, SInv, [AccessNext]_accessVars PROVE SInv'
  OBVIOUS
<1> USE DEF SInv, SessionsExpire
<1>a. TTL \in Nat /\ now \in Nat
  BY AccessAssumption DEF AccessAssumption, WTyped
<1>b. /\ Pruned \in [Sessions -> Nat]
      /\ \A s \in Sessions : Pruned[s] # 0 => Pruned[s] = session[s] /\ session[s] > now
  BY <1>a DEF Pruned, Alive
<1>1. ASSUME NEW s \in Sessions, CreateSession(s) PROVE SInv'
  BY <1>1, <1>a, <1>b DEF CreateSession
<1>2. ASSUME NEW s \in Sessions, RevokeSession(s) PROVE SInv'
  BY <1>2 DEF RevokeSession
<1>3. ASSUME NEW r \in Requests, VerifySession(r) PROVE SInv'
  <2> DEFINE s == asked[r].session
  <2>1. s \in Sessions
    BY DEF WTyped
  <2>2. Pruned[s] # 0 => login[s] # 0 /\ now - login[s] < TTL
    BY <2>1, <1>a, <1>b
  <2>3. \A g \in granted' : g[2]
    <3>1. Pruned[s] # 0 => (login[s] # 0 /\ now - login[s] < TTL) = TRUE
      BY <2>2
    <3>2. granted' \subseteq granted \cup {<<r, TRUE>>}
      BY <1>3, <3>1 DEF VerifySession
    <3>3. <<r, TRUE>>[2]
      OBVIOUS
    <3> QED BY <3>2, <3>3
  <2>4. session' = Pruned /\ UNCHANGED <<login, now>>
    BY <1>3 DEF VerifySession
  <2> QED BY <1>b, <2>3, <2>4
<1>4. CASE AccessRestart
  BY <1>4 DEF AccessRestart
<1>5. CASE ClockTick
  BY <1>5, <1>a DEF ClockTick
<1>6. CASE UNCHANGED <<now, session, login, granted>>
  BY <1>6
<1>7. ASSUME NEW r \in Requests, Handle(r) PROVE SInv'
  BY <1>7, <1>3, <1>6 DEF Handle, Allow, Lookup, EnforceToken
<1> QED BY <1>1, <1>2, <1>4, <1>5, <1>6, <1>7
        DEF AccessNext, AccessQuiet, RevokeToken, accessVars

-----------------------------------------------------------------------------
\* No window of the middleware or of a token ever holds more admitted requests
\* than its budget (rate_limit.py, _enforce_token_window), and no operator
\* request is granted for a session that is over (operator_session_status).
THEOREM AccessHolds == AccessSpec => []AccessSound
<1>1. AccessInit => WInv /\ SInv
  BY InitWInv, InitSInv
<1>2. WInv /\ SInv /\ [AccessNext]_accessVars => WInv' /\ SInv'
  BY NextWInv, NextSInv DEF WInv
<1>3. WInv /\ SInv => AccessSound
  BY WInvBounds DEF AccessSound, SInv
<1> QED BY <1>1, <1>2, <1>3, PTL DEF AccessSpec

-----------------------------------------------------------------------------
(* Types of windows and sessions *)

LEMMA InitAccessTyped == AccessInit => AccessTypeOK
<1> SUFFICES ASSUME AccessInit PROVE AccessTypeOK
  OBVIOUS
<1>1. /\ LastInstant \in Nat /\ TTL \in Nat /\ 1 \in 1..LastInstant + 1
      /\ 0 \in 0..LastInstant + 1 /\ 0 \in 0..LastInstant + TTL + 1
  BY AccessAssumption DEF AccessAssumption
<1>2. asked \in [Requests -> [kind : {"page", "token", "session"}, session : Sessions,
                             pc : {"new", "lookup", "enforce", "done"}]]
  BY AccessAssumption DEF AccessAssumption, AccessInit
<1>3. /\ at \in [Requests -> 0..LastInstant + 1] /\ countedAt \in [Requests -> 0..LastInstant + 1]
      /\ session \in [Sessions -> 0..LastInstant + TTL + 1]
      /\ login \in [Sessions -> 0..LastInstant + 1]
  BY <1>1 DEF AccessInit
<1>4. token \in BOOLEAN
  BY DEF AccessInit
<1>5. now \in 1..LastInstant + 1 /\ hits = {} /\ counted = {} /\ granted = {}
  BY <1>1 DEF AccessInit
<1> QED BY <1>2, <1>3, <1>4, <1>5 DEF AccessTypeOK

LEMMA NextAccessTyped == AccessTypeOK /\ [AccessNext]_accessVars => AccessTypeOK'
<1> SUFFICES ASSUME AccessTypeOK, [AccessNext]_accessVars PROVE AccessTypeOK'
  OBVIOUS
<1> USE AccessAssumption DEF AccessAssumption
<1>0. LastInstant \in Nat /\ TTL \in Nat /\ now \in Nat /\ now \in 0..LastInstant + 1
  BY DEF AccessTypeOK
<1>1. ASSUME NEW r \in Requests, Allow(r) PROVE AccessTypeOK'
  <2>1. Next2[asked[r].kind] \in {"done", "lookup", "enforce"}
    BY DEF AccessTypeOK, Next2
  <2>2. asked' \in [Requests -> [kind : {"page", "token", "session"}, session : Sessions,
                                 pc : {"new", "lookup", "enforce", "done"}]]
    <3>1. asked' = [asked EXCEPT ![r].pc = "done"] \/ asked' = [asked EXCEPT ![r].pc = Next2[asked[r].kind]]
      BY <1>1 DEF Allow, PcTo
    <3> QED BY <2>1, <3>1 DEF AccessTypeOK
  <2>3. hits' \subseteq Requests /\ at' \in [Requests -> 0..LastInstant + 1]
    BY <1>0, <1>1 DEF Allow, Recent, AccessTypeOK
  <2> QED BY <1>1, <2>2, <2>3 DEF Allow, AccessTypeOK
<1>2. ASSUME NEW r \in Requests, Lookup(r) PROVE AccessTypeOK'
  BY <1>2 DEF Lookup, PcTo, AccessTypeOK
<1>3. ASSUME NEW r \in Requests, EnforceToken(r) PROVE AccessTypeOK'
  <2>1. counted' \subseteq Requests /\ countedAt' \in [Requests -> 0..LastInstant + 1]
    BY <1>0, <1>3 DEF EnforceToken, Recent, AccessTypeOK
  <2> QED BY <1>3, <2>1 DEF EnforceToken, PcTo, AccessTypeOK
<1>4. Pruned \in [Sessions -> 0..LastInstant + TTL + 1]
  BY <1>0 DEF Pruned, AccessTypeOK
<1>5. ASSUME NEW r \in Requests, VerifySession(r) PROVE AccessTypeOK'
  <2> DEFINE grant == <<r, login[asked[r].session] # 0 /\ now - login[asked[r].session] < TTL>>
  <2>0. grant \in Requests \X BOOLEAN
    <3>1. (login[asked[r].session] # 0 /\ now - login[asked[r].session] < TTL) \in BOOLEAN
      OBVIOUS
    <3> HIDE DEF AccessAssumption
    <3> QED BY <1>5, <3>1
  <2>1. granted' \subseteq Requests \X BOOLEAN
    <3>1. granted' = granted \cup {grant} \/ granted' = granted
      BY <1>5 DEF VerifySession
    <3>2. granted \subseteq Requests \X BOOLEAN
      BY DEF AccessTypeOK
    <3> HIDE DEF grant
    <3> QED BY <2>0, <3>1, <3>2
  <2>2. asked' \in [Requests -> [kind : {"page", "token", "session"}, session : Sessions,
                                 pc : {"new", "lookup", "enforce", "done"}]]
    BY <1>5 DEF VerifySession, PcTo, AccessTypeOK
  <2>3. session' \in [Sessions -> 0..LastInstant + TTL + 1]
    BY <1>4, <1>5 DEF VerifySession
  <2> QED BY <1>5, <2>1, <2>2, <2>3 DEF VerifySession, AccessTypeOK
<1>6. ASSUME NEW s \in Sessions, CreateSession(s) PROVE AccessTypeOK'
  <2>1. now + TTL \in 0..LastInstant + TTL + 1
    BY <1>0
  <2>2. session' \in [Sessions -> 0..LastInstant + TTL + 1]
    BY <1>4, <1>6, <2>1 DEF CreateSession
  <2> QED BY <1>0, <1>6, <2>2 DEF CreateSession, AccessTypeOK
<1>7. ASSUME NEW s \in Sessions, RevokeSession(s) PROVE AccessTypeOK'
  BY <1>0, <1>7 DEF RevokeSession, AccessTypeOK
<1>8. CASE RevokeToken \/ ClockTick
  <2>1. now' \in 1..LastInstant + 1
    BY <1>0, <1>8 DEF RevokeToken, ClockTick, AccessTypeOK
  <2>2. token' \in BOOLEAN
    BY <1>8 DEF RevokeToken, ClockTick, AccessTypeOK
  <2> QED BY <1>8, <2>1, <2>2 DEF RevokeToken, ClockTick, AccessTypeOK
<1>9. CASE AccessRestart
  BY <1>0, <1>9 DEF AccessRestart, AccessTypeOK
<1>10. CASE AccessQuiet \/ UNCHANGED accessVars
  BY <1>10 DEF AccessQuiet, accessVars, AccessTypeOK
<1> QED BY <1>1, <1>2, <1>3, <1>5, <1>6, <1>7, <1>8, <1>9, <1>10 DEF AccessNext, Handle

\* Clock, windows and sessions keep their types, and no time lies in the future.
THEOREM AccessTyped == AccessSpec => []AccessTypeOK
  BY InitAccessTyped, NextAccessTyped, PTL DEF AccessSpec

-----------------------------------------------------------------------------
(* Proxy *)

Wanted == Rendered(named, wildcard)

\* What a configuration has of the names that have not drifted is what is wanted.
Agrees(config) == Undrifted(config) = Undrifted(Wanted)

\* The record of one update.
UpdateRecord == [pc : Awaits \cup Threads \cup {"new", "done"}, gui : BOOLEAN,
                 reads : Names, wild : BOOLEAN, cancelled : BOOLEAN]

\* What an update that is alone knows at each of its steps: what it has read
\* is still so but for the names that drifted, what it has written is still
\* there.
Sound(u) ==
    /\ upd[u].pc \in {"tls", "projects", "global", "write"} =>
          upd[u].reads["gui"] = named["gui"]
    /\ upd[u].pc \in {"projects", "global", "write"} => upd[u].wild = wildcard
    /\ upd[u].pc \in {"global", "write"} =>
          \A o \in (Production \cup Dedicated) \ drifted : upd[u].reads[o] = named[o]
    /\ upd[u].pc = "write" => upd[u].reads["global"] = named["global"]
    /\ upd[u].pc \in Threads => Agrees(disk[Target])
    /\ upd[u].pc \in Threads \ {"validate"} => Valid(disk[Target])
    /\ upd[u].pc = "ensure" /\ machine.writable => caddy.up /\ Agrees(caddy.config)
    /\ upd[u].cancelled \/ upd[u].pc = "revert" => outcome = "failed"

\* Nothing is left undone.
Settled == machine.writable /\ outcome = "applied" =>
    /\ caddy.up /\ Agrees(caddy.config)
    /\ Agrees(disk["primary"]) /\ Valid(disk["primary"])

Alone ==
    /\ \A u, v \in Applying : u = v
    /\ \A u \in Applying : Sound(u)
    /\ since.up /\ ~since.broken => caddy.up
    /\ Applying = {} => Settled

PInv ==
    /\ ProxyTypeOK
    /\ drifted \subseteq Production \cup Dedicated
    /\ ~machine.writable => disk["primary"] = {}
    /\ \A u \in Updates : upd[u].pc = "new" => ~upd[u].cancelled
    /\ since.alone => Alone

\* What is rendered is a configuration.
LEMMA RenderedType ==
    ASSUME NEW n \in Names, NEW w \in BOOLEAN
    PROVE  Rendered(n, w) \in Configs
<1> SUFFICES ASSUME NEW o \in Owners, n[o] # NoHost
             PROVE  [owner |-> o, host |-> n[o], block |-> Block(o, n[o], w)] \in
                    [owner : Owners, host : Hosts,
                     block : ({"site"} \X Hosts) \cup ({"handle"} \X {Matcher[h] : h \in Hosts})]
  BY DEF Rendered, Configs
<1>1. n[o] \in Hosts
  BY DEF Names
<1>2. Block(o, n[o], w) \in ({"site"} \X Hosts) \cup ({"handle"} \X {Matcher[h] : h \in Hosts})
  BY <1>1 DEF Block
<1> QED BY <1>1, <1>2

\* What two sets of names agree on is rendered alike.
LEMMA RenderedAlike ==
    ASSUME NEW n \in Names, NEW m \in Names, NEW w \in BOOLEAN,
           NEW e \in Rendered(n, w), n[e.owner] = m[e.owner]
    PROVE  e \in Rendered(m, w) /\ e.owner \in Owners
<1>1. PICK o \in Owners : /\ n[o] # NoHost
                         /\ e = [owner |-> o, host |-> n[o], block |-> Block(o, n[o], w)]
  BY DEF Rendered
<1>2. e.owner = o /\ n[o] = m[o]
  BY <1>1
<1> QED BY <1>1, <1>2 DEF Rendered

LEMMA RenderedOwner ==
    ASSUME NEW n, NEW w, NEW e \in Rendered(n, w)
    PROVE  e.owner \in Owners
  BY DEF Rendered

\* Two sets of names that differ in drifted ones only agree on the rest.
LEMMA RenderedAgree ==
    ASSUME NEW n \in Names, NEW m \in Names, NEW w \in BOOLEAN,
           \A o \in Owners \ drifted : n[o] = m[o]
    PROVE  Undrifted(Rendered(n, w)) = Undrifted(Rendered(m, w))
<1>1. ASSUME NEW a \in Names, NEW b \in Names, \A o \in Owners \ drifted : a[o] = b[o],
             NEW e \in Undrifted(Rendered(a, w))
      PROVE  e \in Undrifted(Rendered(b, w))
  <2>1. e \in Rendered(a, w) /\ e.owner \notin drifted
    BY <1>1 DEF Undrifted
  <2>2. a[e.owner] = b[e.owner]
    BY <1>1, <2>1, RenderedOwner
  <2> QED BY <1>1, <2>1, <2>2, RenderedAlike DEF Undrifted
<1> QED BY <1>1

\* A name that drifts is left out of what has to agree.
LEMMA DriftAgrees ==
    ASSUME NEW o, NEW c, NEW n \in Names, NEW m \in Names, NEW w \in BOOLEAN,
           \A q \in Owners \ {o} : m[q] = n[q],
           Undrifted(c) = Undrifted(Rendered(n, w)),
           NEW e, e.owner \notin drifted \cup {o}
    PROVE  e \in c <=> e \in Rendered(m, w)
<1>1. e \in c <=> e \in Rendered(n, w)
  BY DEF Undrifted
<1>2. ASSUME NEW a \in Names, NEW b \in Names, \A q \in Owners \ {o} : a[q] = b[q],
             e \in Rendered(a, w)
      PROVE  e \in Rendered(b, w)
  <2>1. a[e.owner] = b[e.owner]
    BY <1>2, RenderedOwner
  <2> QED BY <1>2, <2>1, RenderedAlike
<1> QED BY <1>1, <1>2

LEMMA OverType == Over \in [pc : Awaits \cup Threads \cup {"new", "done"}, gui : BOOLEAN,
                            reads : Names, wild : BOOLEAN, cancelled : BOOLEAN]
  BY DEF Over, FreshUpdate, Names

LEMMA ConfigFacts == {} \in Configs /\ Valid({}) /\ Target \in Targets
  BY DEF Configs, Valid, Target, Targets

\* The primary file is one that Caddy takes, if the one that was written is.
LEMMA PrimaryValid ==
    ASSUME PInv, Valid(disk[Target])
    PROVE  Valid(disk["primary"])
  BY ConfigFacts DEF PInv, Target

LEMMA InitPInv == ProxyInit => PInv
<1> SUFFICES ASSUME ProxyInit PROVE PInv
  OBVIOUS
<1>1. FreshUpdate \in [pc : Awaits \cup Threads \cup {"new", "done"}, gui : BOOLEAN,
                    reads : Names, wild : BOOLEAN, cancelled : BOOLEAN]
  BY DEF FreshUpdate, Names
<1>2. caddy \in [up : BOOLEAN, config : Configs] /\ disk \in [Targets -> Configs]
      /\ since \in [alone : BOOLEAN, up : BOOLEAN, broken : BOOLEAN] /\ named \in Names
  BY ConfigFacts DEF ProxyInit, Names
<1>3. ProxyTypeOK
  BY <1>1, <1>2, ProxyAssumption DEF ProxyInit, ProxyTypeOK, Outcomes, ProxyAssumption
<1>4. Applying = {} /\ disk["primary"] = {}
  BY DEF ProxyInit, Applying, FreshUpdate, Targets
<1>5. Settled /\ (since.up => caddy.up) /\ drifted = {}
  BY DEF ProxyInit, Settled
<1> QED BY <1>3, <1>4, <1>5 DEF PInv, Alone, ProxyInit, FreshUpdate

-----------------------------------------------------------------------------
\* A new update has read nothing yet, whoever else is under way.
LEMMA BeginKeeps ==
    ASSUME PInv, NEW u \in Updates, Begin(u), named' \in Names, wildcard' \in BOOLEAN,
           upd' \in [Updates -> UpdateRecord],
           \A v \in Updates : v # u => upd'[v] = upd[v],
           upd'[u].pc = "gui", upd'[u].cancelled = upd[u].cancelled
    PROVE  PInv'
<1>1. /\ upd[u].pc = "new" /\ drifted' = {}
      /\ since' = [alone |-> Applying = {}, up |-> caddy.up, broken |-> FALSE]
      /\ UNCHANGED <<disk, caddy, machine, outcome, faults>>
  BY DEF Begin
<1>2. ProxyTypeOK'
  BY <1>1 DEF PInv, ProxyTypeOK, UpdateRecord
<1>3. (~machine.writable => disk["primary"] = {})'
      /\ \A v \in Updates : upd'[v].pc = "new" => ~upd'[v].cancelled
  BY <1>1 DEF PInv
<1>4. ASSUME since'.alone PROVE Alone'
  <2>1. Applying' = {u}
    BY <1>1, <1>4 DEF Applying
  <2>2. Sound(u)'
    BY <1>1 DEF Sound, PInv, Threads
  <2> QED BY <1>1, <2>1, <2>2 DEF Alone
<1> QED BY <1>1, <1>2, <1>3, <1>4 DEF PInv

LEMMA SetNameKeeps ==
    ASSUME PInv, NEW u \in Updates, NEW o \in Owners, NEW h \in Hosts \cup {NoHost},
           SetName(u, o, h)
    PROVE  PInv'
<1>1. /\ Begin(u) /\ named' = [named EXCEPT ![o] = h] /\ wildcard' = wildcard
      /\ upd' = [upd EXCEPT ![u].pc = "gui", ![u].gui = (o = "gui" /\ h # NoHost)]
  BY DEF SetName
<1>2. named' \in Names /\ wildcard' \in BOOLEAN /\ upd \in [Updates -> UpdateRecord]
  BY <1>1 DEF PInv, ProxyTypeOK, Names, UpdateRecord
<1>3. /\ upd' \in [Updates -> UpdateRecord]
      /\ \A v \in Updates : v # u => upd'[v] = upd[v]
      /\ upd'[u].pc = "gui" /\ upd'[u].cancelled = upd[u].cancelled
  BY <1>1, <1>2 DEF UpdateRecord, Awaits
<1> QED BY <1>1, <1>2, <1>3, BeginKeeps

LEMMA SetModeKeeps ==
    ASSUME PInv, NEW u \in Updates, SetMode(u)
    PROVE  PInv'
<1>1. /\ Begin(u) /\ named' = named /\ wildcard' = ~wildcard
      /\ upd' = [upd EXCEPT ![u].pc = "gui"]
  BY DEF SetMode
<1>2. named' \in Names /\ wildcard' \in BOOLEAN /\ upd \in [Updates -> UpdateRecord]
  BY <1>1 DEF PInv, ProxyTypeOK, UpdateRecord
<1>3. /\ upd' \in [Updates -> UpdateRecord]
      /\ \A v \in Updates : v # u => upd'[v] = upd[v]
      /\ upd'[u].pc = "gui" /\ upd'[u].cancelled = upd[u].cancelled
  BY <1>1, <1>2 DEF UpdateRecord, Awaits
<1> QED BY <1>1, <1>2, <1>3, BeginKeeps

\* What Goes and Finish do to the record of an update.
LEMMA GoesMoves ==
    ASSUME PInv, NEW u \in Applying, NEW pc \in Awaits \cup Threads \cup {"done"}, Goes(u, pc)
    PROVE  /\ upd' \in [Updates -> UpdateRecord]
           /\ \A v \in Updates : v # u => upd'[v] = upd[v]
           /\ upd[u].cancelled \/ pc = "done" => upd'[u].pc = "done"
           /\ ~upd[u].cancelled /\ pc # "done" =>
                 upd'[u].pc = pc /\ ~upd'[u].cancelled
  BY OverType DEF PInv, ProxyTypeOK, UpdateRecord, Goes, Over, FreshUpdate, Applying

\* A step of one update keeps the invariant if it leaves Sound behind, or
\* Settled at its end, and does not take Caddy down, but by a failed restart.
LEMMA BrokenMoves ==
    ASSUME PInv, NEW u \in Applying, UNCHANGED <<wildcard, machine, drifted>>,
           since' \in [alone : BOOLEAN, up : BOOLEAN, broken : BOOLEAN],
           since'.alone = since.alone, since'.up = since.up, since.broken => since'.broken,
           named' \in Names, disk' \in [Targets -> Configs],
           caddy' \in [up : BOOLEAN, config : Configs],
           upd' \in [Updates -> UpdateRecord],
           \A v \in Updates : v # u => upd'[v] = upd[v],
           upd'[u].pc # "new", outcome' \in Outcomes, faults' \in 0..MaxFaults,
           ~machine.writable => disk'["primary"] = {},
           since.alone /\ Sound(u) /\ caddy.up /\ ~since'.broken => caddy'.up,
           since.alone /\ Sound(u) /\ upd'[u].pc # "done" => Sound(u)',
           since.alone /\ Sound(u) /\ upd'[u].pc = "done" => Settled'
    PROVE  PInv'
<1>1. ProxyTypeOK'
  BY DEF PInv, ProxyTypeOK, UpdateRecord
<1>2. (~machine.writable => disk["primary"] = {})'
      /\ (drifted \subseteq Production \cup Dedicated)'
      /\ \A v \in Updates : upd'[v].pc = "new" => ~upd'[v].cancelled
  BY DEF PInv, Applying
<1>3. ASSUME since'.alone PROVE Alone'
  <2>1. Alone /\ since.alone /\ Sound(u)
    BY <1>3 DEF PInv, Alone
  <2>2. Applying' \subseteq {u} /\ (upd'[u].pc = "done" <=> Applying' = {})
    BY <2>1 DEF Alone, Applying
  <2>3. since'.up /\ ~since'.broken => caddy'.up
    BY <2>1 DEF Alone
  <2> QED BY <2>1, <2>2, <2>3 DEF Alone
<1> QED BY <1>1, <1>2, <1>3 DEF PInv

LEMMA UpdateMoves ==
    ASSUME PInv, NEW u \in Applying, UNCHANGED <<wildcard, machine, since, drifted>>,
           named' \in Names, disk' \in [Targets -> Configs],
           caddy' \in [up : BOOLEAN, config : Configs],
           upd' \in [Updates -> UpdateRecord],
           \A v \in Updates : v # u => upd'[v] = upd[v],
           upd'[u].pc # "new", outcome' \in Outcomes, faults' \in 0..MaxFaults,
           ~machine.writable => disk'["primary"] = {},
           since.alone /\ Sound(u) /\ caddy.up => caddy'.up,
           since.alone /\ Sound(u) /\ upd'[u].pc # "done" => Sound(u)',
           since.alone /\ Sound(u) /\ upd'[u].pc = "done" => Settled'
    PROVE  PInv'
<1>1. since \in [alone : BOOLEAN, up : BOOLEAN, broken : BOOLEAN]
  BY DEF PInv, ProxyTypeOK
<1> QED BY <1>1, BrokenMoves

LEMMA TypesNow ==
    ASSUME PInv
    PROVE  /\ named \in Names /\ disk \in [Targets -> Configs]
           /\ caddy \in [up : BOOLEAN, config : Configs] /\ upd \in [Updates -> UpdateRecord]
           /\ outcome \in Outcomes /\ faults \in 0..MaxFaults /\ MaxFaults \in Nat
           /\ wildcard \in BOOLEAN
           /\ ~machine.writable => disk["primary"] = {}
  BY ProxyAssumption DEF PInv, ProxyTypeOK, UpdateRecord, ProxyAssumption

LEMMA CancelKeeps ==
    ASSUME PInv, NEW u \in Updates, CancelUpdate(u)
    PROVE  PInv'
<1>1. /\ u \in Applying /\ outcome' = "failed"
      /\ upd' = [upd EXCEPT ![u] = IF @.pc \in Awaits THEN Over ELSE [@ EXCEPT !.cancelled = TRUE]]
      /\ UNCHANGED <<named, wildcard, disk, caddy, machine, since, drifted, faults>>
  BY DEF CancelUpdate
<1>2. /\ upd' \in [Updates -> UpdateRecord]
      /\ \A v \in Updates : v # u => upd'[v] = upd[v]
      /\ \/ upd'[u].pc = "done"
         \/ upd'[u].pc = upd[u].pc /\ upd[u].pc \in Threads
  BY <1>1, TypesNow, OverType DEF UpdateRecord, Applying, Over
<1>3. Sound(u) /\ upd'[u].pc # "done" => Sound(u)'
  BY <1>1, <1>2 DEF Sound, Threads, Wanted, Target, Agrees, Undrifted
<1>4. Settled'
  BY <1>1 DEF Settled
<1> QED BY <1>1, <1>2, <1>3, <1>4, TypesNow, UpdateMoves DEF Outcomes, Threads, Applying

LEMMA RevertKeeps ==
    ASSUME PInv, NEW u \in Updates, RevertGui(u)
    PROVE  PInv'
<1>1. /\ u \in Applying /\ upd[u].pc = "revert" /\ Goes(u, "done")
      /\ named' = [named EXCEPT !["gui"] = NoHost]
      /\ UNCHANGED <<wildcard, disk, caddy, machine, outcome, since, drifted, faults>>
  BY DEF RevertGui, Applying
<1>2. named' \in Names
  BY <1>1, TypesNow DEF Names
<1>3. Sound(u) => Settled'
  BY <1>1 DEF Sound, Settled
<1> QED BY <1>1, <1>2, <1>3, TypesNow, GoesMoves, UpdateMoves

LEMMA ReadsKeep ==
    ASSUME PInv, NEW u \in Updates, ReadGui(u) \/ ReadTls(u) \/ ReadRoutes(u) \/ ReadGlobal(u)
    PROVE  PInv'
<1>1. u \in Applying /\ UNCHANGED <<named, wildcard, disk, caddy, machine, outcome, since, drifted, faults>>
  BY DEF ReadGui, ReadTls, ReadRoutes, ReadGlobal, ReadNames, Applying
<1>2. \/ /\ upd[u].pc = "gui" /\ upd'[u].pc = "tls"
         /\ upd'[u].reads["gui"] = named["gui"]
      \/ /\ upd[u].pc = "tls" /\ upd'[u].pc = "projects"
         /\ upd'[u].reads = upd[u].reads /\ upd'[u].wild = wildcard
      \/ /\ upd[u].pc = "projects" /\ upd'[u].pc = "global"
         /\ upd'[u].reads["gui"] = upd[u].reads["gui"] /\ upd'[u].wild = upd[u].wild
         /\ \A o \in Production \cup Dedicated : upd'[u].reads[o] = named[o]
      \/ /\ upd[u].pc = "global" /\ upd'[u].pc = "write"
         /\ upd'[u].wild = upd[u].wild /\ upd'[u].reads["global"] = named["global"]
         /\ \A o \in Owners \ {"global"} : upd'[u].reads[o] = upd[u].reads[o]
  BY TypesNow, ProxyAssumption DEF ReadGui, ReadTls, ReadRoutes, ReadGlobal, ReadNames, Owners, UpdateRecord,
     ProxyAssumption
<1>3. /\ upd' \in [Updates -> UpdateRecord]
      /\ \A v \in Updates : v # u => upd'[v] = upd[v]
      /\ upd'[u].cancelled = upd[u].cancelled
  <2>1. CASE ReadTls(u)
    BY <2>1, TypesNow DEF ReadTls, UpdateRecord, Awaits
  <2>2. ASSUME NEW pc, NEW owners, NEW next \in Awaits, ReadNames(u, pc, owners, next)
        PROVE  /\ upd' \in [Updates -> UpdateRecord]
               /\ \A v \in Updates : v # u => upd'[v] = upd[v]
               /\ upd'[u].cancelled = upd[u].cancelled
    <3> DEFINE reads == [o \in Owners |-> IF o \in owners THEN named[o] ELSE upd[u].reads[o]]
    <3>1. reads \in Names
      BY TypesNow DEF Names, UpdateRecord
    <3>2. upd' = [upd EXCEPT ![u] = [@ EXCEPT !.pc = next, !.reads = reads]]
      BY <2>2 DEF ReadNames
    <3> HIDE DEF reads
    <3> QED BY <3>1, <3>2, TypesNow DEF UpdateRecord
  <2> QED BY <2>1, <2>2 DEF ReadGui, ReadRoutes, ReadGlobal, Awaits
<1>4. Sound(u) => Sound(u)'
  BY <1>1, <1>2, <1>3, ProxyAssumption DEF Sound, Threads, Owners, ProxyAssumption
<1> QED BY <1>1, <1>2, <1>3, <1>4, TypesNow, UpdateMoves

\* What Finish says, whether the update was cancelled or not.
LEMMA FinishMoves ==
    ASSUME PInv, NEW u \in Applying, NEW result \in Outcomes, Finish(u, result)
    PROVE  /\ upd' \in [Updates -> UpdateRecord]
           /\ \A v \in Updates : v # u => upd'[v] = upd[v]
           /\ \/ upd'[u].pc = "done"
              \/ upd'[u].pc = "revert" /\ outcome' = "failed"
           /\ outcome' \in Outcomes
           /\ upd[u].cancelled => outcome' = outcome
           /\ ~upd[u].cancelled => outcome' = result
<1>1. Ended(u, result) \in {"done", "revert"} /\ (Ended(u, result) = "revert" => result = "failed")
  BY DEF Ended
<1>2. Goes(u, Ended(u, result)) /\ outcome' = IF upd[u].cancelled THEN outcome ELSE result
  BY DEF Finish
<1> QED BY <1>1, <1>2, GoesMoves, TypesNow DEF Awaits

\* An update that fails, or was cancelled, leaves nothing to be claimed.
LEMMA FailedSettles ==
    ASSUME PInv, NEW u \in Applying, Sound(u), NEW result \in {"failed", "saved"},
           Finish(u, result)
    PROVE  Settled' /\ (upd'[u].pc # "done" => Sound(u)')
<1>1. outcome' # "applied" /\ (upd'[u].pc # "done" => upd'[u].pc = "revert" /\ outcome' = "failed")
  BY FinishMoves DEF Sound, Outcomes
<1> QED BY <1>1 DEF Settled, Sound, Threads

LEMMA WriteKeeps ==
    ASSUME PInv, NEW u \in Updates, WriteConfig(u)
    PROVE  PInv'
<1>1. /\ u \in Applying /\ upd[u].pc = "write"
      /\ disk' = [disk EXCEPT ![Target] = Rendered(upd[u].reads, upd[u].wild)]
      /\ UNCHANGED <<named, wildcard, caddy, machine, since, drifted, faults>>
  BY DEF WriteConfig, Applying
<1>2. disk' \in [Targets -> Configs] /\ disk'[Target] = Rendered(upd[u].reads, upd[u].wild)
      /\ (~machine.writable => disk'["primary"] = {})
  <2>1. Rendered(upd[u].reads, upd[u].wild) \in Configs
    BY TypesNow, RenderedType DEF UpdateRecord
  <2> QED BY <1>1, <2>1, TypesNow, ConfigFacts DEF Target, Targets
<1>3. CASE Finish(u, "saved") /\ ~machine.installed
  BY <1>1, <1>2, <1>3, TypesNow, FinishMoves, FailedSettles, UpdateMoves DEF Outcomes
<1>4. CASE /\ upd' = [upd EXCEPT ![u].pc = "validate", ![u].reads = FreshUpdate.reads, ![u].wild = FALSE]
           /\ outcome' = outcome
  <2>1. FreshUpdate.reads \in Names
    BY DEF FreshUpdate, Names
  <2> DEFINE none == FreshUpdate.reads
  <2> HIDE DEF none
  <2>2. /\ upd' \in [Updates -> UpdateRecord]
        /\ \A v \in Updates : v # u => upd'[v] = upd[v]
        /\ upd'[u].pc = "validate" /\ upd'[u].cancelled = upd[u].cancelled
    <3>1. upd' = [upd EXCEPT ![u] = [@ EXCEPT !.pc = "validate", !.reads = none, !.wild = FALSE]]
      BY <1>4 DEF none
    <3>2. none \in Names
      BY <2>1 DEF none
    <3> QED BY <3>1, <3>2, TypesNow DEF UpdateRecord, Threads
  <2>3. Sound(u) => Sound(u)'
    <3> SUFFICES ASSUME Sound(u) PROVE Sound(u)'
      OBVIOUS
    <3>1. upd[u].reads \in Names /\ named \in Names /\ upd[u].wild = wildcard
      BY <1>1, TypesNow DEF UpdateRecord, Sound
    <3>2. \A o \in Owners \ drifted : upd[u].reads[o] = named[o]
      BY <1>1 DEF Sound, Owners
    <3>3. Undrifted(Rendered(upd[u].reads, upd[u].wild)) = Undrifted(Wanted)
      BY <3>1, <3>2, TypesNow, RenderedAgree DEF Wanted
    <3>4. Agrees(disk[Target])' /\ Target' = Target
      BY <1>1, <1>2, <3>3 DEF Wanted, Target, Agrees, Undrifted
    <3> QED BY <1>1, <1>4, <2>2, <3>4 DEF Sound, Threads
  <2> QED BY <1>1, <1>2, <1>4, <2>2, <2>3, TypesNow, UpdateMoves
<1> QED BY <1>3, <1>4 DEF WriteConfig

LEMMA NotWrittenKeeps ==
    ASSUME PInv, NEW u \in Updates, NotWritten(u)
    PROVE  PInv'
<1>1. /\ u \in Applying /\ Finish(u, "failed") /\ faults' \in 0..MaxFaults
      /\ UNCHANGED <<named, wildcard, disk, caddy, machine, since, drifted>>
  BY TypesNow DEF NotWritten, Applying, Fault
<1> QED BY <1>1, TypesNow, FinishMoves, FailedSettles, UpdateMoves DEF Outcomes

\* A thread goes on to its next command.
LEMMA OnwardKeeps ==
    ASSUME PInv, NEW u \in Applying, upd[u].pc \in Threads,
           NEW next \in Threads, Goes(u, next),
           UNCHANGED <<named, wildcard, disk, machine, outcome, drifted>>,
           since' \in [alone : BOOLEAN, up : BOOLEAN, broken : BOOLEAN],
           since'.alone = since.alone, since'.up = since.up, since.broken => since'.broken,
           faults' \in 0..MaxFaults, caddy' \in [up : BOOLEAN, config : Configs],
           Valid(disk[Target]) \/ ~since.alone,
           since.alone /\ Sound(u) /\ caddy.up /\ ~since'.broken => caddy'.up,
           next = "ensure" => caddy' = Loads(Target) \/ ~since.alone \/ ~machine.writable
    PROVE  PInv'
<1>1. /\ upd' \in [Updates -> UpdateRecord]
      /\ \A v \in Updates : v # u => upd'[v] = upd[v]
      /\ upd[u].cancelled => upd'[u].pc = "done"
      /\ ~upd[u].cancelled => upd'[u].pc = next /\ ~upd'[u].cancelled
  <2>1. next \in Awaits \cup Threads \cup {"done"} /\ next # "done"
    BY DEF Threads
  <2> QED BY <2>1, GoesMoves
<1>2. ASSUME since.alone, Sound(u)
      PROVE  (upd'[u].pc # "done" => Sound(u)') /\ (upd'[u].pc = "done" => Settled')
  <2>1. Agrees(disk[Target])' /\ Valid(disk'[Target'])
    BY <1>2 DEF Sound, Wanted, Target, Agrees, Undrifted
  <2>2. CASE upd[u].cancelled
    BY <1>1, <1>2, <2>2 DEF Sound, Settled
  <2>3. CASE ~upd[u].cancelled
    <3>1. upd'[u].pc = next /\ ~upd'[u].cancelled /\ upd'[u].pc # "done"
      BY <1>1, <2>3 DEF Threads
    <3>2. next = "ensure" /\ machine.writable => caddy'.up /\ Agrees(caddy.config)'
      BY <1>2, <2>1 DEF Loads, Target, Agrees, Undrifted
    <3> QED BY <2>1, <3>1, <3>2 DEF Sound, Threads
  <2> QED BY <2>2, <2>3
<1> QED BY <1>1, <1>2, TypesNow, BrokenMoves DEF Threads

\* What OnwardKeeps needs of a step that leaves the history as it is.
LEMMA SinceStays ==
    ASSUME PInv, UNCHANGED since
    PROVE  /\ since' \in [alone : BOOLEAN, up : BOOLEAN, broken : BOOLEAN]
           /\ since'.alone = since.alone /\ since'.up = since.up
           /\ since.broken => since'.broken
  BY DEF PInv, ProxyTypeOK

LEMMA ValidateKeeps ==
    ASSUME PInv, NEW u \in Updates, ValidateConfig(u)
    PROVE  PInv'
<1>1. /\ u \in Applying /\ upd[u].pc \in Threads /\ faults' \in 0..MaxFaults
      /\ UNCHANGED <<named, wildcard, disk, caddy, machine, since, drifted>>
      /\ \/ Valid(disk[Target]) /\ Goes(u, "reload") /\ outcome' = outcome
         \/ Finish(u, "failed")
  BY TypesNow DEF ValidateConfig, Applying, Fault, Validated, Threads
<1>2. CASE Finish(u, "failed")
  BY <1>1, <1>2, TypesNow, FinishMoves, FailedSettles, UpdateMoves DEF Outcomes
<1>3. CASE Valid(disk[Target]) /\ Goes(u, "reload") /\ outcome' = outcome
  <2>1. "reload" \in Threads /\ "reload" # "ensure"
    BY DEF Threads
  <2> QED BY <1>1, <1>3, <2>1, TypesNow, SinceStays, OnwardKeeps
<1> QED BY <1>1, <1>2, <1>3

\* A file that was validated is valid still, as long as the update is alone.
LEMMA ValidStill ==
    ASSUME PInv, NEW u \in Applying, upd[u].pc \in Threads \ {"validate"}
    PROVE  /\ Valid(disk[Target]) \/ ~since.alone
           /\ Valid(disk["primary"]) \/ ~since.alone
  BY PrimaryValid DEF PInv, Alone, Sound

LEMMA LoadsType ==
    ASSUME PInv, NEW t \in Targets
    PROVE  Loads(t) \in [up : BOOLEAN, config : Configs] /\ Loads(t).up
  BY TypesNow DEF Loads

LEMMA ReloadKeeps ==
    ASSUME PInv, NEW u \in Updates, ReloadConfig(u) \/ ReloadUnit(u)
    PROVE  PInv'
<1>1. /\ u \in Applying /\ upd[u].pc \in Threads \ {"validate"} /\ faults' \in 0..MaxFaults
      /\ UNCHANGED <<named, wildcard, disk, machine, outcome, since, drifted>>
  BY TypesNow DEF ReloadConfig, ReloadUnit, Command, Applying, Fault, Threads
<1>2. \/ /\ Goes(u, "unit") \/ Goes(u, "restart")
         /\ caddy' \in {caddy, Loads(Target), Loads("primary")}
      \/ /\ Goes(u, "ensure")
         /\ caddy' = Loads(Target) \/ (caddy' = Loads("primary"))
  BY DEF ReloadConfig, ReloadUnit, Command
<1>3. CASE /\ Goes(u, "unit") \/ Goes(u, "restart")
           /\ caddy' \in {caddy, Loads(Target), Loads("primary")}
  <2>1. PICK next \in {"unit", "restart"} : Goes(u, next)
    BY <1>3
  <2>2. next \in Threads /\ next # "ensure"
    BY DEF Threads
  <2>3. caddy' \in [up : BOOLEAN, config : Configs] /\ (caddy.up => caddy'.up)
    BY <1>3, TypesNow, LoadsType, ConfigFacts DEF Targets
  <2> QED BY <1>1, <2>1, <2>2, <2>3, ValidStill, SinceStays, OnwardKeeps
<1>4. CASE Goes(u, "ensure") /\ (caddy' = Loads(Target) \/ caddy' = Loads("primary"))
  <2>1. caddy' = Loads(Target) \/ ~machine.writable
    BY <1>4 DEF Target
  <2>2. caddy' \in [up : BOOLEAN, config : Configs] /\ caddy'.up
    BY <1>4, LoadsType, ConfigFacts DEF Targets
  <2>3. "ensure" \in Threads
    BY DEF Threads
  <2> QED BY <1>1, <1>4, <2>1, <2>2, <2>3, ValidStill, SinceStays, OnwardKeeps
<1> QED BY <1>2, <1>3, <1>4

\* What a restart or a start that fails leaves behind.
LEMMA BrokenType ==
    ASSUME PInv, NEW states, Broken(states), states \subseteq {caddy, Down, Started}
    PROVE  /\ caddy' \in [up : BOOLEAN, config : Configs] /\ faults' \in 0..MaxFaults
           /\ since' \in [alone : BOOLEAN, up : BOOLEAN, broken : BOOLEAN]
           /\ since'.alone = since.alone /\ since'.up = since.up
           /\ since.broken => since'.broken
           /\ ~since'.broken => caddy'.up
<1>1. Down \in [up : BOOLEAN, config : Configs]
  BY TypesNow DEF Down
<1>2. Started \in [up : BOOLEAN, config : Configs]
  BY <1>1, LoadsType DEF Started, Targets
<1>3. caddy' \in [up : BOOLEAN, config : Configs]
  BY <1>1, <1>2, TypesNow DEF Broken
<1>4. since \in [alone : BOOLEAN, up : BOOLEAN, broken : BOOLEAN]
  BY DEF PInv, ProxyTypeOK
<1>5. since' = [since EXCEPT !.broken = since.broken \/ ~caddy'.up] /\ caddy'.up \in BOOLEAN
  BY <1>3 DEF Broken
<1>6. faults' \in 0..MaxFaults
  BY TypesNow DEF Broken, Fault
<1> QED BY <1>3, <1>4, <1>5, <1>6

LEMMA RestartKeeps ==
    ASSUME PInv, NEW u \in Updates, RestartUnit(u)
    PROVE  PInv'
<1>1. /\ u \in Applying /\ upd[u].pc \in Threads \ {"validate"}
      /\ UNCHANGED <<named, wildcard, disk, machine, outcome, drifted>>
  BY DEF RestartUnit, Applying, Threads
<1>2. "ensure" \in Threads /\ "last" \in Threads /\ "last" # "ensure"
  BY DEF Threads
<1>3. \/ /\ Valid(disk["primary"]) /\ caddy' = Loads("primary") /\ Goes(u, "ensure")
         /\ UNCHANGED <<since, faults>>
      \/ /\ ~Valid(disk["primary"]) /\ caddy' = Down /\ Goes(u, "last")
         /\ UNCHANGED <<since, faults>>
      \/ Broken({caddy, Down, Started}) /\ Goes(u, "last")
  BY DEF RestartUnit, Started
<1>4. CASE /\ Valid(disk["primary"]) /\ caddy' = Loads("primary") /\ Goes(u, "ensure")
           /\ UNCHANGED <<since, faults>>
  <2>1. caddy' = Loads(Target) \/ ~machine.writable
    BY <1>4 DEF Target
  <2>2. caddy' \in [up : BOOLEAN, config : Configs] /\ caddy'.up
    BY <1>4, LoadsType DEF Targets
  <2> QED BY <1>1, <1>2, <1>4, <2>1, <2>2, TypesNow, ValidStill, SinceStays, OnwardKeeps
<1>5. CASE /\ ~Valid(disk["primary"]) /\ caddy' = Down /\ Goes(u, "last")
           /\ UNCHANGED <<since, faults>>
  <2>1. ~since.alone
    BY <1>1, <1>5, ValidStill
  <2>2. caddy' \in [up : BOOLEAN, config : Configs]
    BY <1>5, TypesNow DEF Down
  <2> QED BY <1>1, <1>2, <1>5, <2>1, <2>2, TypesNow, SinceStays, OnwardKeeps
<1>6. CASE Broken({caddy, Down, Started}) /\ Goes(u, "last")
  <2>1. /\ caddy' \in [up : BOOLEAN, config : Configs] /\ faults' \in 0..MaxFaults
        /\ since' \in [alone : BOOLEAN, up : BOOLEAN, broken : BOOLEAN]
        /\ since'.alone = since.alone /\ since'.up = since.up
        /\ since.broken => since'.broken
        /\ ~since'.broken => caddy'.up
    BY <1>6, BrokenType
  <2> QED BY <1>1, <1>2, <1>6, <2>1, ValidStill, OnwardKeeps
<1> QED BY <1>3, <1>4, <1>5, <1>6

\* Caddy is up and serves what is wanted, so that nothing is started again,
\* unless the restart before has failed.
LEMMA EnsureKeeps ==
    ASSUME PInv, NEW u \in Updates, EnsureCaddy(u)
    PROVE  PInv'
<1> DEFINE told == IF upd[u].pc = "ensure" THEN "applied" ELSE "saved"
<1>1. /\ u \in Applying /\ upd[u].pc \in {"ensure", "last"}
      /\ UNCHANGED <<named, wildcard, disk, machine, drifted>>
      /\ \/ /\ caddy' = IF caddy.up THEN caddy ELSE Started
            /\ Finish(u, told)
            /\ UNCHANGED <<since, faults>>
         \/ ~caddy.up /\ Broken({Down}) /\ Finish(u, told)
         \/ ~caddy.up /\ Broken({Down}) /\ Finish(u, "failed")
  BY DEF EnsureCaddy, Applying
<1>2. /\ caddy' \in [up : BOOLEAN, config : Configs] /\ faults' \in 0..MaxFaults
      /\ since' \in [alone : BOOLEAN, up : BOOLEAN, broken : BOOLEAN]
      /\ since'.alone = since.alone /\ since'.up = since.up
      /\ since.broken => since'.broken
      /\ caddy.up => caddy' = caddy
  <2>1. CASE Broken({Down}) /\ ~caddy.up
    BY <2>1, BrokenType
  <2>2. CASE caddy' = (IF caddy.up THEN caddy ELSE Started) /\ UNCHANGED <<since, faults>>
    <3>1. Down \in [up : BOOLEAN, config : Configs]
      BY TypesNow DEF Down
    <3>2. Started \in [up : BOOLEAN, config : Configs]
      BY <3>1, LoadsType DEF Started, Targets
    <3> QED BY <2>2, <3>2, TypesNow, SinceStays
  <2> QED BY <1>1, <2>1, <2>2
<1>3. CASE upd[u].pc = "last" \/ Finish(u, "failed")
  <2>1. PICK result \in {"failed", "saved"} : Finish(u, result)
    BY <1>1, <1>3
  <2>2. result \in Outcomes
    BY DEF Outcomes
  <2> QED BY <1>1, <1>2, <2>1, <2>2, TypesNow, FinishMoves, FailedSettles, BrokenMoves
<1>4. CASE upd[u].pc = "ensure" /\ Finish(u, "applied")
  <2>1. Finish(u, "applied") /\ "applied" \in Outcomes
    BY <1>4 DEF Outcomes
  <2>2. ASSUME Sound(u)
        PROVE  (upd'[u].pc # "done" => Sound(u)') /\ (upd'[u].pc = "done" => Settled')
    <3>1. Agrees(disk[Target]) /\ Valid(disk[Target])
          /\ (machine.writable => caddy.up /\ Agrees(caddy.config) /\ caddy' = caddy)
      BY <1>2, <1>4, <2>2 DEF Sound, Threads
    <3>2. upd'[u].pc # "done" => Sound(u)'
      <4>1. upd'[u].pc # "done" => upd'[u].pc = "revert" /\ outcome' = "failed"
        BY <1>1, <2>1, FinishMoves
      <4> QED BY <4>1 DEF Sound, Threads
    <3>3. Settled'
      BY <1>1, <3>1 DEF Settled, Target, Agrees, Undrifted, Wanted
    <3> QED BY <3>2, <3>3
  <2> QED BY <1>1, <1>2, <2>1, <2>2, TypesNow, FinishMoves, BrokenMoves
<1> QED BY <1>1, <1>3, <1>4

-----------------------------------------------------------------------------
\* A name that changes without an apply leaves the others as they were.
LEMMA RenameKeeps ==
    ASSUME PInv, NEW o \in Owners, NEW h \in Hosts, Rename(o, h)
    PROVE  PInv'
<1>1. /\ o \in Production \cup Dedicated /\ named' = [named EXCEPT ![o] = h]
      /\ drifted' = drifted \cup {o}
      /\ UNCHANGED <<wildcard, disk, caddy, machine, upd, outcome, since, faults>>
  BY DEF Rename
<1>2. named' \in Names /\ \A q \in Owners \ {o} : named'[q] = named[q]
  BY <1>1, TypesNow DEF Names
<1>3. ProxyTypeOK' /\ (drifted \subseteq Production \cup Dedicated)'
  BY <1>1, <1>2 DEF PInv, ProxyTypeOK
<1>4. /\ Agrees(disk[Target]) => Agrees(disk[Target])'
      /\ Agrees(disk["primary"]) => Agrees(disk["primary"])'
      /\ Agrees(caddy.config) => Agrees(caddy.config)'
  <2>1. ASSUME NEW c, Undrifted(c) = Undrifted(Rendered(named, wildcard))
        PROVE  {r \in c : r.owner \notin drifted'}
                  = {r \in Rendered(named', wildcard') : r.owner \notin drifted'}
    <3>1. named \in Names /\ wildcard \in BOOLEAN /\ wildcard' = wildcard
          /\ drifted \cup {o} = drifted'
      BY <1>1, TypesNow
    <3>2. ASSUME NEW e, e.owner \notin drifted'
          PROVE  e \in c <=> e \in Rendered(named', wildcard')
      <4>1. e.owner \notin drifted \cup {o}
        BY <3>1, <3>2
      <4> QED BY <1>2, <2>1, <3>1, <4>1, DriftAgrees
    <3> QED BY <3>2
  <2>2. Target' = Target /\ disk' = disk /\ caddy' = caddy
    BY <1>1 DEF Target
  <2>3. Agrees(disk[Target]) => Agrees(disk[Target])'
    BY <2>1, <2>2 DEF Agrees, Undrifted, Wanted
  <2>4. Agrees(disk["primary"]) => Agrees(disk["primary"])'
    BY <2>1, <2>2 DEF Agrees, Undrifted, Wanted
  <2>5. Agrees(caddy.config) => Agrees(caddy.config)'
    BY <2>1, <2>2 DEF Agrees, Undrifted, Wanted
  <2> QED BY <2>3, <2>4, <2>5
<1>5. named'["gui"] = named["gui"] /\ named'["global"] = named["global"]
  BY <1>1, <1>2, ProxyAssumption DEF Owners, ProxyAssumption
<1>6. ASSUME NEW u \in Applying, Sound(u) PROVE Sound(u)'
  <2>1. \A q \in (Production \cup Dedicated) \ drifted' : named'[q] = named[q] /\ q \notin drifted
    BY <1>1, <1>2 DEF Owners
  <2> QED BY <1>1, <1>4, <1>5, <1>6, <2>1 DEF Sound, Target
<1>7. Settled => Settled'
  BY <1>1, <1>4 DEF Settled
<1>8. Alone => Alone'
  BY <1>1, <1>6, <1>7 DEF Alone, Applying
<1> QED BY <1>1, <1>3, <1>8 DEF PInv

\* The supervisor starts Caddy from the file that the unit knows.
LEMMA MaintainKeeps == PInv /\ Maintain => PInv'
<1> SUFFICES ASSUME PInv, Maintain PROVE PInv'
  OBVIOUS
<1>1. /\ ~caddy.up /\ caddy' = Started
      /\ UNCHANGED <<named, wildcard, disk, machine, upd, outcome, since, drifted, faults>>
  BY DEF Maintain
<1>2. caddy' \in [up : BOOLEAN, config : Configs]
  <2>1. Down \in [up : BOOLEAN, config : Configs]
    BY TypesNow DEF Down
  <2> QED BY <1>1, <2>1, LoadsType DEF Started, Targets
<1>3. ProxyTypeOK'
  BY <1>1, <1>2 DEF PInv, ProxyTypeOK
<1>4. \A u \in Applying : Sound(u) => Sound(u)'
  BY <1>1 DEF Sound, Target, Agrees, Undrifted, Wanted
<1>5. Settled => Settled'
  BY <1>1 DEF Settled, Agrees, Undrifted, Wanted
<1>6. Alone => Alone'
  BY <1>1, <1>4, <1>5 DEF Alone, Applying
<1> QED BY <1>1, <1>3, <1>6 DEF PInv

LEMMA ExitKeeps == PInv /\ CaddyExits => PInv'
<1> SUFFICES ASSUME PInv, CaddyExits PROVE PInv'
  OBVIOUS
<1>1. /\ caddy' = [caddy EXCEPT !.up = FALSE] /\ since' = [since EXCEPT !.alone = FALSE]
      /\ UNCHANGED <<named, wildcard, disk, machine, upd, outcome, drifted>>
  BY DEF CaddyExits, Down
<1>2. caddy' \in [up : BOOLEAN, config : Configs]
  BY <1>1, TypesNow
<1>3. since' \in [alone : BOOLEAN, up : BOOLEAN, broken : BOOLEAN] /\ ~since'.alone
  BY <1>1 DEF PInv, ProxyTypeOK
<1>4. faults' \in 0..MaxFaults
  BY TypesNow DEF CaddyExits, Fault
<1> QED BY <1>1, <1>2, <1>3, <1>4 DEF PInv, ProxyTypeOK

\* Requests are gone; what is on disk is what was applied.
LEMMA RebootKeeps == PInv /\ Reboot => PInv'
<1> SUFFICES ASSUME PInv, Reboot PROVE PInv'
  OBVIOUS
<1>1. /\ upd' = [u \in Updates |-> IF u \in Applying THEN Over ELSE upd[u]]
      /\ caddy' = Started /\ faults' \in 0..MaxFaults
      /\ outcome' = IF Applying = {} THEN outcome ELSE "failed"
      /\ since' = [since EXCEPT !.up = FALSE]
      /\ UNCHANGED <<named, wildcard, disk, machine, drifted>>
  BY TypesNow DEF Reboot, Fault
<1>2. caddy' \in [up : BOOLEAN, config : Configs]
  <2>1. Down \in [up : BOOLEAN, config : Configs]
    BY TypesNow DEF Down
  <2> QED BY <1>1, <2>1, TypesNow, LoadsType DEF Started, Targets
<1>3. ProxyTypeOK'
  BY <1>1, <1>2, OverType DEF PInv, ProxyTypeOK, Outcomes
<1>4. Applying' = {} /\ \A u \in Updates : upd'[u].pc = "new" => ~upd'[u].cancelled
  BY <1>1 DEF Applying, Over, FreshUpdate, PInv
<1>5. ASSUME since'.alone PROVE Settled'
  <2>1. since.alone
    BY <1>1, <1>5 DEF PInv, ProxyTypeOK
  <2>2. CASE Applying = {}
    <3>1. Settled
      BY <2>1, <2>2 DEF PInv, Alone
    <3> QED BY <1>1, <2>2, <3>1 DEF Settled, Started, Loads, Wanted, Agrees, Undrifted
  <2>3. CASE Applying # {}
    BY <1>1, <2>3 DEF Settled
  <2> QED BY <2>2, <2>3
<1>6. ~since'.up
  BY <1>1 DEF PInv, ProxyTypeOK
<1> QED BY <1>1, <1>3, <1>4, <1>5, <1>6 DEF PInv, Alone

LEMMA NextPInv == PInv /\ [ProxyNext]_proxyVars => PInv'
<1> SUFFICES ASSUME PInv, [ProxyNext]_proxyVars PROVE PInv'
  OBVIOUS
<1>1. ASSUME NEW u \in Updates, UpdateStep(u) PROVE PInv'
  BY <1>1, SetNameKeeps, SetModeKeeps, CancelKeeps, RevertKeeps, ReadsKeep, WriteKeeps,
     NotWrittenKeeps, ValidateKeeps, ReloadKeeps, RestartKeeps, EnsureKeeps DEF UpdateStep
<1>2. CASE UNCHANGED proxyVars
  BY <1>2 DEF proxyVars, PInv, ProxyTypeOK, Alone, Applying, Sound, Settled, Wanted, Target,
     Agrees, Undrifted
<1> QED BY <1>1, <1>2, RenameKeeps, MaintainKeeps, ExitKeeps, RebootKeeps DEF ProxyNext

\* Every variable of the proxy keeps its type.
THEOREM ProxyTyped == ProxySpec => []ProxyTypeOK
<1>1. PInv => ProxyTypeOK
  BY DEF PInv
<1> QED BY <1>1, InitPInv, NextPInv, PTL DEF ProxySpec

\* An update that ran alone and was told that its configuration is applied
\* finds Caddy serving it, but for the names that other routes have changed
\* since without an apply; and no update that runs alone brings Caddy down,
\* unless a restart fails for no reason (apply_proxy_config reads, writes,
\* validates and reloads in many steps, any of which may fail, and restarts the
\* unit if the reload does).
THEOREM AppliedAndKept == ProxySpec => []ProxyServes
<1>1. PInv => ProxyServes
  BY DEF PInv, Alone, Settled, Wanted, Agrees, ProxyServes, AppliedIsServed, CaddyKept
<1> QED BY <1>1, InitPInv, NextPInv, PTL DEF ProxySpec

=============================================================================
