-------------------------- MODULE Refinery_proofs --------------------------
(***************************************************************************)
(* Proofs about Refinery, for any number of merge requests and outside     *)
(* pushes and any bounds: types, that a closed MR has landed, that no      *)
(* squash commit is left behind, that an MR is not merged while its        *)
(* conflict task is open, and that the Engineer implements MergeQueue.     *)
(***************************************************************************)
EXTENDS Refinery, TLAPS

\* The typing layer: the types, and that a busy Engineer has a submitted MR
\* with room for another conflict task.
Busy == IF pc = "idle" THEN cur = None ELSE
    /\ cur \in MRs /\ mr[cur] # "none"
    /\ IF pc = "block" THEN made[cur] > 0 ELSE made[cur] < MaxTasks
\* A branch holds what was submitted and its own fixups.
OwnCommits == \A m \in MRs : m \in commits[m] /\ commits[m] \subseteq {m} \cup Fixups
Typing == TypeOK /\ Busy /\ OwnCommits

LEMMA InitTyping == Init => Typing
  BY BoundAssumption DEF Init, Typing, TypeOK, Busy, OwnCommits

LEMMA NextTyping == Typing /\ [Next]_vars => Typing'
  <1> SUFFICES ASSUME Typing, [Next]_vars PROVE Typing'
    OBVIOUS
  <1> USE BoundAssumption
  <1> USE DEF Typing, TypeOK, Busy, OwnCommits, Changes, TaskIds, beadVars, taskVars, branchVars, gitVars,
          Flake, Outage, Fail, Goto, Done
  <1>1. CASE Environment
    <2>1. ASSUME NEW m \in MRs, NEW S \in SUBSET (MRs \cup Others), SubmitMR(m, S) PROVE Typing'
      BY <2>1 DEF SubmitMR
    <2>2. ASSUME NEW m \in MRs, NEW S \in SUBSET (MRs \cup Others), NEW f \in Fixups, AmendBranch(m, f, S)
          PROVE  Typing'
      BY <2>2 DEF AmendBranch
    <2>3. ASSUME NEW c \in Others, OtherPush(c) PROVE Typing'
      BY <2>3 DEF OtherPush
    <2>4. ASSUME NEW m \in MRs, RejectMR(m) PROVE Typing'
      BY <2>4 DEF RejectMR
    <2>5. ASSUME NEW m \in MRs, ReleaseMR(m) PROVE Typing'
      BY <2>5 DEF ReleaseMR
    <2> QED
      BY <1>1, <2>1, <2>2, <2>3, <2>4, <2>5 DEF Environment
  <1>2. ASSUME NEW m \in MRs, NEW t \in TaskIds, ResolveTask(m, t) PROVE Typing'
    BY <1>2 DEF ResolveTask
  <1>3. ASSUME NEW m \in MRs, ClaimAges(m) PROVE Typing'
    BY <1>3 DEF ClaimAges
  <1>4. ASSUME NEW m \in MRs, ClaimMR(m) PROVE Typing'
    BY <1>4 DEF ClaimMR, Ready
  <1>5. CASE EngineerStep
    <2>1. CASE PrepareFails
      BY <2>1 DEF PrepareFails
    <2>2. CASE Prepare
      BY <2>2 DEF Prepare, Pull
    <2>3. CASE CheckClean
      BY <2>3 DEF CheckClean
    <2>4. CASE CheckConflicts
      BY <2>4 DEF CheckConflicts
    <2>5. CASE PushSubmodulesFails
      BY <2>5 DEF PushSubmodulesFails
    <2>6. CASE RunGates
      BY <2>6 DEF RunGates, GatesFail
    <2>7. CASE MergeSquash
      BY <2>7 DEF MergeSquash
    <2>8. CASE MergeSquashConflict
      BY <2>8 DEF MergeSquashConflict
    <2>9. CASE MergeSquashEmpty
      BY <2>9 DEF MergeSquashEmpty
    <2>10. CASE CommitFails
      BY <2>10 DEF CommitFails
    <2>11. CASE RevFails
      BY <2>11 DEF RevFails
    <2>12. CASE AcquireMainPushSlot
      BY <2>12 DEF AcquireMainPushSlot
    <2>13. CASE PushSlotFails
      BY <2>13 DEF PushSlotFails, ResetHard
    <2>14. CASE Push
      BY <2>14 DEF Push, ReleasePushSlot
    <2>15. CASE PushFails
      BY <2>15 DEF PushFails, ReleasePushSlot
    <2>16. CASE CloseMergedMR
      BY <2>16 DEF CloseMergedMR, ReleaseConflictSlot
    <2>17. CASE CloseSourceIssue
      BY <2>17 DEF CloseSourceIssue
    <2>18. CASE DeleteMergedBranch
      BY <2>18 DEF DeleteMergedBranch
    <2>19. CASE HandleFailure
      BY <2>19 DEF HandleFailure
    <2>20. CASE DeferConflictTask
      BY <2>20 DEF DeferConflictTask
    <2>21. CASE CreateConflictTask
      BY <2>21 DEF CreateConflictTask
    <2>22. CASE CreateConflictTaskFails
      BY <2>22 DEF CreateConflictTaskFails
    <2>23. CASE BlockOnTask
      BY <2>23 DEF BlockOnTask
    <2> QED
      BY <1>5, <2>1, <2>2, <2>3, <2>4, <2>5, <2>6, <2>7, <2>8, <2>9, <2>10, <2>11,
         <2>12, <2>13, <2>14, <2>15, <2>16, <2>17, <2>18, <2>19, <2>20, <2>21,
         <2>22, <2>23 DEF EngineerStep
  <1>6. CASE Crash
    BY <1>6 DEF Crash
  <1>7. CASE UNCHANGED vars
    BY <1>7 DEF vars
  <1> QED
    BY <1>1, <1>2, <1>3, <1>4, <1>5, <1>6, <1>7 DEF Next

-----------------------------------------------------------------------------
\* The landing layer: between the squash and the push the branch's commits, the
\* late ones apart, are in the local target branch, after the push on origin.
Landing ==
    /\ pc \in {"slot", "push"} => commits[cur] \ late \subseteq local
    /\ pc \in {"closeMR", "closeIssue", "deleteBranch"} => commits[cur] \ late \subseteq origin
    /\ ClosedMeansLanded

LEMMA InitLanding == Init => Landing
  BY DEF Init, Landing, ClosedMeansLanded

LEMMA NextLanding == Typing /\ Landing /\ [Next]_vars => Landing'
  <1> SUFFICES ASSUME Typing, Landing, [Next]_vars PROVE Landing'
    OBVIOUS
  <1> USE DEF Typing, TypeOK, Busy, OwnCommits, Changes, TaskIds, beadVars, taskVars, branchVars, gitVars,
          Flake, Outage, Fail, Goto, Done,
          Landing, ClosedMeansLanded
  <1>1. CASE Environment
    <2>1. ASSUME NEW m \in MRs, NEW S \in SUBSET (MRs \cup Others), SubmitMR(m, S) PROVE Landing'
      BY <2>1 DEF SubmitMR
    <2>2. ASSUME NEW m \in MRs, NEW S \in SUBSET (MRs \cup Others), NEW f \in Fixups, AmendBranch(m, f, S)
          PROVE  Landing'
      <3>1. commits' = [commits EXCEPT ![m] = @ \cup {f}] /\ UNCHANGED <<mr, issueDone, branch, origin, local, pc, cur>>
        BY <2>2 DEF AmendBranch
      <3>2. CASE Squashed(m)
        <4>1. late' = late \cup {f}
          BY <2>2, <3>2 DEF AmendBranch
        <4>2. \A n \in MRs : commits'[n] \ late' \subseteq commits[n] \ late
          BY <3>1, <4>1
        <4> QED
          BY <3>1, <4>2
      <3>3. CASE ~Squashed(m)
        <4>1. late' = late /\ m \in branch
          BY <2>2, <3>3 DEF AmendBranch
        <4>2. \A n \in MRs : n # m => commits'[n] = commits[n]
          BY <3>1
        <4> QED
          BY <3>1, <3>3, <4>1, <4>2 DEF Squashed
      <3> QED
        BY <3>2, <3>3
    <2>3. ASSUME NEW c \in Others, OtherPush(c) PROVE Landing'
      BY <2>3 DEF OtherPush
    <2>4. ASSUME NEW m \in MRs, RejectMR(m) PROVE Landing'
      BY <2>4 DEF RejectMR
    <2>5. ASSUME NEW m \in MRs, ReleaseMR(m) PROVE Landing'
      BY <2>5 DEF ReleaseMR
    <2> QED
      BY <1>1, <2>1, <2>2, <2>3, <2>4, <2>5 DEF Environment
  <1>2. ASSUME NEW m \in MRs, NEW t \in TaskIds, ResolveTask(m, t) PROVE Landing'
    BY <1>2 DEF ResolveTask
  <1>3. ASSUME NEW m \in MRs, ClaimAges(m) PROVE Landing'
    BY <1>3 DEF ClaimAges
  <1>4. ASSUME NEW m \in MRs, ClaimMR(m) PROVE Landing'
    BY <1>4 DEF ClaimMR, Ready
  <1>5. CASE EngineerStep
    <2>1. CASE PrepareFails
      BY <2>1 DEF PrepareFails
    <2>2. CASE Prepare
      BY <2>2 DEF Prepare, Pull
    <2>3. CASE CheckClean
      BY <2>3 DEF CheckClean
    <2>4. CASE CheckConflicts
      BY <2>4 DEF CheckConflicts
    <2>5. CASE PushSubmodulesFails
      BY <2>5 DEF PushSubmodulesFails
    <2>6. CASE RunGates
      BY <2>6 DEF RunGates, GatesFail
    <2>7. CASE MergeSquash
      BY <2>7 DEF MergeSquash
    <2>8. CASE MergeSquashConflict
      BY <2>8 DEF MergeSquashConflict
    <2>9. CASE MergeSquashEmpty
      BY <2>9 DEF MergeSquashEmpty
    <2>10. CASE CommitFails
      BY <2>10 DEF CommitFails
    <2>11. CASE RevFails
      BY <2>11 DEF RevFails
    <2>12. CASE AcquireMainPushSlot
      BY <2>12 DEF AcquireMainPushSlot
    <2>13. CASE PushSlotFails
      BY <2>13 DEF PushSlotFails, ResetHard
    <2>14. CASE Push
      BY <2>14 DEF Push, ReleasePushSlot
    <2>15. CASE PushFails
      BY <2>15 DEF PushFails, ReleasePushSlot
    <2>16. CASE CloseMergedMR
      BY <2>16 DEF CloseMergedMR, ReleaseConflictSlot
    <2>17. CASE CloseSourceIssue
      BY <2>17 DEF CloseSourceIssue
    <2>18. CASE DeleteMergedBranch
      BY <2>18 DEF DeleteMergedBranch
    <2>19. CASE HandleFailure
      BY <2>19 DEF HandleFailure
    <2>20. CASE DeferConflictTask
      BY <2>20 DEF DeferConflictTask
    <2>21. CASE CreateConflictTask
      BY <2>21 DEF CreateConflictTask
    <2>22. CASE CreateConflictTaskFails
      BY <2>22 DEF CreateConflictTaskFails
    <2>23. CASE BlockOnTask
      BY <2>23 DEF BlockOnTask
    <2> QED
      BY <1>5, <2>1, <2>2, <2>3, <2>4, <2>5, <2>6, <2>7, <2>8, <2>9, <2>10, <2>11,
         <2>12, <2>13, <2>14, <2>15, <2>16, <2>17, <2>18, <2>19, <2>20, <2>21,
         <2>22, <2>23 DEF EngineerStep
  <1>6. CASE Crash
    BY <1>6 DEF Crash
  <1>7. CASE UNCHANGED vars
    BY <1>7 DEF vars
  <1> QED
    BY <1>1, <1>2, <1>3, <1>4, <1>5, <1>6, <1>7 DEF Next

\* The commit layer: origin/<target> never runs ahead of origin, and without
\* outages the only commits that origin lacks are those about to be pushed.
Unpushed == IF pc \in {"slot", "push"} THEN commits[cur] ELSE {}
Commits ==
    /\ tracking \subseteq origin
    /\ outages = 0 => local \subseteq origin \cup Unpushed

LEMMA InitCommits == Init => Commits
  BY DEF Init, Commits

LEMMA NextCommits == Typing /\ Commits /\ [Next]_vars => Commits'
  <1> SUFFICES ASSUME Typing, Commits, [Next]_vars PROVE Commits'
    OBVIOUS
  <1> USE DEF Typing, TypeOK, Busy, OwnCommits, Changes, TaskIds, beadVars, taskVars, branchVars, gitVars,
          Flake, Outage, Fail, Goto, Done,
          Commits, Unpushed
  <1>1. CASE Environment
    <2>1. ASSUME NEW m \in MRs, NEW S \in SUBSET (MRs \cup Others), SubmitMR(m, S) PROVE Commits'
      BY <2>1 DEF SubmitMR
    <2>2. ASSUME NEW m \in MRs, NEW S \in SUBSET (MRs \cup Others), NEW f \in Fixups, AmendBranch(m, f, S)
          PROVE  Commits'
      BY <2>2 DEF AmendBranch
    <2>3. ASSUME NEW c \in Others, OtherPush(c) PROVE Commits'
      BY <2>3 DEF OtherPush
    <2>4. ASSUME NEW m \in MRs, RejectMR(m) PROVE Commits'
      BY <2>4 DEF RejectMR
    <2>5. ASSUME NEW m \in MRs, ReleaseMR(m) PROVE Commits'
      BY <2>5 DEF ReleaseMR
    <2> QED
      BY <1>1, <2>1, <2>2, <2>3, <2>4, <2>5 DEF Environment
  <1>2. ASSUME NEW m \in MRs, NEW t \in TaskIds, ResolveTask(m, t) PROVE Commits'
    BY <1>2 DEF ResolveTask
  <1>3. ASSUME NEW m \in MRs, ClaimAges(m) PROVE Commits'
    BY <1>3 DEF ClaimAges
  <1>4. ASSUME NEW m \in MRs, ClaimMR(m) PROVE Commits'
    BY <1>4 DEF ClaimMR, Ready
  <1>5. CASE EngineerStep
    <2>1. CASE PrepareFails
      BY <2>1 DEF PrepareFails
    <2>2. CASE Prepare
      BY <2>2 DEF Prepare, Pull
    <2>3. CASE CheckClean
      BY <2>3 DEF CheckClean
    <2>4. CASE CheckConflicts
      BY <2>4 DEF CheckConflicts
    <2>5. CASE PushSubmodulesFails
      BY <2>5 DEF PushSubmodulesFails
    <2>6. CASE RunGates
      BY <2>6 DEF RunGates, GatesFail
    <2>7. CASE MergeSquash
      BY <2>7 DEF MergeSquash
    <2>8. CASE MergeSquashConflict
      BY <2>8 DEF MergeSquashConflict
    <2>9. CASE MergeSquashEmpty
      BY <2>9 DEF MergeSquashEmpty
    <2>10. CASE CommitFails
      BY <2>10 DEF CommitFails
    <2>11. CASE RevFails
      BY <2>11 DEF RevFails
    <2>12. CASE AcquireMainPushSlot
      BY <2>12 DEF AcquireMainPushSlot
    <2>13. CASE PushSlotFails
      BY <2>13 DEF PushSlotFails, ResetHard
    <2>14. CASE Push
      BY <2>14 DEF Push, ReleasePushSlot
    <2>15. CASE PushFails
      BY <2>15 DEF PushFails, ReleasePushSlot
    <2>16. CASE CloseMergedMR
      BY <2>16 DEF CloseMergedMR, ReleaseConflictSlot
    <2>17. CASE CloseSourceIssue
      BY <2>17 DEF CloseSourceIssue
    <2>18. CASE DeleteMergedBranch
      BY <2>18 DEF DeleteMergedBranch
    <2>19. CASE HandleFailure
      BY <2>19 DEF HandleFailure
    <2>20. CASE DeferConflictTask
      BY <2>20 DEF DeferConflictTask
    <2>21. CASE CreateConflictTask
      BY <2>21 DEF CreateConflictTask
    <2>22. CASE CreateConflictTaskFails
      BY <2>22 DEF CreateConflictTaskFails
    <2>23. CASE BlockOnTask
      BY <2>23 DEF BlockOnTask
    <2> QED
      BY <1>5, <2>1, <2>2, <2>3, <2>4, <2>5, <2>6, <2>7, <2>8, <2>9, <2>10, <2>11,
         <2>12, <2>13, <2>14, <2>15, <2>16, <2>17, <2>18, <2>19, <2>20, <2>21,
         <2>22, <2>23 DEF EngineerStep
  <1>6. CASE Crash
    BY <1>6 DEF Crash
  <1>7. CASE UNCHANGED vars
    BY <1>7 DEF vars
  <1> QED
    BY <1>1, <1>2, <1>3, <1>4, <1>5, <1>6, <1>7 DEF Next

\* The resolution layer: an open conflict task blocks its MR, except in the
\* moment between its creation and AddDependency.
Unblocked(m) == IF pc = "block" /\ cur = m THEN {made[m]} ELSE {}
Resolution == outages = 0 =>
    /\ \A m \in MRs : openTasks[m] \subseteq deps[m] \cup Unblocked(m)
    /\ pc \notin {"idle", "block"} => openTasks[cur] = {}

LEMMA InitResolution == Init => Resolution
  BY DEF Init, Resolution

LEMMA NextResolution == Typing /\ Resolution /\ [Next]_vars => Resolution'
  <1> SUFFICES ASSUME Typing, Resolution, [Next]_vars PROVE Resolution'
    OBVIOUS
  <1> USE DEF Typing, TypeOK, Busy, OwnCommits, Changes, TaskIds, beadVars, taskVars, branchVars, gitVars,
          Flake, Outage, Fail, Goto, Done,
          Resolution, Unblocked
  <1>1. CASE Environment
    <2>1. ASSUME NEW m \in MRs, NEW S \in SUBSET (MRs \cup Others), SubmitMR(m, S) PROVE Resolution'
      BY <2>1 DEF SubmitMR
    <2>2. ASSUME NEW m \in MRs, NEW S \in SUBSET (MRs \cup Others), NEW f \in Fixups, AmendBranch(m, f, S)
          PROVE  Resolution'
      BY <2>2 DEF AmendBranch
    <2>3. ASSUME NEW c \in Others, OtherPush(c) PROVE Resolution'
      BY <2>3 DEF OtherPush
    <2>4. ASSUME NEW m \in MRs, RejectMR(m) PROVE Resolution'
      BY <2>4 DEF RejectMR
    <2>5. ASSUME NEW m \in MRs, ReleaseMR(m) PROVE Resolution'
      BY <2>5 DEF ReleaseMR
    <2> QED
      BY <1>1, <2>1, <2>2, <2>3, <2>4, <2>5 DEF Environment
  <1>2. ASSUME NEW m \in MRs, NEW t \in TaskIds, ResolveTask(m, t) PROVE Resolution'
    BY <1>2 DEF ResolveTask
  <1>3. ASSUME NEW m \in MRs, ClaimAges(m) PROVE Resolution'
    BY <1>3 DEF ClaimAges
  <1>4. ASSUME NEW m \in MRs, ClaimMR(m) PROVE Resolution'
    BY <1>4 DEF ClaimMR, Ready, FirstOpenBlocker
  <1>5. CASE EngineerStep
    <2>1. CASE PrepareFails
      BY <2>1 DEF PrepareFails
    <2>2. CASE Prepare
      BY <2>2 DEF Prepare, Pull
    <2>3. CASE CheckClean
      BY <2>3 DEF CheckClean
    <2>4. CASE CheckConflicts
      BY <2>4 DEF CheckConflicts
    <2>5. CASE PushSubmodulesFails
      BY <2>5 DEF PushSubmodulesFails
    <2>6. CASE RunGates
      BY <2>6 DEF RunGates, GatesFail
    <2>7. CASE MergeSquash
      BY <2>7 DEF MergeSquash
    <2>8. CASE MergeSquashConflict
      BY <2>8 DEF MergeSquashConflict
    <2>9. CASE MergeSquashEmpty
      BY <2>9 DEF MergeSquashEmpty
    <2>10. CASE CommitFails
      BY <2>10 DEF CommitFails
    <2>11. CASE RevFails
      BY <2>11 DEF RevFails
    <2>12. CASE AcquireMainPushSlot
      BY <2>12 DEF AcquireMainPushSlot
    <2>13. CASE PushSlotFails
      BY <2>13 DEF PushSlotFails, ResetHard
    <2>14. CASE Push
      BY <2>14 DEF Push, ReleasePushSlot
    <2>15. CASE PushFails
      BY <2>15 DEF PushFails, ReleasePushSlot
    <2>16. CASE CloseMergedMR
      BY <2>16 DEF CloseMergedMR, ReleaseConflictSlot
    <2>17. CASE CloseSourceIssue
      BY <2>17 DEF CloseSourceIssue
    <2>18. CASE DeleteMergedBranch
      BY <2>18 DEF DeleteMergedBranch
    <2>19. CASE HandleFailure
      BY <2>19 DEF HandleFailure
    <2>20. CASE DeferConflictTask
      BY <2>20 DEF DeferConflictTask
    <2>21. CASE CreateConflictTask
      BY <2>21 DEF CreateConflictTask
    <2>22. CASE CreateConflictTaskFails
      BY <2>22 DEF CreateConflictTaskFails
    <2>23. CASE BlockOnTask
      BY <2>23 DEF BlockOnTask
    <2> QED
      BY <1>5, <2>1, <2>2, <2>3, <2>4, <2>5, <2>6, <2>7, <2>8, <2>9, <2>10, <2>11,
         <2>12, <2>13, <2>14, <2>15, <2>16, <2>17, <2>18, <2>19, <2>20, <2>21,
         <2>22, <2>23 DEF EngineerStep
  <1>6. CASE Crash
    BY <1>6 DEF Crash
  <1>7. CASE UNCHANGED vars
    BY <1>7 DEF vars
  <1> QED
    BY <1>1, <1>2, <1>3, <1>4, <1>5, <1>6, <1>7 DEF Next

-----------------------------------------------------------------------------
LEMMA Inductive == Spec => [](Typing /\ Landing /\ Commits /\ Resolution)
  <1>1. Spec => []Typing
    BY InitTyping, NextTyping, PTL DEF Spec
  <1>2. Spec => []Landing
    BY <1>1, InitLanding, NextLanding, PTL DEF Spec
  <1>3. Spec => []Commits
    BY <1>1, InitCommits, NextCommits, PTL DEF Spec
  <1>4. Spec => []Resolution
    BY <1>1, InitResolution, NextResolution, PTL DEF Spec
  <1> QED
    BY <1>1, <1>2, <1>3, <1>4, PTL

\* Every variable keeps its type under every step of the merge queue.
THEOREM TypeCorrect == Spec => []TypeOK
  BY Inductive, PTL DEF Typing

\* HandleMRInfoSuccess closes MRs and issues and deletes branches only if every
\* commit made before the squash is on origin, for every interleaving with
\* pushes of others, amended branches, crashes and failing calls.
THEOREM MergedHasLanded == Spec => []ClosedMeansLanded
  BY Inductive, PTL DEF Landing

\* Without outages no exit of doMerge leaves a squash commit behind.
THEOREM NothingStranded == Spec => []NoStrandedCommit
  <1>1. Typing /\ Commits => NoStrandedCommit
    BY DEF Typing, TypeOK, Commits, Unpushed, NoStrandedCommit
  <1> QED
    BY <1>1, Inductive, PTL

\* Without outages an MR is not being merged while a polecat resolves its
\* conflicts.
THEOREM ResolutionExclusive == Spec => []NoMergeDuringResolution
  <1>1. Typing /\ Resolution => NoMergeDuringResolution
    BY NamesAssumption DEF Typing, TypeOK, Busy, OwnCommits, Resolution, NoMergeDuringResolution
  <1> QED
    BY <1>1, Inductive, PTL

-----------------------------------------------------------------------------
AbstractStep == [Abstract!Next]_<<origin \cap MRs, mr>>

\* A step that changes neither the landed changes nor an MR is invisible.
LEMMA AbstractNext ==
  ASSUME MaxOutages = 0, Typing, Landing, Commits, [Next]_vars
  PROVE  AbstractStep
  <1> USE DEF AbstractStep, Typing, TypeOK, Busy, OwnCommits, Landing, Commits, Unpushed, Outage, Flake, beadVars, taskVars,
          branchVars, gitVars
  <1>1. CASE Environment
    <2>1. ASSUME NEW m \in MRs, NEW S \in SUBSET (MRs \cup Others), SubmitMR(m, S) PROVE AbstractStep
      BY <2>1 DEF SubmitMR, Abstract!Next, Abstract!Submit
    <2>2. ASSUME NEW m \in MRs, NEW S \in SUBSET (MRs \cup Others), NEW f \in Fixups, AmendBranch(m, f, S)
          PROVE  AbstractStep
      BY <2>2 DEF AmendBranch
    <2>3. ASSUME NEW c \in Others, OtherPush(c) PROVE AbstractStep
      BY <2>3, NamesAssumption DEF OtherPush
    <2>4. ASSUME NEW m \in MRs, RejectMR(m) PROVE AbstractStep
      BY <2>4 DEF RejectMR, Abstract!Next, Abstract!Reject
    <2>5. ASSUME NEW m \in MRs, ReleaseMR(m) PROVE AbstractStep
      BY <2>5 DEF ReleaseMR
    <2> QED
      BY <1>1, <2>1, <2>2, <2>3, <2>4, <2>5 DEF Environment
  <1>2. ASSUME NEW m \in MRs, NEW t \in TaskIds, ResolveTask(m, t) PROVE AbstractStep
    BY <1>2 DEF ResolveTask
  <1>3. ASSUME NEW m \in MRs, ClaimAges(m) PROVE AbstractStep
    BY <1>3 DEF ClaimAges
  <1>4. ASSUME NEW m \in MRs, ClaimMR(m) PROVE AbstractStep
    BY <1>4 DEF ClaimMR, Ready
  <1>5. CASE EngineerStep
    <2>1. CASE PrepareFails
      BY <2>1 DEF PrepareFails
    <2>2. CASE Prepare
      BY <2>2 DEF Prepare, Pull
    <2>3. CASE CheckClean
      BY <2>3 DEF CheckClean
    <2>4. CASE CheckConflicts
      BY <2>4 DEF CheckConflicts
    <2>5. CASE PushSubmodulesFails
      BY <2>5 DEF PushSubmodulesFails
    <2>6. CASE RunGates
      BY <2>6 DEF RunGates, GatesFail
    <2>7. CASE MergeSquash
      BY <2>7 DEF MergeSquash
    <2>8. CASE MergeSquashConflict
      BY <2>8 DEF MergeSquashConflict
    <2>9. CASE MergeSquashEmpty
      BY <2>9 DEF MergeSquashEmpty
    <2>10. CASE CommitFails
      BY <2>10 DEF CommitFails
    <2>11. CASE RevFails
      BY <2>11 DEF RevFails
    <2>12. CASE AcquireMainPushSlot
      BY <2>12 DEF AcquireMainPushSlot
    <2>13. CASE PushSlotFails
      BY <2>13 DEF PushSlotFails, ResetHard
    <2>14. CASE Push
      <3>1. cur \in local /\ cur \in MRs /\ mr[cur] # "none"
        BY <2>14, NamesAssumption DEF Push
      <3>2. /\ origin \subseteq local /\ origin' = local /\ mr' = mr
            /\ local \subseteq origin \cup commits[cur] /\ commits[cur] \subseteq {cur} \cup Fixups
        BY <2>14, <3>1, BoundAssumption DEF Push
      <3>3. CASE cur \in origin
        BY <3>1, <3>2, <3>3, NamesAssumption
      <3>4. CASE cur \notin origin
        <4>1. origin' \cap MRs = (origin \cap MRs) \cup {cur} /\ cur \notin origin \cap MRs
          BY <3>1, <3>2, <3>4, NamesAssumption
        <4>2. Abstract!Land(cur)
          BY <3>1, <3>2, <4>1 DEF Abstract!Land
        <4> QED
          BY <3>1, <4>2 DEF Abstract!Next
      <3> QED
        BY <3>3, <3>4
    <2>15. CASE PushFails
      BY <2>15 DEF PushFails, ReleasePushSlot
    <2>16. CASE CloseMergedMR
      <3>1. cur \in MRs /\ cur \in origin /\ origin' = origin /\ mr[cur] \in {"open", "rejected", "merged"}
        BY <2>16, NamesAssumption DEF CloseMergedMR
      <3>2. mr' = [mr EXCEPT ![cur] = "merged"]
        BY <2>16 DEF CloseMergedMR
      <3>3. CASE mr[cur] = "merged"
        BY <3>1, <3>2, <3>3
      <3>4. CASE mr[cur] # "merged"
        BY <3>1, <3>2, <3>4 DEF Abstract!Next, Abstract!Finish
      <3> QED
        BY <3>3, <3>4
    <2>17. CASE CloseSourceIssue
      BY <2>17 DEF CloseSourceIssue
    <2>18. CASE DeleteMergedBranch
      BY <2>18 DEF DeleteMergedBranch
    <2>19. CASE HandleFailure
      BY <2>19 DEF HandleFailure
    <2>20. CASE DeferConflictTask
      BY <2>20 DEF DeferConflictTask
    <2>21. CASE CreateConflictTask
      BY <2>21 DEF CreateConflictTask
    <2>22. CASE CreateConflictTaskFails
      BY <2>22 DEF CreateConflictTaskFails
    <2>23. CASE BlockOnTask
      BY <2>23 DEF BlockOnTask
    <2> QED
      BY <1>5, <2>1, <2>2, <2>3, <2>4, <2>5, <2>6, <2>7, <2>8, <2>9, <2>10, <2>11,
         <2>12, <2>13, <2>14, <2>15, <2>16, <2>17, <2>18, <2>19, <2>20, <2>21,
         <2>22, <2>23 DEF EngineerStep
  <1>6. CASE Crash
    BY <1>6 DEF Crash
  <1>7. CASE UNCHANGED vars
    BY <1>7 DEF vars
  <1> QED
    BY <1>1, <1>2, <1>3, <1>4, <1>5, <1>6, <1>7 DEF Next

\* Without outages the Engineer, its slot, its polecats and the outside pushers
\* implement the abstract merge queue.
THEOREM Implements == MaxOutages = 0 /\ Spec => ImplementsMergeQueue
  <1>1. Init => Abstract!Init
    BY DEF Init, Abstract!Init
  <1>2. Typing /\ Landing /\ Commits /\ MaxOutages = 0 /\ [Next]_vars
        => AbstractStep
    BY AbstractNext
  <1>3. ASSUME MaxOutages = 0 PROVE Spec => ImplementsMergeQueue
    <2>1. MaxOutages = 0
      BY <1>3
    <2>2. Typing /\ Landing /\ Commits /\ [Next]_vars => AbstractStep
      BY <1>2, <2>1
    <2> QED
      BY <1>1, <2>2, Inductive, PTL DEF Spec, ImplementsMergeQueue, Abstract!Spec, AbstractStep
  <1> QED
    BY <1>3
=============================================================================
