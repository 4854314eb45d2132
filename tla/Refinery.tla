------------------------------ MODULE Refinery ------------------------------
(***************************************************************************)
(* The merge queue: src/internal/refinery/engineer.go with the merge slot  *)
(* of src/internal/beads/beads_merge_slot.go and the git calls of          *)
(* src/internal/git/git.go, for the merge requests whose target is the     *)
(* rig's default branch.                                                   *)
(*                                                                         *)
(* One Engineer claims an open MR, runs doMerge and then                   *)
(* HandleMRInfoSuccess or HandleMRInfoFailure.  Meanwhile polecats submit, *)
(* amend and rebase branches (the branch refs are shared with the          *)
(* refinery's clone), other people push to origin, an operator rejects     *)
(* MRs, and the Engineer's process may die between any two steps.          *)
(*                                                                         *)
(* A version of the target branch is the set of changes it contains; a     *)
(* push is a fast-forward iff it only adds to origin's set.                *)
(***************************************************************************)
EXTENDS Naturals, FiniteSets

CONSTANTS
    MRs,          \* merge requests; m also names its branch and what was submitted
    Others,       \* changes pushed to origin by somebody else
    None,
    Fixups,       \* commits that polecats add to a submitted branch
    MaxTasks,     \* bound: conflict tasks per MR
    MaxFlakes,    \* bound: transient failures before a change has landed
    MaxOutages    \* bound: process deaths and failing bead or git clean-up calls

ASSUME NamesAssumption ==
    MRs \cap Others = {} /\ MRs \cap Fixups = {} /\ Others \cap Fixups = {} /\ None \notin MRs
ASSUME BoundAssumption == {MaxTasks, MaxFlakes, MaxOutages} \subseteq Nat

VARIABLES
    \* beads
    mr,        \* MR -> "none", "open", "merged" or "rejected"
    claim,     \* MR -> its assignee: "none", "fresh", or "aged" (isClaimStale)
    issueDone, \* source issues closed by the refinery
    made,      \* MR -> conflict tasks created for it
    openTasks, \* MR -> those still open
    deps,      \* MR -> those the MR is blocked by
    slot,      \* "free", "conflict" (<rig>/refinery), "push" (the current push
               \* holder) or "orphan" (a push holder nobody remembers)
    \* git
    branch,    \* the branches that exist
    commits,   \* MR -> the changes on its branch: m itself and later fixups
    base,      \* MR -> the changes its branch is rebased onto
    clash,     \* MR -> the changes its branch conflicts with (fixups aside)
    origin,    \* the target branch on origin
    tracking,  \* the refinery's origin/<target>
    local,     \* the refinery's local target branch
    worktree,  \* the refinery's index: "clean", "staged" (a squash that was not
               \* committed) or "unmerged"
    \* the Engineer
    pc, cur, result,
    \* history: fixups made after the squash of their branch, not on origin
    late,
    \* bounds
    flakes, outages

beadVars == <<mr, claim, issueDone, made, openTasks, deps>>
taskVars == <<made, openTasks, deps>>
branchVars == <<branch, commits, base, clash, late>>
gitVars == <<origin, tracking, local, worktree>>
vars == <<beadVars, slot, branchVars, gitVars, pc, cur, result, flakes, outages>>

Changes == MRs \cup Fixups \cup Others
TaskIds == 1..MaxTasks

TypeOK ==
    /\ mr \in [MRs -> {"none", "open", "merged", "rejected"}]
    /\ claim \in [MRs -> {"none", "fresh", "aged"}]
    /\ issueDone \subseteq MRs
    /\ made \in [MRs -> 0..MaxTasks]
    /\ openTasks \in [MRs -> SUBSET TaskIds]
    /\ deps \in [MRs -> SUBSET TaskIds]
    /\ slot \in {"free", "conflict", "push", "orphan"}
    /\ branch \subseteq MRs
    /\ commits \in [MRs -> SUBSET (MRs \cup Fixups)]
    /\ base \in [MRs -> SUBSET Changes]
    /\ clash \in [MRs -> SUBSET (MRs \cup Others)]
    /\ origin \subseteq Changes
    /\ tracking \subseteq Changes
    /\ local \subseteq Changes
    /\ worktree \in {"clean", "staged", "unmerged"}
    /\ pc \in {"idle", "prepare", "check", "gates", "squash", "slot", "push",
               "closeMR", "closeIssue", "deleteBranch", "failed", "task", "block"}
    /\ cur \in MRs \cup {None}
    /\ result \in {"none", "success", "conflict", "tests", "slotTimeout", "error"}
    /\ late \subseteq Fixups
    /\ flakes \in 0..MaxFlakes
    /\ outages \in 0..MaxOutages

Init ==
    /\ mr = [m \in MRs |-> "none"]
    /\ claim = [m \in MRs |-> "none"]
    /\ issueDone = {}
    /\ made = [m \in MRs |-> 0]
    /\ openTasks = [m \in MRs |-> {}]
    /\ deps = [m \in MRs |-> {}]
    /\ slot = "free"
    /\ branch = {}
    /\ commits = [m \in MRs |-> {m}]
    /\ base = [m \in MRs |-> {}]
    /\ clash = [m \in MRs |-> {}]
    /\ origin = {} /\ tracking = {} /\ local = {}
    /\ worktree = "clean"
    /\ pc = "idle" /\ cur = None /\ result = "none"
    /\ late = {}
    /\ flakes = 0 /\ outages = 0

Flake  == flakes < MaxFlakes /\ flakes' = flakes + 1
Outage == outages < MaxOutages /\ outages' = outages + 1

\* doMerge returns r; HandleMRInfoFailure is next.
Fail(r) == pc' = "failed" /\ result' = r
Goto(p) == pc' = p /\ UNCHANGED result
\* The Engineer is done with the MR.
Done == pc' = "idle" /\ cur' = None /\ result' = "none"

-----------------------------------------------------------------------------
(***************************************************************************)
(* Polecats, other pushers, the operator.                                  *)
(***************************************************************************)
\* gt done: the branch is pushed and the MR bead created.
SubmitMR(m, S) ==
    /\ mr[m] = "none"
    /\ mr' = [mr EXCEPT ![m] = "open"]
    /\ branch' = branch \cup {m}
    /\ base' = [base EXCEPT ![m] = origin]
    /\ clash' = [clash EXCEPT ![m] = S \ {m}]
    /\ UNCHANGED <<claim, issueDone, taskVars, slot, commits, late, gitVars, pc, cur, result, flakes, outages>>

\* The branch of m has been squashed for good: what is added to it now is not
\* in that squash, and nothing looks at the branch again before it is deleted.
Squashed(m) ==
    \/ cur = m /\ pc \in {"slot", "push", "closeMR", "closeIssue", "deleteBranch"}
    \/ mr[m] # "open" \/ m \in issueDone

\* A polecat commits to its branch after submitting it, at any time.
AmendBranch(m, f, S) ==
    /\ m \in branch
    /\ f \notin UNION {commits[n] : n \in MRs}
    /\ commits' = [commits EXCEPT ![m] = @ \cup {f}]
    /\ clash' = [clash EXCEPT ![m] = S \ {m}]
    /\ late' = IF Squashed(m) THEN late \cup {f} ELSE late
    /\ UNCHANGED <<beadVars, slot, branch, base, gitVars, pc, cur, result, flakes, outages>>

\* A polecat works on a conflict task: rebase onto origin, force-push, bd close.
ResolveTask(m, t) ==
    /\ t \in openTasks[m]
    /\ base' = IF m \in branch THEN [base EXCEPT ![m] = origin] ELSE base
    /\ openTasks' = [openTasks EXCEPT ![m] = @ \ {t}]
    /\ UNCHANGED <<mr, claim, issueDone, made, deps, slot, branch, commits, clash, late, gitVars, pc,
                   cur, result, flakes, outages>>

OtherPush(c) ==
    /\ c \notin origin
    /\ origin' = origin \cup {c}
    /\ UNCHANGED <<beadVars, slot, branchVars, tracking, local, worktree, pc, cur, result,
                   flakes, outages>>

RejectMR(m) ==
    /\ mr[m] = "open"
    /\ mr' = [mr EXCEPT ![m] = "rejected"]
    /\ UNCHANGED <<claim, issueDone, taskVars, slot, branchVars, gitVars, pc, cur, result,
                   flakes, outages>>

\* Nothing has updated the MR bead for StaleClaimTimeout.
ClaimAges(m) ==
    /\ claim[m] = "fresh" /\ m # cur
    /\ claim' = [claim EXCEPT ![m] = "aged"]
    /\ UNCHANGED <<mr, issueDone, taskVars, slot, branchVars, gitVars, pc, cur, result,
                   flakes, outages>>

-----------------------------------------------------------------------------
(***************************************************************************)
(* The queue: ListReadyMRs, ClaimMR, ReleaseMR.                            *)
(***************************************************************************)
FirstOpenBlocker(m) == deps[m] \cap openTasks[m]
\* Mutants: open blockers are ignored; a stale claim is never taken over.
MutIgnoreBlockers(m) == mr[m] = "open" /\ claim[m] # "fresh"
MutNoReclaim(m) == mr[m] = "open" /\ FirstOpenBlocker(m) = {} /\ claim[m] = "none"

Ready(m) ==
    /\ mr[m] = "open"
    /\ FirstOpenBlocker(m) = {}
    /\ claim[m] # "fresh"

\* The bound: no claim of an MR that has used up its conflict tasks.
ClaimMR(m) ==
    /\ pc = "idle"
    /\ Ready(m)
    /\ made[m] < MaxTasks
    /\ claim' = [claim EXCEPT ![m] = "fresh"]
    /\ cur' = m
    /\ Goto("prepare")
    /\ UNCHANGED <<mr, issueDone, taskVars, slot, branchVars, gitVars, flakes, outages>>

\* gt refinery release, after a failure.
ReleaseMR(m) ==
    /\ pc = "idle"
    /\ mr[m] = "open" /\ claim[m] # "none"
    /\ claim' = [claim EXCEPT ![m] = "none"]
    /\ UNCHANGED <<mr, issueDone, taskVars, slot, branchVars, gitVars, pc, cur, result,
                   flakes, outages>>

-----------------------------------------------------------------------------
(***************************************************************************)
(* doMerge                                                                 *)
(***************************************************************************)
\* git checkout refuses to leave an unmerged index.
PrepareFails ==
    /\ pc = "prepare"
    /\ cur \notin branch \/ worktree = "unmerged"
    /\ Fail("error")
    /\ UNCHANGED <<beadVars, slot, branchVars, gitVars, cur, flakes, outages>>

\* git pull: the fetch moves origin/<target>; then the local branch is
\* fast-forwarded, unless staged changes are in the way.  If it has diverged,
\* git merges or refuses, as it is configured.  doMerge goes on in any case.
Pull ==
    /\ tracking' = origin
    /\ \/ local \subseteq origin /\ local' = origin
       \/ worktree = "staged" /\ local' = local
       \/ ~(local \subseteq origin) /\ worktree = "clean" /\ local' \in {local, local \cup origin}

Prepare ==
    /\ pc = "prepare"
    /\ cur \in branch /\ worktree # "unmerged"
    /\ Goto("check")
    /\ \/ Pull /\ UNCHANGED flakes
       \/ Flake /\ UNCHANGED <<tracking, local>>  \* the pull fails: continue
    /\ UNCHANGED <<beadVars, slot, branchVars, origin, worktree, cur, outages>>

Conflicts(m) == clash[m] \cap (local \ base[m]) # {}
\* The branch is an ancestor of the target: git merge has nothing to do.
UpToDate(m) == commits[m] \subseteq base[m] /\ base[m] \subseteq local

\* The test merge, which is undone with reset --hard if it succeeds.
CheckClean ==
    /\ pc = "check"
    /\ UpToDate(cur) \/ (worktree = "clean" /\ ~Conflicts(cur))
    /\ worktree' = "clean"
    /\ Goto("gates")
    /\ UNCHANGED <<beadVars, slot, branchVars, origin, tracking, local, cur, flakes, outages>>

\* Conflicting files, or an error of git, which counts as a conflict.  With
\* staged changes git refuses to merge, and there is nothing to abort: the
\* index stays as it is.
CheckConflicts ==
    /\ pc = "check"
    /\ \/ Conflicts(cur) /\ UNCHANGED flakes
       \/ worktree = "staged" /\ ~UpToDate(cur) /\ UNCHANGED flakes
       \/ Flake
    /\ Fail("conflict")
    /\ UNCHANGED <<beadVars, slot, branchVars, gitVars, cur, outages>>

\* The branch moves a submodule, and git submodule init or the push of the
\* submodule's commit fails.
PushSubmodulesFails ==
    /\ pc = "gates"
    /\ Flake
    /\ Fail("error")
    /\ UNCHANGED <<beadVars, slot, branchVars, gitVars, cur, outages>>

\* runGates or runTests: every attempt fails, a gate fails or times out.
GatesFail == Flake

\* They run in the worktree as CheckConflicts has left it, on the target without the change.
RunGates ==
    /\ pc = "gates"
    /\ \/ Goto("squash") /\ UNCHANGED flakes
       \/ GatesFail /\ Fail("tests")
    /\ UNCHANGED <<beadVars, slot, branchVars, gitVars, cur, outages>>

\* git merge --squash; git commit: all the commits of the branch that the
\* target lacks become one.
MergeSquash ==
    /\ pc = "squash"
    /\ ~Conflicts(cur) /\ ~(commits[cur] \subseteq local)
    /\ local' = local \cup commits[cur]
    /\ Goto("slot")
    /\ UNCHANGED <<beadVars, slot, branchVars, origin, tracking, worktree, cur, flakes, outages>>

\* The branch changed during the gates.  A squash leaves no MERGE_HEAD, so
\* AbortMerge (git merge --abort) fails and its error is ignored.
MergeSquashConflict ==
    /\ pc = "squash"
    /\ Conflicts(cur)
    /\ worktree' = "unmerged"
    /\ Fail("conflict")
    /\ UNCHANGED <<beadVars, slot, branchVars, origin, tracking, local, cur, flakes, outages>>

\* Nothing to commit: the branch's commits are in the target already.
MergeSquashEmpty ==
    /\ pc = "squash"
    /\ ~Conflicts(cur) /\ commits[cur] \subseteq local
    /\ Fail("error")
    /\ UNCHANGED <<beadVars, slot, branchVars, gitVars, cur, flakes, outages>>

\* git commit fails (a hook, a full disk): the squash stays in the index.
CommitFails ==
    /\ pc = "squash"
    /\ ~Conflicts(cur) /\ ~(commits[cur] \subseteq local)
    /\ Flake
    /\ worktree' = "staged"
    /\ Fail("error")
    /\ UNCHANGED <<beadVars, slot, branchVars, origin, tracking, local, cur, outages>>

\* Rev("HEAD") fails: doMerge returns with the squash commit in place.
RevFails ==
    /\ pc = "slot"
    /\ Outage
    /\ Fail("error")
    /\ UNCHANGED <<beadVars, slot, branchVars, gitVars, cur, flakes>>

\* acquireMainPushSlot succeeds, or bypasses its own conflict-resolution hold.
AcquireMainPushSlot ==
    /\ pc = "slot"
    /\ slot \in {"free", "conflict"}
    /\ slot' = IF slot = "free" THEN "push" ELSE slot
    /\ Goto("push")
    /\ UNCHANGED <<beadVars, branchVars, gitVars, cur, flakes, outages>>

\* ResetHard("origin/" + target); a failure is only a warning.
ResetHard ==
    \/ local' = tracking /\ UNCHANGED outages
    \/ Outage /\ UNCHANGED local

\* Mutant: no reset after a slot failure.
MutSlotFailsNoReset ==
    /\ pc = "slot"
    /\ \/ slot = "orphan" /\ Fail("slotTimeout") /\ UNCHANGED flakes
       \/ Flake /\ Fail("error")
    /\ UNCHANGED <<beadVars, slot, branchVars, gitVars, cur, outages>>

\* All retries find the slot held by a push that nobody will release, or bd
\* fails.
PushSlotFails ==
    /\ pc = "slot"
    /\ \/ slot = "orphan" /\ Fail("slotTimeout") /\ UNCHANGED flakes
       \/ Flake /\ Fail("error")
    /\ ResetHard
    /\ UNCHANGED <<beadVars, slot, branchVars, origin, tracking, worktree, cur>>

\* The deferred release of the push holder; a failure is only a warning.
ReleasePushSlot ==
    \/ slot = "push" /\ slot' = "free" /\ UNCHANGED outages
    \/ slot = "push" /\ slot' = "orphan" /\ Outage
    \/ slot # "push" /\ UNCHANGED <<slot, outages>>

Push ==
    /\ pc = "push"
    /\ origin \subseteq local
    /\ origin' = local /\ tracking' = local
    /\ late' = late \ local
    /\ ReleasePushSlot
    /\ pc' = "closeMR" /\ result' = "success"
    /\ UNCHANGED <<beadVars, branch, commits, base, clash, local, worktree, cur, flakes>>

\* Mutants: a failed push is reported as a success, or is not undone.
MutPushErrorIgnored ==
    /\ pc = "push"
    /\ \/ ~(origin \subseteq local) /\ UNCHANGED flakes
       \/ Flake
    /\ pc' = "closeMR" /\ result' = "success"
    /\ ReleasePushSlot
    /\ UNCHANGED <<beadVars, branchVars, gitVars, cur>>

MutPushFailsNoReset ==
    /\ pc = "push"
    /\ \/ ~(origin \subseteq local) /\ UNCHANGED flakes
       \/ Flake
    /\ Fail("error")
    /\ ReleasePushSlot
    /\ UNCHANGED <<beadVars, branchVars, gitVars, cur>>

\* Not a fast-forward, or the network.  (At most one of the two clean-ups
\* fails.)
PushFails ==
    /\ pc = "push"
    /\ \/ ~(origin \subseteq local) /\ UNCHANGED flakes
       \/ Flake
    /\ Fail("error")
    /\ \/ local' = tracking /\ ReleasePushSlot
       \/ /\ Outage /\ UNCHANGED local
          /\ slot' = IF slot = "push" THEN "free" ELSE slot
    /\ UNCHANGED <<beadVars, branchVars, origin, tracking, worktree, cur>>

-----------------------------------------------------------------------------
(***************************************************************************)
(* HandleMRInfoSuccess.  Every call in it is best-effort.                  *)
(***************************************************************************)
ReleaseConflictSlot == slot' = IF slot = "conflict" THEN "free" ELSE slot

CloseMergedMR ==
    /\ pc = "closeMR"
    /\ ReleaseConflictSlot
    /\ \/ mr' = [mr EXCEPT ![cur] = "merged"] /\ UNCHANGED outages
       \/ Outage /\ UNCHANGED mr
    /\ Goto("closeIssue")
    /\ UNCHANGED <<claim, issueDone, taskVars, branchVars, gitVars, cur, flakes>>

CloseSourceIssue ==
    /\ pc = "closeIssue"
    /\ \/ issueDone' = issueDone \cup {cur} /\ UNCHANGED outages
       \/ Outage /\ UNCHANGED issueDone
    /\ Goto("deleteBranch")
    /\ UNCHANGED <<mr, claim, taskVars, slot, branchVars, gitVars, cur, flakes>>

DeleteMergedBranch ==
    /\ pc = "deleteBranch"
    /\ \/ branch' = branch \ {cur} /\ UNCHANGED outages
       \/ Outage /\ UNCHANGED branch
    /\ Done
    /\ UNCHANGED <<beadVars, slot, commits, base, clash, late, gitVars, flakes>>

-----------------------------------------------------------------------------
(***************************************************************************)
(* HandleMRInfoFailure and createConflictResolutionTaskForMR.              *)
(***************************************************************************)
\* A slot timeout returns at once; other failures notify the witness.
HandleFailure ==
    /\ pc = "failed"
    /\ IF result = "conflict" THEN Goto("task") /\ UNCHANGED cur ELSE Done
    /\ UNCHANGED <<beadVars, slot, branchVars, gitVars, flakes, outages>>

\* The slot is held by somebody else: the MR stays in the queue.
DeferConflictTask ==
    /\ pc = "task"
    /\ slot = "orphan"
    /\ Done
    /\ UNCHANGED <<beadVars, slot, branchVars, gitVars, flakes, outages>>

\* The slot is free or held by the conflict path itself; or bd fails, and the
\* task is created without it.
CreateConflictTask ==
    /\ pc = "task"
    /\ \/ slot \in {"free", "conflict"} /\ slot' = "conflict" /\ UNCHANGED outages
       \/ Outage /\ UNCHANGED slot
    /\ made' = [made EXCEPT ![cur] = @ + 1]
    /\ openTasks' = [openTasks EXCEPT ![cur] = @ \cup {made[cur] + 1}]
    /\ Goto("block")
    /\ UNCHANGED <<mr, claim, issueDone, deps, branchVars, gitVars, cur, flakes>>

\* beads.Create fails: the slot is given back.
CreateConflictTaskFails ==
    /\ pc = "task"
    /\ Outage
    /\ slot \in {"free", "conflict"} /\ slot' = "free"
    /\ Done
    /\ UNCHANGED <<beadVars, branchVars, gitVars, flakes>>

\* Mutant: the MR is blocked on the wrong task.
MutBlockOffByOne ==
    /\ pc = "block"
    /\ deps' = [deps EXCEPT ![cur] = @ \cup {made[cur] + 1}]
    /\ Done
    /\ UNCHANGED <<mr, claim, issueDone, made, openTasks, slot, branchVars, gitVars, flakes, outages>>

\* AddDependency(mr, task); a failure is only a warning.
BlockOnTask ==
    /\ pc = "block"
    /\ \/ deps' = [deps EXCEPT ![cur] = @ \cup {made[cur]}] /\ UNCHANGED outages
       \/ Outage /\ UNCHANGED deps
    /\ Done
    /\ UNCHANGED <<mr, claim, issueDone, made, openTasks, slot, branchVars, gitVars, flakes>>

\* The refinery's process dies and a new one starts.
Crash ==
    /\ pc # "idle"
    /\ Outage
    /\ slot' = IF slot = "push" THEN "orphan" ELSE slot
    /\ Done
    /\ UNCHANGED <<beadVars, branchVars, gitVars, flakes>>

-----------------------------------------------------------------------------
Environment ==
    \/ \E m \in MRs, S \in SUBSET (MRs \cup Others) :
           SubmitMR(m, S) \/ \E f \in Fixups : AmendBranch(m, f, S)
    \/ \E c \in Others : OtherPush(c)
    \/ \E m \in MRs : RejectMR(m) \/ ReleaseMR(m)

\* The Engineer's own steps, with whatever outcome.
EngineerStep ==
    \/ PrepareFails \/ Prepare \/ CheckClean \/ CheckConflicts
    \/ PushSubmodulesFails \/ RunGates
    \/ MergeSquash \/ MergeSquashConflict \/ MergeSquashEmpty \/ CommitFails
    \/ RevFails \/ AcquireMainPushSlot \/ PushSlotFails \/ Push \/ PushFails
    \/ CloseMergedMR \/ CloseSourceIssue \/ DeleteMergedBranch
    \/ HandleFailure \/ DeferConflictTask \/ CreateConflictTask
    \/ CreateConflictTaskFails \/ BlockOnTask

Next ==
    \/ Environment
    \/ \E m \in MRs, t \in TaskIds : ResolveTask(m, t)
    \/ \E m \in MRs : ClaimAges(m) \/ ClaimMR(m)
    \/ EngineerStep
    \/ Crash

Spec == Init /\ [][Next]_vars

\* The Engineer keeps running, conflict tasks get done, claims age, and every
\* ready MR is eventually picked (the queue is scored by age, among others).
Fairness ==
    /\ WF_vars(EngineerStep)
    /\ \A m \in MRs : SF_vars(ClaimMR(m)) /\ WF_vars(ClaimAges(m))
    /\ \A m \in MRs, t \in TaskIds : WF_vars(ResolveTask(m, t))
FairSpec == Spec /\ Fairness

-----------------------------------------------------------------------------
(***************************************************************************)
(* Properties                                                              *)
(***************************************************************************)
\* Whatever fails or dies, an MR is closed as merged, its source issue closed
\* and its branch deleted only if every commit that was on the branch when it
\* was squashed is on origin: doMerge reports no success that push, reset and
\* retry can take back.  Commits made after the squash (late) are another
\* matter: doMerge does not look at the branch again, and closing the MR and
\* deleting the branch loses them.
ClosedMeansLanded ==
    \A m \in MRs :
        mr[m] = "merged" \/ m \in issueDone \/ (mr[m] # "none" /\ m \notin branch)
            => commits[m] \ late \subseteq origin

\* Every way out of doMerge after the squash commit undoes it or pushes it: a
\* later MR finds no stale local commit (unless a reset failed or the process
\* died, outages).
NoStrandedCommit == outages = 0 /\ pc \in {"idle", "prepare", "failed"} => local \subseteq origin

\* While a polecat rebases a branch for a conflict task, the refinery is not
\* merging that branch: the MR is blocked until the task closes.
NoMergeDuringResolution ==
    \A m \in MRs : outages = 0 /\ openTasks[m] # {} /\ cur = m => pc = "block"

\* What doMerge promises is that of a merge queue: changes land one MR at a
\* time, and an MR is finished as merged only once its change has landed.
Abstract == INSTANCE MergeQueue WITH landed <- origin \cap MRs, state <- mr
ImplementsMergeQueue == Abstract!Spec

\* The squash of an earlier attempt is in the refinery's index, uncommitted or
\* with conflicts.  No code cleans it up: every later checkout or test merge
\* fails until an operator resets the worktree.
Jammed == worktree # "clean"

\* Every open MR is eventually merged (or rejected), through conflicts, slot
\* retries, flaky gates and failing pushes, or the worktree is jammed.
EventuallyClosed == \A m \in MRs : mr[m] = "open" ~> mr[m] # "open" \/ Jammed
=============================================================================
