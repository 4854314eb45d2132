# A TLA+ verification of Gas Town

Gas Town (Go, `src/`) runs many coding agents on one machine. Agents work in
tmux sessions; their work is recorded as *beads* (issues kept in Dolt databases
by the external `bd` command), grouped in *convoys*, dispatched with `gt sling`,
and merged by a *refinery*. There is no server in the middle: short-lived `gt`
processes, a daemon and the agents' hooks share a set of directories, git
repositories and bead stores, mostly without locks. What is hard about it is
what happens between two calls of different processes, and after one of them
has died half-way. That is what the modules here are about.

* [Inventory](#inventory) of the system
* [Plan](#plan): modules, order, what is done
* [Modules](#modules): how they correspond to the code
* [Runs](#runs), bounds and fairness
* [Proofs](#proofs)
* [Findings](#findings)
* [Not modelled](#what-is-not-modelled)

## Inventory

### Work moves through these components

| component | state | operations | interacts with |
|---|---|---|---|
| nudge queue, `internal/nudge` | one directory per session, a file per message | `Enqueue`, `Drain`, `Pending` | senders are any `gt nudge`; the drainer is the agent's turn-boundary hook |
| refinery, `internal/refinery` | MR beads, conflict tasks, the merge-slot bead, a clone of the repository | `ListReadyMRs`, `ClaimMR`, `ProcessMRInfo`/`doMerge`, `HandleMRInfoSuccess`, `HandleMRInfoFailure`, `ReleaseMR`, `RejectMR` | polecats (branches, conflict tasks), origin, the witness (mail) |
| convoy manager, `internal/daemon/convoy_manager.go`, `internal/convoy`, `internal/cmd/convoy.go` | convoy beads and their `tracks` dependencies; per-store high-water marks in memory | event poll, stranded scan; `gt convoy add/check/stranded/close` | rig stores (events), `gt sling`, `gt rig park` |
| work dispatch, `internal/cmd/sling*.go` | bead status, assignee, molecule; polecat worktree and session | `gt sling`, batch sling, rollback | convoy manager, deacon, witness, polecat manager |
| polecats, `internal/polecat` | worktree directories, agent beads, name pool file, per-name locks | add, reuse, nuke, name allocation, reconciliation | sling, witness, `gt done` |
| `gt done`, `internal/cmd/done.go` | branch, MR bead, agent state, checkpoints | push, create MR, notify, go idle | refinery, witness |
| witness, `internal/witness` | in-memory dedup and pending-message tracking, cleanup wisps | protocol handlers, zombie and orphan detection, bead reset, nuke | polecats, refinery, deacon |
| deacon, `internal/deacon` | re-dispatch, stuck-agent, heartbeat and pause files | re-dispatch with cooldown and escalation, stale-hook sweep | mail from the witness, `gt sling --force` |
| daemon, `internal/daemon` | restart tracker, notification slots, pid file | heartbeat: make sure that agents run; restart with backoff | tmux sessions, everything above |
| Dolt server, `internal/daemon/dolt.go`, `internal/doltserver` | server process, port, PID file; restart times, delay and escalation in memory | `EnsureRunning` with health check, backoff and cap; `gt dolt start`, `gt dolt stop` | daemon, any `gt` user, every bead operation |
| dog pool, `internal/dog` | one state file per dog, per-dog locks | add, assign, clear, remove | `gt sling` to a dog, plugins, daemon |
| mail, `internal/mail` | message beads and their labels | send, two-phase delivery, read, archive, queue claim | all agents |
| identity lock, `internal/lock` | `.runtime/agent.lock` and its flock | acquire, release, force release, clean stale | sessions starting in the same directory |
| beads, git, tmux, Dolt wrappers | none of their own | external commands | everything |

The rest (configuration, rigs and crew workspaces, formulas, doctor checks, the
web dashboard, feeds, templates, the argument handling of `cmd`) keeps little
state that two actors change at once; `PROJECT.json` lists every part with the
reason.

### What is hard, and what correct means

* **nudge queue**: `Enqueue` and `Drain` run in different processes without a
  lock; the only arbiter is `os.Rename`. Two drains race for a file, an orphan
  sweep returns the claims of dead drains, a claim and its file age together.
  Correct: an accepted message is delivered or given up in a recorded way,
  never lost silently; at most once; eventually.
* **refinery**: a merge is ten external calls with a person's push, a polecat's
  amend and a crash possible between any two; the process keeps a local commit
  between `git commit` and `git push`. Correct: an MR is finished as merged only
  if what was squashed is on origin; no half-merged state is left for the next MR; each MR is eventually dealt with.
* **convoy manager**: two goroutines and any number of `gt` processes read and
  write the same beads in separate calls; high-water marks live in memory.
  Correct: a convoy whose issues are all closed gets closed, a ready issue gets
  dispatched, a closed or blocked one does not.
* **sling, witness, deacon, daemon, `gt done`**: five parties that give a bead to
  a polecat or take it away, each on what it has read of two records (the bead
  and the agent bead) and of tmux a moment ago. Correct: no work that is on no
  remote is thrown away, no bead stays with a dead polecat, nobody takes a bead
  from a live one.
* **polecats and name pool**: a pool lock and a lock per polecat that do not
  exclude each other, marker files in between, a counter cached by each process.
  Correct: a name has one owner, and what a successful spawn has built stays.
* **mail**: several label writes make one state change; claims are decided by
  reading back. Correct: an acknowledgement is complete before it counts and is
  idempotent; a message has one claimant; no message leaves the queue unclaimed.
* **Dolt server**: two programs start it without a common lock, and the daemon
  gives up its mutex while it backs off. Correct: restarts are limited, the
  running server is never lost sight of, there is a server again in the end.
* **identity lock, dog pool**: check-then-act on files. Correct: mutual
  exclusion; no resource leaked by a crash.
* **restart tracker**: counts, windows and a crash-loop latch, persisted.
  Correct: an agent that fails for good stops being restarted, and a recovered
  one is not held back.

`PROJECT.json` lists the main hazards line by line with the properties that
cover them.

## Plan

Ordered by how much of the town depends on the behaviour.

| # | module | subject | runs and theorems | status |
|---|---|---|---|---|
| 1 | `NudgeQueue` | `internal/nudge` | safety, liveness; no silent loss, at most once | done, proved |
| 2 | `Refinery`, abstract `MergeQueue` | `internal/refinery`, merge slot | safety, refinement, liveness; landing, nothing stranded, refinement | done, proved |
| 3 | `ConvoyManager` | daemon convoy manager, `convoy`, sling in outline | safety, liveness; no lost completion | done, proved |
| 4 | `WorkRecovery` | dispatch against witness, deacon, daemon and `gt done`, around one bead | safety, liveness, one finding; no work lost | done, proved |
| 5 | `PolecatPool` | `internal/polecat`, spawning | safety; reserved once, spawns intact | done, proved |
| 6 | `MailQueue` | `internal/mail/delivery.go`, `gt mail claim`/`release` | safety; attribution, one stamp, one holder, nothing stranded | done, proved |
| 7 | `DoltServer` | `internal/daemon/dolt.go`, `gt dolt start`/`stop` | safety and liveness; restart cap, no orphan | done, proved |
| 8 | `IdentityLock`, `DogPool` | `internal/lock`; `internal/dog`, `sling_dog` | mutual exclusion under flock and what `CleanStaleLocks` does to it; no dog with two jobs | planned |
| 9 | `RestartTracker`, `NotificationSlots` | daemon | backoff monotone, latch only at the limit; one notification per slot | planned |

`WorkRecovery` and `ConvoyManager` meet at the bead: `Feed` there is the sling of
the convoy manager here, whose five actions `SlingInfo` ...
`RollbackSlingArtifacts` are its outline. `PolecatPool` is the inside of
`SlingSpawn` and `RemovePolecat`.
No module uses a `RECURSIVE` operator, so all of them can be proved about; for the
same reason `DoltServer` defines `Prune` by ranks and not with `SelectSeq`, of which
the provers know nothing, and `MCDoltServer` assumes (and TLC evaluates) that the two
agree on all sequences of up to four restart times.

## Modules

| module | what it is |
|---|---|
| `NudgeQueue`, `NudgeQueue_proofs`, `MCNudgeQueue` | queue of nudges, its theorems, its TLC instance |
| `Refinery`, `Refinery_proofs`, `MCRefinery` | the Engineer and its environment |
| `MergeQueue` | the abstract specification: what a merge queue promises |
| `ConvoyManager`, `ConvoyManager_proofs`, `MCConvoyManager` | the two goroutines, convoy commands, sling in outline |
| `WorkRecovery`, `WorkRecovery_proofs`, `MCWorkRecovery` | one work bead among dispatchers, polecats, daemon, witness and deacon |
| `PolecatPool`, `PolecatPool_proofs`, `MCPolecatPool` | name allocation, spawning and removal of polecats |
| `MailQueue`, `MailQueue_proofs`, `MCMailQueue` | queue claims and two-phase delivery |
| `DoltServer`, `DoltServer_proofs`, `MCDoltServer` | supervision of the Dolt server |

The `map` of `PROJECT.json` gives the source lines of each definition.
Definitions with a name `Mut...` are faulty variants of the definition that
follows them, used to show that the properties can fail.

### NudgeQueue

A file name is a record `[n, by]`: nudge `n`'s `.json` if `by = None`, its
`.claimed.<suffix>` with drainer `by`'s suffix otherwise. `dir` is the directory
as everybody sees it. Each system call that another process can observe is a
step: `EnqueueCheck` (the depth check, and the stamping of the nudge),
`EnqueueCreate` and `EnqueueWrite` (the two halves of `os.WriteFile`),
`DrainStart` (`ReadDir`), `DrainRequeue`, `DrainClaim`, `DrainRead`,
`DrainMalformed/Expired/Append` (with the `os.Remove`), `DrainReturn`. A call
that finds its file gone (`DrainClaimLost`, `DrainReadVanished`) or fails
(`...Fail`, `DrainReadError`) has an action of its own; so has the death of the
hook (`DrainCrash`). Time is `now`; the thresholds are constants.

Abstractions: a nudge's text is nothing; the priority is the choice between the
two TTLs; `Lstat` and `Rename` of the sweep are one step; claimed names never
recur, as their suffixes are random. `Pending` and the formatting of delivered
nudges read only.

### Refinery

A version of a branch is the set of changes it contains. `origin`, `tracking`
and `local` are the target branch in three places, `commits[m]` the changes on
branch `m` (what was submitted and later fixups), `base[m]` what it is rebased
onto and `clash[m]` the changes that it conflicts with. `pc` walks one
Engineer through `ClaimMR`, `Prepare` (checkout and pull), the test merge
(`CheckClean` or `CheckConflicts`), `RunGates`, `MergeSquash` (or `...Conflict`,
`...Empty`, `CommitFails`), `AcquireMainPushSlot`, `Push`, and then
`CloseMergedMR`, `CloseSourceIssue`, `DeleteMergedBranch`, or `HandleFailure`,
`CreateConflictTask`, `BlockOnTask`. Each early return of `doMerge` is an action
(`PrepareFails`, `PushSubmodulesFails`, `CommitFails`, `RevFails`,
`PushSlotFails`, `PushFails`), with the `ResetHard` that the code makes there and
with the possibility that this reset fails. The environment submits (`SubmitMR`),
commits to submitted branches at any time (`AmendBranch`), resolves
(`ResolveTask`), pushes (`OtherPush`), rejects (`RejectMR`), lets claims age, and
kills the process (`Crash`).

Two things no code repairs are kept in the state. `worktree` is the refinery's
index: a squash that conflicts leaves it "unmerged" (`git merge --abort` knows
nothing of a squash), one whose commit fails "staged"; in both cases later
merges fail until somebody resets it, and `EventuallyClosed` excepts it
(`Jammed`). `late` records the commits that a polecat adds after the squash and
before the branch is deleted: they are lost, and `ClosedMeansLanded` excepts
just them.

Failures come in two classes with a bound each: a *flake* is a transient failure
before a change has landed (a gate, a push, a slot time-out, a commit, a submodule), an *outage* a
process death or a failing clean-up or bead call. The properties that the code
cannot promise through a failing clean-up are stated for `outages = 0`.

Abstractions: the quality gates are an outcome; a submodule that is pushed is
outside the model, a submodule that is not ends the merge; the retries and back-off inside
one slot acquisition are one step; `git pull` of a diverged target either merges
or fails, as git is configured; `RejectMR` is one step; the order of the queue
is a free choice among the ready MRs. `ProcessMRInfo` and the handlers have no
caller in the Go code outside tests: the refinery agent is the one that runs
this sequence, and the model takes it in the order that the code documents.

### ConvoyManager

`status`, `dead` and `molecule` describe the issues, `cstat` and `tracked` the
convoys. `history` holds the close events of all stores and `unseen` those above
the high-water marks. The goroutines "poll" and "scan" have a `pc`, a list of
convoys still to visit (`todo`), a current convoy and a current issue.

* poll: `WarmUp` (the first cycle only moves the marks), `PollStore` (advance the
  mark, take the batch), `PollStoreNoHq`, `NextEvent`, `NextTracking`, then
  `CheckConvoy`/`CloseConvoy` (`gt convoy check`: read, then close) and
  `FeedNextReadyIssue`.
* scan: `FindStranded` (`gt convoy stranded`), `FeedFirstReady`,
  `CloseEmptyConvoy`.
* both sling with `SlingInfo`, `SlingForce`, `SlingHook`, `SlingFails` and
  `RollbackSlingArtifacts`.
* environment: `CloseIssue`, `StartWork`, `WorkerDies`, `ParkRig`, `UnparkRig`,
  `ConvoyAdd` and `ConvoyAddTracks` (reopen, then add: two writes),
  `ConvoyClose` (`--force`), `Restart`.

Abstractions: the reads of one `gt convoy check` or `stranded` are one step; the
"first" ready issue is any of them, which covers every order that the store may
return; a sling's session starts in the step that hooks the bead (the window
between the two is in `WorkRecovery`). Resets by the witness and forced
re-dispatch by the deacon are in `WorkRecovery`.

### WorkRecovery

One bead (`status`, `assignee`) and for each polecat name its directory, its
session, and what its agent bead says: `hook`, `report` (cleanup status) and
`intent` (the done-intent label). `unsaved` is the truth that `report` is about:
work in the worktree that is on no remote.

* `gt sling`: `SlingCheck` (the guard on the bead as read), `SlingSpawn`,
  `SlingUnhook` (force), `SlingHook` and `SlingVerify` (`hookBeadWithRetry`),
  `SlingStart`, or `SlingNoStart` and `SlingRollback`. `by` is the deacon, who
  passes `--force`, or the feeder. A dispatcher may be killed (`SlingCrash`).
* polecats: `Claim`, `Change`, `DoneStart` and `DoneFinish` (`gt done`), `Die`,
  `Wake`; `RestartPolecat` is the daemon's `checkPolecatHealth`.
* witness: `Visit` reads the session, `VisitLive` or `VisitDead` the rest, then
  `NukeKill`, `NukeCheck` (`checkPolecatSafety`), `NukeRemove`, and `ResetRead`,
  `ResetWrite`: every read and every write of the visit is a step.
  `ListOrphan`, `CheckOrphan` are `DetectOrphanedBeads`, `HandleShutdown` is
  `HandleLifecycleShutdown`.
* deacon: `Redispatch`, `RedispatchSkip`, `RedispatchEscalate`, `RecordAttempt`.

`DoneFinish` has the ways in which `updateAgentStateOnDone` goes wrong (`Mishaps`):
bead or hook cannot be written, the molecule cannot be closed or the agent bead
not read, the report is not written, or the status that the agent gave with
`--cleanup-status` is not true (without the flag `gt done` looks at git itself).
Attempts that cannot be saved, a status that cannot be read and a reset that fails
are outcomes of `RecordAttempt`, `Redispatch` and `ResetWrite`.

Two history variables delimit the properties: `reused` says that the name under visit
was given to a new polecat meanwhile, `misreport` has the polecats whose clean report
is not true, or whose hook was not cleared with it. How often a bead is dispatched
again is no property: the attempt is counted after the sling has returned and a
failure to save it is a warning, so that the cap on attempts bounds nothing else.

Abstractions: a done-intent label is old or young by choice (the threshold is
minutes, the visit seconds); so is the cooldown, in `RedispatchSkip`; several
RECOVERED_BEAD mails are one; one `gt sling` runs at a time; the molecule is in
`ConvoyManager`; `gt done` with the exit ESCALATED (which sets the agent state to
"stuck" and so hides a hookless polecat from the witness) is treated as DEFERRED.
`DetectZombiePolecats` and `DetectOrphanedBeads` have no caller in Go outside
tests: the witness agent's patrol runs them, and the model lets it run either at
any time.

### PolecatPool

`dir[n]` is what stands at `polecats/<name>`: nothing, a bare directory, or the
worktree that a given process built. `marker`, `agent`, `closed`, `sess` and
`counter` are the reservation file, the hook and status of the agent bead, the
session and the overflow number on disk; `next` and `inUse` are each process's
copies. A sling goes through `Load`, `ListDirs`, `ListMarkers`, `KillOrphans`,
`CleanMarkers`, `CleanKeep`/`CleanFound`/`CleanRemove`, and
`AllocateThemed`/`AllocateOverflow` under the pool lock, then through `Get`, the
steps of `Add` (`AddMkdir`, `AddUnmark`, `AddWorktree`, `AddFail`) or `Repair`
(`RepairRemove`, `RepairRename`, `RepairFail`) and `CreateAgentBead` under the
polecat's lock, and `VerifyWorktree`, `StartSession` or `StartFail`. A nuke is
`Nuke`, `RemoveLock`, `RemoveTree`, `RemoveDir`, `NukeClose`.

A failing `List` ends the reconcile early, and the name is allocated as if none were
in use (`ListFails`).

`exposed` and `overtaken` record the openings that the code leaves, and the
properties except just those: a reconcile that has listed the directories before
the new one was made and reads the markers after its marker was removed; the clean-up
of a directory whose worktree is still to come; a listing that failed; a marker older
than `pendingMaxAge` under a live sling; an overflow counter taken back by a process
that had loaded it earlier; and a name spawned again before its nuke has closed the
agent bead.

Abstractions: names are numbers in the order of the theme; branches, shared beads
set-up and the git work of a worktree are one step; a nuke is of a running
polecat that is done.

### MailQueue

Labels of a message are sets: `claimedBy`, `claimedAt`, `ackedBy`, `ackedAt` and
the flag `acked`. `gt mail claim` is `List`, `Claim`, `VerifyWon` or
`VerifyLost`, and after a loss `LoseRead`, `LoseRemove`; `gt mail release` is
`Release`, `RelRead`, `RelRemove`; the acknowledgement is `AckRead`, `AckBy`,
`AckAt`, `Ack`, for a claimed message and for the `Inbox` of an addressee. `bd`
returns labels in lexicographic order and the parsers keep the last one of a
kind, so a read is `Last`, the greatest. Removing the two claim labels is one
`bd` command and one step; failing calls and killed processes are `LoseFail`, `AckFail`, `AckReadFail`, `Crash`.

`crossed`, `hurt` and `restamped` are histories that delimit the properties:
claims over a winner and labels taken off by others; interrupted or overlapping
releases; acknowledgements that could not read the labels or overlapped with another one for
the same address. A worker may look at any address's inbox (`gt mail inbox
<address>`, or the `gt mail check` hook of a session beside it): `Acker` is the
address, not the process, and two processes that both find no stamp write two.

### DoltServer

`procs`, `port` and `sick` are the server processes, the one that has the port
and those that hang; `pidfile` and `process` what the programs know. The manager
has its mutex (`mu`), `restarting`, the ages of its restart times, its delay and
`escalated`; ages instead of times let the model run for ever. `EnsureRunning`,
`CheckHealth`, `StopLocked` and `StopCleanUp` (the old server is dead, then the PID
file is removed), the sleep without the mutex, `Wake`, `StartLocked` and
`WritePidFile` are its steps; `GtCheck`, `GtSpawn`, `GtWrite`, `GtVerify` those of
`gt dolt start`, with `GtCheckNoData` and `GtUnlink` when the running server's data
directory is gone; `GtStop`, `GtStopCleanUp` those of `gt dolt stop`. Writes of the
PID file may fail: the manager warns (`WriteFails`), `gt dolt start` kills its process
(`GtWriteFails`). `DaemonRestart` forgets everything but the PID file.

`raced` records the gaps that `NoOrphan` excepts: two starts overlapped, the manager
could not write the PID file or was killed before it did, or a stop removed the PID
file of a server that was started after the one it stopped (`RemovePidFile`: the file
is removed whatever it names by then).

Abstractions: a server that was started takes the port or exits because it is
taken (`Bind`); a sick server neither answers nor accepts writes; disk and
connection checks only warn; both programs use one port (the defaults differ, 3306 in
`daemon/dolt.go:85` and 3307 in `doltserver.go:126`: without `dolt_server.port` in the
configuration the two share the PID file only). In the program one goroutine calls `EnsureRunning`;
the manager is written, and tested, for several (`TestConcurrentEnsureRunning`),
and the model has two.

## Runs

States are the distinct states TLC finds.

| run | instance | shows |
|---|---|---|
| `nudge_safety` | 2 nudges, 2 drainers, depth 1, one fault; 560 000 states | one file per nudge; nothing lost silently; a nudge not older than the orphan threshold is held and returned at most once |
| `nudge_liveness` | 2 nudges, one drainer, two faults; 600 000 states | every accepted nudge is returned or given up in a recorded way |
| `refinery_safety` | 2 MRs, an outside change, 2 conflict tasks each, a fixup to a submitted branch and an outage; 3 million states | `ClosedMeansLanded`, `NoStrandedCommit`, `NoMergeDuringResolution` |
| `refinery_liveness` | 2 MRs, a fixup, a flake, 4 conflict tasks each, no outage; 180 000 states | `Refinery` implements `MergeQueue`; every open MR is eventually merged or rejected, or the worktree is jammed |
| `convoy_safety` | 1 convoy, 2 issues of which one blocks the other, 2 rigs, one fault, death, restart, add and parked rig; 2.9 million states | no completion is lost |
| `convoy_liveness` | 1 convoy, a death and a restart; 85 000 states | completed convoys are closed, fresh issues dispatched |
| `work_recovery_safety` | 2 polecat names, one re-dispatch, one event (a feed or a fault); 3.6 million states | the witness removes no worktree with unsaved work |
| `work_recovery_liveness` | 1 polecat name, one re-dispatch, two events; 760 000 states | no bead stays with a dead polecat |
| `work_recovery_reset` | 2 polecat names, two events | violated: the witness resets beads of live polecats, see [Findings](#findings) |
| `polecat_pool` | 3 slings, 1 nuker, a theme of one name and two overflow numbers, one killed sling or failed listing; 2.6 million states | one owner per name; a successful spawn stays intact |
| `mail_queue` | 3 workers, a message to the queue or to one of them, a clock of two values, two faults; 1.4 million states | acknowledgements are attributed and idempotent; overlapping claims have one winner; no message is stranded |
| `dolt_recovery` | 2 callers, 4 pids, 2 restarts in a window of 2 ticks, 2 faults, one command; 700 000 states | restart cap, no orphaned server, recovery |

**Bounds.** Two actors on two items are what the races need: a race for one file
while the other item fills the queue to its depth (`MaxQueueDepth = 1`); two MRs
so that one changes the base of the other; an outside change for the third
party; two issues so that one convoy has a closed and a ready one. Fault
bounds of one or two let a fault happen in every step and be followed by a
complete recovery. The clock of the nudge queue runs to `StaleClaim + 1`, the
first time at which a claim is stale, plus one for the liveness run; a sender
starts only while its nudge can still go stale before the clock stops
(`InHorizon`). `MaxTasks = 4` in `refinery_liveness` exceeds the conflicts that
two MRs, a fixup and a flake can cause, so that the bound is not what ends the
retries. That run has no outside change, which would make it too long: its conflicts
are those of the two MRs with each other, its failing pushes those of the flake;
outside pushes are in the safety run. The theorems hold for every value of all bounds. Deadlock is
not checked: these systems may come to rest when every item is finished and
the bounds are used up.

Three workers on one queue message are needed for two releases at once beside a
winner; a clock of two values tells a stamp used again from a fresh one. Three
slings and a theme of one name let names be reused and the overflow counter be
taken back by a third process. With two polecat names a bead has an old and a new
polecat and a name can be given out again. Feeds and faults share the bound
`MaxEvents`, which is one with two names (the witness, `gt done`, the daemon and
the deacon act without it) and two with one name; a chain of re-dispatches is not
reached. A window of two ticks with two restarts, each after one tick, lets the cap
be hit and left again; of four pids one is always free. Several convoys that share issues are beyond a quick run; the theorem
`NoCompletionLost` covers them.

**Symmetry** (nudges, drainers, MRs, slings, polecats) is used in safety runs only.

**Fairness.**

* `NudgeQueue`: weak fairness of the clock and of each drainer's steps: an agent
  that keeps taking turns keeps calling `Drain`, and the process is scheduled.
  The liveness run has one drainer, as a session has one hook; two drainers that
  take turns on a nudge older than the threshold can requeue each other's claims
  for ever (see [Findings](#findings)).
* `Refinery`: weak fairness of the Engineer's steps, of the ageing of claims and
  of conflict tasks (polecats finish), strong fairness of claiming each MR: the
  queue score grows with age, so that a ready MR is not passed over for ever.
  Nothing is assumed about the environment's pushes and submissions, which are
  finite in number.
* `ConvoyManager`: weak fairness of both goroutines (tickers), strong fairness of
  polling each store (each cycle visits them all; another store's event may
  come first), weak fairness of closing an issue with a live worker.
* `WorkRecovery`: weak fairness of a `gt sling` that has begun and of the witness's
  steps; strong fairness of visiting each polecat and bead (each
  patrol comes to all of them, but what it looks for may come and go in between)
  and of `VisitDead` (a done-intent label grows old). Nothing is assumed of the
  agents, the daemon, the deacon or shutdown mails.
* `DoltServer`: weak fairness of the manager (a ticker calls `EnsureRunning`), of a
  `gt dolt` command that has begun and of the clock; strong fairness of `Bind`
  between two health checks: a server does not for ever need longer to open its
  port than until the next check.

## Proofs

`tlapm` checks all seven `_proofs` modules. Every safety property that a run checks
is a theorem there. The theorems are stated for all constants that satisfy the named
assumptions: types, `None` and the values that stand for an absent or a bare directory
distinct from the processes, bounds natural numbers, the workers of a mail queue a
finite set of numbers (they are compared, as their names are). Types
apart, none of the properties is inductive; the strengthenings below were first
checked by TLC on small instances.

**NudgeQueue_proofs** proves `[]IInv` and from it `TypeCorrect`, `OneFile`,
`NothingLostSilently` and `AtMostOnce`, for any number of nudges, drainers and
faults. None of the four is inductive. The invariant has layers, each proved from
those below it:

1. typing: `TypeOK`, and that a drainer that reads or finishes has a current
   nudge (`CurrentOK`);
2. files: `OneFilePerNudge`, a file exists only for a created nudge
   (`FilesCreated`), and no body before that (`Bodyless`);
3. clocks: time stamps and the drainers' `now` lie in the past (`TimesOK`);
4. conservation: a created nudge is on disk, in a result, or resolved
   (`CreatedIsKept`);
5. possession: before its file exists nobody holds a nudge (`Untouched`), and
   while it is fresh, holders, file and deliveries exclude each other
   (`FreshOK`, `AtMostOnceWhileFresh`). This rests on layer 3: a drainer's
   `now` is not in the future, so that a claim on a fresh nudge is not swept.

**Refinery_proofs** proves `TypeCorrect`, `MergedHasLanded`, `NothingStranded`,
`ResolutionExclusive` and `Implements`. Layers: `Typing` (with
`Busy`: outside "idle" there is a current MR); `Landing` (the steps after the
push are reached only with all that was on the branch at the squash on origin); `Commits` (without outages the
local target is within origin, except between commit and push, when it has the
branch's changes more: `Unpushed`); `Resolution` (an open conflict task is a dependency of
its MR, except in "block"). `Implements` states that with `MaxOutages = 0` every
step is a step of `MergeQueue` or a stutter under
`landed <- origin \cap MRs, state <- mr`. The restriction is needed: after a
failed reset a later push can land the stranded commit of another MR together
with its own, two changes in a step.

**ConvoyManager_proofs** proves `TypeCorrect` and `NoCompletionLost` for any
number of issues, convoys and rigs. `NoLostCompletion` becomes inductive together
with `Places`: a polling goroutine that is idle has no batch and no list; a
goroutine at a convoy or an issue has one; a convoy between the writes of
`gt convoy add` is in `missed`.

**WorkRecovery_proofs** proves `TypeCorrect` and the action property `WorkIsSafe` for
any polecats, attempts and events. `Reports` and `Cleared`: between the witness's check
and the removal, the polecat it has found clean stays clean, or its name was given out
again (`reused`), or its report was misleading (`misreport`). `Visiting`: a witness at
work has a polecat; `Ledger`: recorded attempts stay within their type, as only one
re-dispatch runs at a time and begins with attempts to spare.

**MailQueue_proofs** proves `TypeCorrect`, `AckIsAttributed`, `RetriesKeepTheStamp`,
`OneHolder` and `NothingStranded`, for any finite set of workers. The parsers take the
last of several labels: `MaxExists` shows that there is one, by a minimal
counterexample among the finite sets (`WFMin`), which needs no induction principle with
an operator parameter. `Order`: labels are added in the order by, at, acked, and each
command step knows which are there. `Stamps`: a message acknowledged for one address
has one stamp, the one that is used again, unless acknowledgements overlapped. `WinnerIsLast`, `LoserHasNothing`: a
holder sorts last among the claimants, as long as no claim came after its verification
and nobody took off a claim of another. `Balance`: a message has no more claim labels
of a kind than workers who hold it, try to, or are giving it up, so that when nobody is
working on it none is left; this counts labels and rests on `FiniteSetTheorems`.

**PolecatPool_proofs** proves `TypeCorrect`, `NameReservedOnce` and `SpawnStaysIntact`
for any number of slings, nukes, names and crashes. `Locks`: who has the pool lock and
the polecats' locks at each step, crashes included. Then, for each name that is not
`exposed`: `Unique` (a name has one process at work; the only overlap is a new sling
that waits for the lock of the removal that has still to delete the directory);
`OnDisk` (the marker while there is no directory, the directory or the sling's own
worktree after that; nobody holds the pool lock while a worktree is being put in
place); `Unused` (what a reconcile does not find in use has no owner once it has read
the directories, and nobody who waits once it has read the markers); `Fresh` (overflow
numbers from the saved counter on have never been given out). The four are inductive
only together. `Intact` adds agent bead and session.

**DoltServer_proofs** proves `TypeCorrect`, `CapHolds` and `ServerNotLost` for any
callers, pids, windows and delays. `PruneProperties` (pruning returns restart times,
and no more than there were) rests on `RankExists`: the members of a set of indices can
be numbered, by the least index with so many members up to it. The cap needs `Mutex`
(who sleeps or starts has set `restarting`, and is alone) and `Capped` (who sleeps has
a restart left), since the cap is checked before the sleep and used after it.
`NoOrphan` needs, while none of the gaps has opened, that there is at most one process (`OneServer`), that
the PID file or the starter about to write it names it (`Named`), and that there are
not two such starters (`OneStarter`).

**Only model-checked**: the liveness properties (`EventuallyResolved`,
`EventuallyClosed`, `CompletedIsClosed`, `ReadyIsFed`, `DeadIsRecovered`,
`Recovers`), which need fairness and stay with TLC; the violation; and that `Prune`
computes what `SelectSeq` does.

## Findings

One has a run whose counterexample shows it; `PROJECT.json` quotes the lines.

`work_recovery_reset`: `resetAbandonedBead` (`witness/handlers.go:1396`) looks at
the status of the bead and not at its assignee. It takes the bead of a live
polecat when that bead, in progress, has been slung again (`sling.go:308` asks
only for hooked and pinned) and the witness meets the new polecat between its
hook and its session; and whenever a zombie whose nuke is refused keeps its
hook, as every patrol then resets the bead again, whoever has it.

The models show more, each in a behaviour of a few steps, for which no run is
kept:

* `DrainRequeue` of a claim on an old nudge: a rename keeps the modification time,
  so the sweep takes the nudge's age for the claim's; the nudge is requeued under
  a live claim and returned twice (`nudge/queue.go:163`; `:131` says otherwise).
* `RunGates` before `MergeSquash`: gates run on the target without the change
  (`refinery/engineer.go:457`).
* `Crash` between `Push` and `CloseMergedMR`: the MR has landed and is never closed,
  every retry has nothing to commit (`refinery/engineer.go:488`).
* `WarmUp` after a `Restart`: a convoy completed around a restart is closed neither
  by the poll nor by the scan (`daemon/convoy_manager.go:211`).
* `RollbackSlingArtifacts` leaves the molecule, and no unforced sling of the issue
  succeeds again (`cmd/sling.go:810`).
* `ConvoyAddTracks` between `CheckConvoy` and `CloseConvoy`: the convoy is closed
  with an open issue (`cmd/convoy.go:742`).
* `VerifyWon`, then `Claim` by a worker that sorts later: both are handed the
  message, although `cmd/mail_queue.go:99` says that the verification prevents it.
  `LoseRemove` takes off the labels read last, the winner's, and two releases at
  once leave labels on a message that nobody holds and nobody lists again (`cmd/mail_queue.go:408`).
* `ListDirs`, `AddMkdir`, `AddUnmark`, `ListMarkers`: a reconcile sees neither the
  directory nor the marker of a name (`polecat/manager.go:1294`); `CleanRemove`
  deletes a directory that `Add` has just made (`:1444`); `SavePool` with an old
  counter gives out overflow numbers twice (`:152`); `NukeClose` closes the agent
  bead of the name's next polecat (`cmd/polecat.go:1254`).
* `RestartPolecat` during a sling: `StartSession` finds a session, fails, and the
  rollback removes the polecat under the session (`cmd/sling.go:709`).
* `DoneFinish` on a bead in progress leaves it to others (`cmd/done.go:1189`): only a
  hooked bead is closed.
* `RedispatchSkip` in cooldown: the mail is archived and the bead is not dispatched
  by the deacon again unless another mail comes (`deacon/redispatch.go:209`).
* `StartLocked` beside `GtSpawn`: the daemon does not take `dolt.lock`
  (`doltserver/doltserver.go:510` says "same pattern as gt daemon"); two servers
  are started, and after a `DaemonRestart` the PID file may name the loser of the
  race for the port. `DaemonRestart` before `WritePidFile` leaves a server that
  nobody knows.
* `MaybeResetBackoff`: `lastHealthyTime` is not cleared when a check fails, so the
  healthy interval that resets the backoff may contain failures
  (`daemon/dolt.go:501`). And `isRunning` returns pid 0 for a dead server, so that
  the crash alert at `daemon/dolt.go:390` is never sent.
* `EnqueueCreate`, `DrainClaim`, `DrainMalformed`: a drain between the create and
  the write of `os.WriteFile` removes an accepted nudge as malformed
  (`nudge/queue.go:121`); the fate "malformed" of `NoSilentLoss` is this case.
* Two `EnqueueCheck` steps before either creates its file exceed
  `MaxQueueDepth` (`nudge/queue.go:89`).
* `CreateConflictTask` for two MRs: the merge slot does not serialise conflict
  tasks as `refinery/engineer.go:1004` says, because all take it as one holder.
* `AmendBranch` during the gates, then `MergeSquashConflict`: `git merge --abort`
  does not undo a squash, the index stays unmerged and every later checkout
  fails (`refinery/engineer.go:493`). `CommitFails` has the same effect with a
  staged index (`:500`).
* `AmendBranch` between `MergeSquash` and `DeleteMergedBranch`: the commit is in no
  squash, and closing the MR and deleting the branch loses it
  (`refinery/engineer.go:912`).
* `StopLocked`, then a complete `gt dolt start`, then `StopCleanUp` (or `GtStop` and
  `GtStopCleanUp` around a start): the PID file of the new server is removed
  (`daemon/dolt.go:842`, `doltserver/doltserver.go:735`).
* `RecordAttempt` after a killed deacon or a failed save: a bead is dispatched more
  often than `DefaultMaxRedispatches` (`deacon/redispatch.go:260`, `:268`).
* Two `Inbox` commands for one address: both read no stamp and write two
  (`mail/delivery.go:66`).
* `FeedFirstReady` with a parked rig: one issue of a parked rig at the head of the
  report keeps the convoy's other issues waiting (`daemon/convoy_manager.go:326`).
* `FeedNextReadyIssue` does not look at blockers (`convoy/operations.go:150`),
  although `docs/design/convoy/convoy-lifecycle.md:110` says so.
* `FindStranded`, `CloseIssue`, `SlingHook`: a sling from an old report reopens an
  issue closed meanwhile (`daemon/convoy_manager.go:333`).

The passing properties are stated with the exceptions these findings make:
`AtMostOnceWhileFresh` for fresh nudges, `ClosedMeansLanded` but for `late` commits,
`EventuallyClosed` unless `Jammed`, `CompletedIsClosed` outside `missed`,
`ReadyIsFed` unless an issue that cannot be slung may come first, the properties of
`MailQueue`, `PolecatPool`, `WorkRecovery` and `DoltServer` outside the cases that
their history variables record. A hazard that is such an exception has no property in
`PROJECT.json`, but a note.

## What is not modelled

The identity lock, dogs, the restart tracker and notification slots are in the
plan. Of the components that are modelled in part, these operations are missing:
batch slings, slings to other targets and two simultaneous slings of one bead;
the witness's handling of POLECAT_DONE, MERGED and MERGE_FAILED mail with its
cleanup wisps and its deduplication, stalled polecats and orphaned molecules; the
deacon's stale-hook sweep, heartbeat and pause; checkpoints and pushes of
`gt done`; mail other than queues and acknowledgements; Dolt databases, branches
and migrations. Integration branches in the refinery (MRs whose target is not the
default branch) and the owned, staged and swarm variants of convoys are not
modelled.

Of the 160 000 lines of Go most are argument handling, formatting, wrappers of
external commands, configuration and display. The models cover the parts where
several actors change shared state.

Left out for good: wrappers of external programs (tmux, Dolt, `bd`, git beyond
the calls above), whose behaviour is that program's; parsing, formatting and display; configuration, templates, doctor checks and
the web dashboard, which have no concurrent state.
