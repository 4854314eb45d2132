--------------------------- MODULE ConvoyManager ---------------------------
(***************************************************************************)
(* The daemon's convoy manager, src/internal/daemon/convoy_manager.go,     *)
(* with the convoy operations it runs: src/internal/convoy/operations.go,  *)
(* gt convoy check, stranded, add and close (src/internal/cmd/convoy.go)   *)
(* and, in outline, gt sling (src/internal/cmd/sling.go).                  *)
(*                                                                         *)
(* Two goroutines share nothing but the beads.  "poll" reads close events  *)
(* from every rig's store, checks the convoys that track the closed issue  *)
(* and feeds each the next issue.  "scan" asks for stranded convoys and    *)
(* feeds or closes them.  Meanwhile workers and people close issues, rigs  *)
(* are parked, issues are added to convoys, and the daemon restarts.       *)
(***************************************************************************)
EXTENDS Naturals, FiniteSets

CONSTANTS
    Issues,
    Convoys,
    Rigs,         \* the stores that are polled, except hq
    RigOf,        \* issue -> its rig, from the prefix of its id
    Blockers,     \* issue -> the issues that block it
    None,
    MaxFaults,    \* bound: failing stores and gt calls
    MaxDeaths,    \* bound: worker sessions that die
    MaxRestarts,  \* bound: daemon restarts
    MaxAdds,      \* bound: gt convoy add calls
    MaxParks      \* bound: gt rig park calls

ASSUME IssueAssumption ==
    /\ RigOf \in [Issues -> Rigs]
    /\ Blockers \in [Issues -> SUBSET Issues]
    /\ None \notin Issues \cup Convoys
ASSUME BoundAssumption == {MaxFaults, MaxDeaths, MaxRestarts, MaxAdds, MaxParks} \subseteq Nat

VARIABLES
    status,   \* issue -> "open" (no assignee), "hooked", "in_progress" or "closed"
    dead,     \* hooked and in_progress issues whose assignee has no session
    molecule, \* issues with a molecule bonded to them
    cstat,    \* convoy -> "open" or "closed"
    tracked,  \* convoy -> the issues it tracks
    history,  \* issues with a close event in their store
    unseen,   \* issues with a close event above the store's high-water mark
    parked,   \* parked rigs
    adding,   \* a gt convoy add between its two writes, <<convoy, issue>>, or None
    seeded,   \* ConvoyManager.seeded
    batch,    \* issues of the events that the running pollStore has still to process
    ready,    \* convoy -> ready issues in the last stranded report
    pc,       \* goroutine -> where it is
    todo,     \* goroutine -> convoys its loop has still to visit
    conv,     \* goroutine -> the convoy it is at
    job,      \* goroutine -> the issue it is slinging
    missed,   \* history: convoys that were complete and open when a warm-up cycle ran,
              \* or that gt convoy add has reopened or added to
    faults, deaths, restarts, adds, parks

issueVars == <<status, dead, molecule>>
beadVars == <<issueVars, cstat, tracked, history>>
loopVars == <<pc, todo, conv, job>>
bounds   == <<faults, deaths, restarts, adds, parks>>
vars == <<beadVars, unseen, parked, adding, seeded, batch, ready, loopVars, missed, bounds>>

Loops == {"poll", "scan"}

Assigned(i) == status[i] \in {"hooked", "in_progress"}
Live(i) == Assigned(i) /\ i \notin dead

AllClosed(c) == \A i \in tracked[c] : status[i] = "closed"
Blocked(i) == \E j \in Blockers[i] : status[j] # "closed"

TypeOK ==
    /\ status \in [Issues -> {"open", "hooked", "in_progress", "closed"}]
    /\ dead \subseteq {i \in Issues : Assigned(i)}
    /\ molecule \subseteq Issues
    /\ cstat \in [Convoys -> {"open", "closed"}]
    /\ tracked \in [Convoys -> SUBSET Issues]
    /\ history \subseteq Issues
    /\ unseen \subseteq Issues
    /\ parked \subseteq Rigs
    /\ adding \in (Convoys \X Issues) \cup {None}
    /\ seeded \in BOOLEAN
    /\ batch \subseteq Issues
    /\ ready \in [Convoys -> SUBSET Issues]
    /\ pc \in [Loops -> {"idle", "loop", "check", "close", "feed", "info", "force", "hook", "undo"}]
    /\ todo \in [Loops -> SUBSET Convoys]
    /\ conv \in [Loops -> Convoys \cup {None}]
    /\ job \in [Loops -> Issues \cup {None}]
    /\ missed \subseteq Convoys
    /\ faults \in 0..MaxFaults /\ deaths \in 0..MaxDeaths /\ restarts \in 0..MaxRestarts
    /\ adds \in 0..MaxAdds /\ parks \in 0..MaxParks

Init ==
    /\ status = [i \in Issues |-> "open"]
    /\ dead = {} /\ molecule = {}
    /\ cstat = [c \in Convoys |-> "open"]
    /\ tracked \in [Convoys -> SUBSET Issues]
    /\ history = {} /\ unseen = {}
    /\ parked = {}
    /\ adding = None
    /\ seeded = FALSE
    /\ batch = {}
    /\ ready = [c \in Convoys |-> {}]
    /\ pc = [g \in Loops |-> "idle"]
    /\ todo = [g \in Loops |-> {}]
    /\ conv = [g \in Loops |-> None]
    /\ job = [g \in Loops |-> None]
    /\ missed = {}
    /\ faults = 0 /\ deaths = 0 /\ restarts = 0 /\ adds = 0 /\ parks = 0

Fault == faults < MaxFaults /\ faults' = faults + 1 /\ UNCHANGED <<deaths, restarts, adds, parks>>

-----------------------------------------------------------------------------
(***************************************************************************)
(* Workers, people and rigs.                                               *)
(***************************************************************************)
\* gt done, the refinery or bd close: the store records a close event.  The
\* molecule stays bonded.
CloseIssue(i) ==
    /\ status[i] # "closed"
    /\ status' = [status EXCEPT ![i] = "closed"]
    /\ dead' = dead \ {i}
    /\ history' = history \cup {i}
    /\ unseen' = unseen \cup {i}
    /\ UNCHANGED <<molecule, cstat, tracked, parked, adding, seeded, batch, ready, loopVars, missed, bounds>>

\* The polecat starts on its hook.
StartWork(i) ==
    /\ status[i] = "hooked" /\ Live(i)
    /\ status' = [status EXCEPT ![i] = "in_progress"]
    /\ UNCHANGED <<dead, molecule, cstat, tracked, history, unseen, parked, adding, seeded, batch, ready,
                   loopVars, missed, bounds>>

WorkerDies(i) ==
    /\ deaths < MaxDeaths /\ deaths' = deaths + 1
    /\ Live(i)
    /\ dead' = dead \cup {i}
    /\ UNCHANGED <<status, molecule, cstat, tracked, history, unseen, parked, adding, seeded, batch, ready,
                   loopVars, missed, faults, restarts, adds, parks>>

ParkRig(r) ==
    /\ parks < MaxParks /\ r \notin parked
    /\ parked' = parked \cup {r}
    /\ parks' = parks + 1
    /\ UNCHANGED <<beadVars, unseen, adding, seeded, batch, ready, loopVars, missed,
                   faults, deaths, restarts, adds>>

UnparkRig(r) ==
    /\ r \in parked
    /\ parked' = parked \ {r}
    /\ UNCHANGED <<beadVars, unseen, adding, seeded, batch, ready, loopVars, missed, bounds>>

\* gt convoy add: read the convoy, reopen it if it is closed ...
ConvoyAdd(c, i) ==
    /\ adds < MaxAdds /\ adding = None
    /\ i \notin tracked[c]
    /\ adds' = adds + 1
    /\ adding' = <<c, i>>
    /\ cstat' = [cstat EXCEPT ![c] = "open"]
    /\ missed' = missed \cup {c}
    /\ UNCHANGED <<issueVars, tracked, history, unseen, parked, seeded, batch, ready, loopVars,
                   faults, deaths, restarts, parks>>

\* ... and then write the tracks relation, which may fail with a warning.
ConvoyAddTracks ==
    /\ adding # None
    /\ adding' = None
    /\ \/ /\ tracked' = [tracked EXCEPT ![adding[1]] = @ \cup {adding[2]}]
          /\ UNCHANGED bounds
       \/ Fault /\ UNCHANGED tracked
    /\ UNCHANGED <<issueVars, cstat, history, unseen, parked, seeded, batch, ready, loopVars, missed>>

\* gt convoy close --force.
ConvoyClose(c) ==
    /\ cstat[c] = "open"
    /\ cstat' = [cstat EXCEPT ![c] = "closed"]
    /\ UNCHANGED <<issueVars, tracked, history, unseen, parked, adding, seeded, batch, ready, loopVars,
                   missed, bounds>>

-----------------------------------------------------------------------------
(***************************************************************************)
(* runEventPoll: pollAllStores and pollStore.  One store is polled and its *)
(* events are processed before the next store is polled.                   *)
(***************************************************************************)
\* The first cycle advances the marks without processing anything.  A parked
\* store is not polled, a failing one keeps its mark; seeded is set anyway.
WarmUp ==
    /\ pc["poll"] = "idle" /\ ~seeded
    /\ seeded' = TRUE
    /\ \/ unseen' = {i \in unseen : RigOf[i] \in parked} /\ UNCHANGED bounds
       \/ /\ Fault
          /\ \E r \in Rigs : unseen' = {i \in unseen : RigOf[i] \in parked \cup {r}}
    /\ missed' = missed \cup {c \in Convoys : cstat[c] = "open" /\ AllClosed(c)}
    /\ UNCHANGED <<beadVars, parked, adding, batch, ready, loopVars>>

\* Mutant: the marks are advanced for every store although only one was read.
MutPollStore(r) ==
    /\ pc["poll"] = "idle" /\ seeded
    /\ r \notin parked
    /\ batch' = {i \in unseen : RigOf[i] = r}
    /\ batch' # {}
    /\ unseen' = {}
    /\ pc' = [pc EXCEPT !["poll"] = "loop"]
    /\ UNCHANGED <<beadVars, parked, adding, seeded, ready, todo, conv, job, missed, bounds>>

\* GetAllEventsSince returns something; the mark moves past all of it.
PollStore(r) ==
    /\ pc["poll"] = "idle" /\ seeded
    /\ r \notin parked
    /\ batch' = {i \in unseen : RigOf[i] = r}
    /\ batch' # {}
    /\ unseen' = unseen \ batch'
    /\ pc' = [pc EXCEPT !["poll"] = "loop"]
    /\ UNCHANGED <<beadVars, parked, adding, seeded, ready, todo, conv, job, missed, bounds>>

\* No hq store: the mark moves, the events are dropped.
PollStoreNoHq(r) ==
    /\ pc["poll"] = "idle" /\ seeded
    /\ Fault
    /\ r \notin parked
    /\ unseen' = {i \in unseen : RigOf[i] # r}
    /\ UNCHANGED <<beadVars, parked, adding, seeded, batch, ready, loopVars, missed>>

\* CheckConvoysForIssue for the next close event.  A failing lookup finds no
\* convoy.
NextEvent(i) ==
    /\ pc["poll"] = "loop" /\ todo["poll"] = {}
    /\ i \in batch
    /\ batch' = batch \ {i}
    /\ \/ /\ todo' = [todo EXCEPT !["poll"] = {c \in Convoys : i \in tracked[c]}]
          /\ UNCHANGED bounds
       \/ Fault /\ UNCHANGED todo
    /\ UNCHANGED <<beadVars, unseen, parked, adding, seeded, ready, pc, conv, job, missed>>

\* The next tracking convoy, unless it is closed.
NextTracking(c) ==
    /\ pc["poll"] = "loop"
    /\ c \in todo["poll"]
    /\ todo' = [todo EXCEPT !["poll"] = @ \ {c}]
    /\ conv' = [conv EXCEPT !["poll"] = c]
    /\ pc' = [pc EXCEPT !["poll"] = IF cstat[c] = "closed" THEN "loop" ELSE "check"]
    /\ UNCHANGED <<beadVars, unseen, parked, adding, seeded, batch, ready, job, missed, bounds>>

\* A goroutine ends its cycle and drops its local variables.
EndCycle(g) ==
    /\ pc[g] = "loop" /\ todo[g] = {}
    /\ pc' = [pc EXCEPT ![g] = "idle"]
    /\ conv' = [conv EXCEPT ![g] = None]
    /\ job' = [job EXCEPT ![g] = None]
    /\ UNCHANGED <<beadVars, unseen, parked, adding, seeded, batch, todo, missed, bounds>>

PollDone == batch = {} /\ EndCycle("poll") /\ UNCHANGED ready

-----------------------------------------------------------------------------
(***************************************************************************)
(* gt convoy check <convoy>, run by both goroutines.  What follows it is   *)
(* the continuation feed in poll, the next convoy in scan.                 *)
(***************************************************************************)
AfterCheck(g) == IF g = "poll" THEN "feed" ELSE "loop"

\* checkSingleConvoy reads the convoy and its issues; a failing call changes
\* nothing.
CheckConvoy(g) ==
    /\ pc[g] = "check"
    /\ \/ /\ cstat[conv[g]] = "open" /\ AllClosed(conv[g])
          /\ pc' = [pc EXCEPT ![g] = "close"]
          /\ UNCHANGED bounds
       \/ /\ cstat[conv[g]] = "closed" \/ ~AllClosed(conv[g])
          /\ pc' = [pc EXCEPT ![g] = AfterCheck(g)]
          /\ UNCHANGED bounds
       \/ Fault /\ pc' = [pc EXCEPT ![g] = AfterCheck(g)]
    /\ UNCHANGED <<beadVars, unseen, parked, adding, seeded, batch, ready, todo, conv, job, missed>>

\* ... and then closes it.
CloseConvoy(g) ==
    /\ pc[g] = "close"
    /\ \/ cstat' = [cstat EXCEPT ![conv[g]] = "closed"] /\ UNCHANGED bounds
       \/ Fault /\ UNCHANGED cstat
    /\ pc' = [pc EXCEPT ![g] = AfterCheck(g)]
    /\ UNCHANGED <<issueVars, tracked, history, unseen, parked, adding, seeded, batch, ready, todo, conv,
                   job, missed>>

\* feedNextReadyIssue: open, no assignee, its rig not parked; one issue per call.
Feedable(c) == {i \in tracked[c] : status[i] = "open" /\ RigOf[i] \notin parked}

FeedNextReadyIssue ==
    /\ pc["poll"] = "feed"
    /\ LET c == conv["poll"]
       IN  \/ /\ cstat[c] = "closed" \/ Feedable(c) = {}
              /\ pc' = [pc EXCEPT !["poll"] = "loop"]
              /\ UNCHANGED job
           \/ /\ cstat[c] = "open"
              /\ \E i \in Feedable(c) : job' = [job EXCEPT !["poll"] = i]
              /\ pc' = [pc EXCEPT !["poll"] = "info"]
    /\ UNCHANGED <<beadVars, unseen, parked, adding, seeded, batch, ready, todo, conv, missed, bounds>>

-----------------------------------------------------------------------------
(***************************************************************************)
(* runStrandedScan: scan, findStranded, feedFirstReady, closeEmptyConvoy.  *)
(***************************************************************************)
\* Mutant: only open issues count, those of dead workers are left alone.
MutIsReadyIssue(i) == status[i] = "open" /\ ~Blocked(i)

IsReadyIssue(i) == status[i] # "closed" /\ ~Blocked(i) /\ ~Live(i)

\* gt convoy stranded: the open convoys that are empty or have ready issues.
FindStranded ==
    /\ pc["scan"] = "idle"
    /\ ready' = [c \in Convoys |-> {i \in tracked[c] : IsReadyIssue(i)}]
    /\ todo' = [todo EXCEPT !["scan"] =
                  {c \in Convoys : cstat[c] = "open" /\ (tracked[c] = {} \/ ready'[c] # {})}]
    /\ todo'["scan"] # {}
    /\ pc' = [pc EXCEPT !["scan"] = "loop"]
    /\ UNCHANGED <<beadVars, unseen, parked, adding, seeded, batch, conv, job, missed, bounds>>

\* A convoy with ready issues: the first of them is slung, whatever has happened
\* since the report; if its rig is parked, nothing is.
FeedFirstReady(c) ==
    /\ pc["scan"] = "loop"
    /\ c \in todo["scan"]
    /\ todo' = [todo EXCEPT !["scan"] = @ \ {c}]
    /\ conv' = [conv EXCEPT !["scan"] = c]
    /\ \E i \in ready[c] :
          IF RigOf[i] \in parked
          THEN UNCHANGED <<pc, job>>
          ELSE pc' = [pc EXCEPT !["scan"] = "info"] /\ job' = [job EXCEPT !["scan"] = i]
    /\ UNCHANGED <<beadVars, unseen, parked, adding, seeded, batch, ready, missed, bounds>>

CloseEmptyConvoy(c) ==
    /\ pc["scan"] = "loop"
    /\ c \in todo["scan"]
    /\ ready[c] = {}
    /\ todo' = [todo EXCEPT !["scan"] = @ \ {c}]
    /\ conv' = [conv EXCEPT !["scan"] = c]
    /\ pc' = [pc EXCEPT !["scan"] = "check"]
    /\ UNCHANGED <<beadVars, unseen, parked, adding, seeded, batch, ready, job, missed, bounds>>

ScanDone == EndCycle("scan") /\ ready' = [c \in Convoys |-> {}]

-----------------------------------------------------------------------------
(***************************************************************************)
(* gt sling <issue> <rig>, in outline: read the bead; hook it to a fresh   *)
(* polecat with a new molecule, or roll back.  The polecat's session is    *)
(* started in the step that hooks the bead.                                *)
(***************************************************************************)
\* A live hook is left alone, one with a dead session forces the sling.  Any
\* other status, closed included, is hooked anew, unless a molecule is bonded to
\* the bead: that makes an unforced sling roll back.
SlingInfo(g) ==
    LET i == job[g]
        Goto(p) == pc' = [pc EXCEPT ![g] = p]
    IN  /\ pc[g] = "info"
        /\ \/ status[i] = "hooked" /\ Live(i) /\ Goto("loop") /\ UNCHANGED bounds
           \/ status[i] = "hooked" /\ i \in dead /\ Goto("force") /\ UNCHANGED bounds
           \/ status[i] # "hooked" /\ i \in molecule /\ Goto("undo") /\ UNCHANGED bounds
           \/ status[i] # "hooked" /\ i \notin molecule /\ Goto("hook") /\ UNCHANGED bounds
           \/ Fault /\ Goto("loop")
        /\ UNCHANGED <<beadVars, unseen, parked, adding, seeded, batch, ready, todo, conv, job, missed>>

\* The bead is unhooked and its molecules burnt, whatever it has become since.
SlingForce(g) ==
    /\ pc[g] = "force"
    /\ status' = [status EXCEPT ![job[g]] = "open"]
    /\ dead' = dead \ {job[g]}
    /\ molecule' = molecule \ {job[g]}
    /\ pc' = [pc EXCEPT ![g] = "hook"]
    /\ UNCHANGED <<cstat, tracked, history, unseen, parked, adding, seeded, batch, ready, todo, conv, job,
                   missed, bounds>>

\* The formula is instantiated on the bead, the bead hooked, the session started.
SlingHook(g) ==
    /\ pc[g] = "hook"
    /\ status' = [status EXCEPT ![job[g]] = "hooked"]
    /\ dead' = dead \ {job[g]}
    /\ molecule' = molecule \cup {job[g]}
    /\ pc' = [pc EXCEPT ![g] = "loop"]
    /\ UNCHANGED <<cstat, tracked, history, unseen, parked, adding, seeded, batch, ready, todo, conv, job,
                   missed, bounds>>

\* The formula fails, or, with the molecule bonded, the hook or the session.
SlingFails(g) ==
    /\ pc[g] = "hook"
    /\ Fault
    /\ molecule' \in {molecule, molecule \cup {job[g]}}
    /\ pc' = [pc EXCEPT ![g] = "undo"]
    /\ UNCHANGED <<status, dead, cstat, tracked, history, unseen, parked, adding, seeded, batch, ready, todo,
                   conv, job, missed>>

\* Mutant: the assignee is not cleared.
MutRollback(g) ==
    /\ pc[g] = "undo"
    /\ status' = [status EXCEPT ![job[g]] = "open"]
    /\ pc' = [pc EXCEPT ![g] = "loop"]
    /\ UNCHANGED <<dead, molecule, cstat, tracked, history, unseen, parked, adding, seeded, batch, ready, todo,
                   conv, job, missed, bounds>>

\* rollbackSlingArtifacts sets the bead to open; a molecule stays bonded.
RollbackSlingArtifacts(g) ==
    /\ pc[g] = "undo"
    /\ status' = [status EXCEPT ![job[g]] = "open"]
    /\ dead' = dead \ {job[g]}
    /\ pc' = [pc EXCEPT ![g] = "loop"]
    /\ UNCHANGED <<molecule, cstat, tracked, history, unseen, parked, adding, seeded, batch, ready, todo, conv,
                   job, missed, bounds>>

-----------------------------------------------------------------------------
\* The daemon stops or dies, with its gt processes, and starts again: marks and
\* seeded are in memory only.
Restart ==
    /\ restarts < MaxRestarts
    /\ restarts' = restarts + 1
    /\ seeded' = FALSE
    /\ unseen' = history
    /\ batch' = {}
    /\ ready' = [c \in Convoys |-> {}]
    /\ pc' = [g \in Loops |-> "idle"]
    /\ todo' = [g \in Loops |-> {}]
    /\ conv' = [g \in Loops |-> None]
    /\ job' = [g \in Loops |-> None]
    /\ UNCHANGED <<beadVars, parked, adding, missed, faults, deaths, adds, parks>>

-----------------------------------------------------------------------------
Environment ==
    \/ \E i \in Issues : CloseIssue(i) \/ StartWork(i) \/ WorkerDies(i)
    \/ \E r \in Rigs : ParkRig(r) \/ UnparkRig(r)
    \/ \E c \in Convoys, i \in Issues : ConvoyAdd(c, i)
    \/ ConvoyAddTracks
    \/ \E c \in Convoys : ConvoyClose(c)

Check(g) == CheckConvoy(g) \/ CloseConvoy(g)
Sling(g) ==
    SlingInfo(g) \/ SlingForce(g) \/ SlingHook(g) \/ SlingFails(g) \/ RollbackSlingArtifacts(g)

Poll ==
    \/ WarmUp
    \/ \E r \in Rigs : PollStore(r) \/ PollStoreNoHq(r)
    \/ \E i \in Issues : NextEvent(i)
    \/ \E c \in Convoys : NextTracking(c)
    \/ PollDone
    \/ FeedNextReadyIssue
    \/ Check("poll") \/ Sling("poll")

Scan ==
    \/ FindStranded
    \/ \E c \in Convoys : FeedFirstReady(c) \/ CloseEmptyConvoy(c)
    \/ ScanDone
    \/ Check("scan") \/ Sling("scan")

Next == Environment \/ Poll \/ Scan \/ Restart

Spec == Init /\ [][Next]_vars

\* Both tickers keep firing, and a worker with a live session gets its issue
\* closed.
Fairness ==
    /\ WF_vars(Poll) /\ WF_vars(Scan)
    /\ \A r \in Rigs : SF_vars(PollStore(r))
    /\ \A i \in Issues : WF_vars(Live(i) /\ CloseIssue(i))
FairSpec == Spec /\ Fairness

-----------------------------------------------------------------------------
(***************************************************************************)
(* Properties                                                              *)
(***************************************************************************)
\* All work is done, and nobody has closed the convoy yet.
Complete(c) == cstat[c] = "open" /\ tracked[c] # {} /\ AllClosed(c)

\* The completion check of c is still to come: the close event of one of its
\* issues is above the mark or being processed, or a check of c is under way.
CheckPending(c) ==
    \/ tracked[c] \cap (unseen \cup batch) # {}
    \/ c \in todo["poll"]
    \/ \E g \in Loops : pc[g] \in {"check", "close"} /\ conv[g] = c

\* High-water marks, batches and the loops over tracking convoys lose no
\* completion, through restarts, parked rigs and slings that reopen issues: a
\* complete convoy has a check to come, unless the warm-up cycle swallowed its
\* events, gt convoy add completed it by itself, or a call failed.
NoLostCompletion ==
    \A c \in Convoys : seeded /\ faults = 0 /\ c \notin missed /\ Complete(c) => CheckPending(c)

\* The event poll closes every completed convoy, except one that was complete
\* before the warm-up cycle or has issues in a parked rig.
CompletedIsClosed ==
    \A c \in Convoys :
        Complete(c) ~> ~Complete(c) \/ c \in missed \/ \E i \in tracked[c] : RigOf[i] \in parked

\* An unforced sling of i cannot succeed: a molecule is left over from an earlier
\* attempt.
Stuck(i) == i \in molecule /\ (status[i] = "open" \/ (status[i] = "in_progress" /\ i \in dead))

\* A fresh issue, or one on a stale hook, of an open convoy.
Fresh(c, i) ==
    /\ cstat[c] = "open" /\ i \in tracked[c]
    /\ ~Blocked(i)
    /\ \/ status[i] = "open" /\ i \notin molecule
       \/ status[i] = "hooked" /\ i \in dead

\* Every unblocked issue of an open convoy that is fresh or on the hook of a dead
\* worker is eventually dispatched, across restarts, unless the scan can find
\* another issue first that it cannot sling: one of a parked rig or a stuck one.
ReadyIsFed ==
    \A c \in Convoys, i \in Issues :
        Fresh(c, i) ~> ~Fresh(c, i) \/ \E j \in tracked[c] : RigOf[j] \in parked \/ Stuck(j)
=============================================================================
