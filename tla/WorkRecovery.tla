---------------------------- MODULE WorkRecovery ----------------------------
(***************************************************************************)
(* One work bead and everybody who may give it to a polecat or take it     *)
(* away: gt sling (src/internal/cmd/sling.go), the polecats that work on   *)
(* it and run gt done, the daemon that restarts crashed polecats           *)
(* (src/internal/daemon/daemon.go), the witness patrol that recovers the   *)
(* work of dead ones (src/internal/witness/handlers.go) and the deacon     *)
(* that dispatches recovered work again (src/internal/deacon/redispatch.go). *)
(*                                                                         *)
(* They share two records that no transaction spans: the bead, with its    *)
(* status and its assignee, and each polecat's agent bead, whose hook      *)
(* names the bead.                                                         *)
(***************************************************************************)
EXTENDS Integers, FiniteSets

CONSTANTS
    Polecats,     \* polecat names
    Deacon,       \* the dispatcher that runs gt deacon redispatch (gt sling --force)
    Feeder,       \* a dispatcher that runs gt sling without --force
    None,
    MaxAttempts,  \* DefaultMaxRedispatches
    MaxEvents     \* bound: gt sling runs of the feeder, agents that die or hang, killed
                  \* dispatchers, lost mails and failing reads and writes, all together

Dispatchers == {Deacon, Feeder}

ASSUME NameAssumption ==
    /\ Deacon # Feeder
    /\ None \notin Polecats \cup {Deacon, Feeder}
ASSUME BoundAssumption ==
    /\ MaxAttempts \in Nat \ {0}
    /\ MaxEvents \in Nat

VARIABLES
    status, assignee,   \* the work bead
    dir,        \* the polecats with a directory
    hook,       \* the polecats whose agent bead's hook names the bead
    sess,       \* polecat -> its tmux session
    report,     \* polecat -> cleanup_status in its agent bead
    unsaved,    \* the polecats whose worktree has work that is on no remote
    intent,     \* the polecats with a done-intent label (its age is not kept)
    misreport,  \* history: the polecats whose clean report cannot be relied on (see DoneFinish)
    submitted,  \* a merge request for the bead is open
    pc, by, target, old,         \* gt sling: step, dispatcher, new and old polecat
    wpc, wpole, whook,           \* the witness: step, polecat visited, bead to reset
    shutdown,                    \* LIFECYCLE:Shutdown mails in the witness's inbox
    mail,                        \* RECOVERED_BEAD mail waits for the deacon (one or more)
    attempts, escalated,         \* redispatch-state.json
    reused,                      \* history: the visited polecat's name was given out anew
    events                       \* bounded events so far

beadVars    == <<status, assignee>>
polecatVars == <<dir, hook, sess, report, unsaved, intent, misreport, submitted>>
slingVars   == <<pc, by, target, old>>
witnessVars == <<wpc, wpole, whook, shutdown, reused>>
deaconVars  == <<mail, attempts, escalated>>
vars == <<beadVars, polecatVars, slingVars, witnessVars, deaconVars, events>>

-----------------------------------------------------------------------------
Active  == {"hooked", "in_progress"}

Mishaps == {"none", "claim", "bead", "hook", "molecule", "report"}

SlingPcs == {"idle", "start", "spawn", "spawned", "ready", "hooked", "verified",
             "rollback", "record"}
WitnessPcs == {"idle", "live", "dead", "kill", "nuke", "remove", "orphan", "reset", "write"}

TypeOK ==
    /\ status \in {"open", "hooked", "in_progress", "closed"}
    /\ assignee \in Polecats \cup {None}
    /\ dir \subseteq Polecats /\ hook \subseteq dir
    /\ sess \in [Polecats -> {"none", "alive", "stuck"}]
    /\ report \in [Polecats -> {"unknown", "clean", "dirty"}]
    /\ unsaved \subseteq dir
    /\ intent \subseteq dir /\ misreport \subseteq dir
    /\ submitted \in BOOLEAN
    /\ pc \in SlingPcs /\ by \in Dispatchers \cup {None}
    /\ target \in Polecats \cup {None}
    /\ old \in Polecats \cup {None}
    /\ wpc \in WitnessPcs
    /\ wpole \in Polecats \cup {None}
    /\ whook \in BOOLEAN /\ reused \in BOOLEAN
    /\ shutdown \subseteq Polecats
    /\ mail \in BOOLEAN
    /\ attempts \in 0..MaxAttempts
    /\ escalated \in BOOLEAN
    /\ events \in 0..MaxEvents

\* The bead has been slung to a polecat, which has started.
Init ==
    /\ \E p \in Polecats :
         /\ status = "hooked" /\ assignee = p
         /\ dir = {p} /\ hook = {p}
         /\ sess = [q \in Polecats |-> IF q = p THEN "alive" ELSE "none"]
    /\ unsaved = {} /\ intent = {} /\ misreport = {} /\ submitted = FALSE
    /\ report = [p \in Polecats |-> "unknown"]
    /\ pc = "idle" /\ by = None /\ target = None /\ old = None
    /\ wpc = "idle" /\ wpole = None /\ whook = FALSE /\ shutdown = {} /\ reused = FALSE
    /\ mail = FALSE /\ attempts = 0 /\ escalated = FALSE
    /\ events = 0

Event == events < MaxEvents /\ events' = events + 1

-----------------------------------------------------------------------------
\* Mutant: the agent bead keeps its hook.
MutRemoveKeepHook(p) ==
    /\ dir' = dir \ {p}
    /\ unsaved' = unsaved \ {p}
    /\ report' = [report EXCEPT ![p] = "unknown"]
    /\ intent' = intent \ {p}
    /\ misreport' = misreport \ {p}
    /\ UNCHANGED hook

\* RemoveWithOptions: the agent bead is reset, worktree and directory go.
RemovePolecat(p) ==
    /\ dir' = dir \ {p}
    /\ hook' = hook \ {p}
    /\ unsaved' = unsaved \ {p}
    /\ report' = [report EXCEPT ![p] = "unknown"]
    /\ intent' = intent \ {p}
    /\ misreport' = misreport \ {p}

Unhook == status' = "open" /\ assignee' = None

-----------------------------------------------------------------------------
(***************************************************************************)
(* gt sling, one at a time: by the deacon, with --force, or by the feeder. *)
(***************************************************************************)
Goto(from, to) == pc = from /\ pc' = to

\* The end of gt sling: the deacon records the attempt, the feeder is done.
Exit(from) ==
    /\ Goto(from, IF by = Deacon THEN "record" ELSE "idle")
    /\ by' = IF by = Deacon THEN by ELSE None
    /\ target' = None /\ old' = None

\* The convoy feeder, or a user, slings a bead that is not closed.
Feed ==
    /\ Goto("idle", "start") /\ by' = Feeder
    /\ status # "closed"
    /\ Event
    /\ UNCHANGED <<beadVars, polecatVars, target, old, witnessVars, deaconVars>>

\* The status guard, on the bead as read now.  A hooked bead is refused unless --force
\* is given or the hooked agent has no session.
SlingCheck ==
    /\ LET dead == assignee # None /\ sess[assignee] = "none"
       IN  IF status # "hooked" \/ by = Deacon \/ dead
             THEN /\ Goto("start", "spawn")
                  /\ old' = IF status = "hooked" THEN assignee ELSE None
                  /\ UNCHANGED <<by, target>>
             ELSE Exit("start")
    /\ UNCHANGED <<beadVars, polecatVars, witnessVars, deaconVars, events>>

\* resolveTarget: SpawnPolecatForSling kills a lingering session of the name and builds a
\* fresh polecat, its agent bead's hook set.
SlingSpawn ==
    \E p \in Polecats \ dir :
        /\ Goto("spawn", IF old = None THEN "ready" ELSE "spawned")
        /\ target' = p
        /\ dir' = dir \cup {p}
        /\ hook' = hook \cup {p}
        /\ sess' = [sess EXCEPT ![p] = "none"]
        /\ reused' = (reused \/ (wpc # "idle" /\ wpole = p))
        /\ UNCHANGED <<beadVars, submitted, report, unsaved, intent, misreport, by, old,
                       wpc, wpole, whook, shutdown, deaconVars, events>>

\* No polecat can be spawned.
SlingNoSpawn ==
    /\ Exit("spawn")
    /\ UNCHANGED <<beadVars, polecatVars, witnessVars, deaconVars, events>>

\* Force on a hooked bead: shut the old polecat down and unhook the bead.
SlingUnhook ==
    /\ Goto("spawned", "ready")
    /\ old' = None
    /\ shutdown' = shutdown \cup {old}
    /\ Unhook
    /\ UNCHANGED <<polecatVars, by, target, wpc, wpole, whook, reused, deaconVars, events>>

\* hookBeadWithRetry: write ...
SlingHook ==
    /\ Goto("ready", "hooked")
    /\ status' = "hooked" /\ assignee' = target
    /\ UNCHANGED <<polecatVars, by, target, old, witnessVars, deaconVars, events>>

\* ... read back, write again if it did not stick, give up after maxRetries ...
SlingVerify ==
    /\ LET stuck == status = "hooked" /\ assignee = target
       IN  \E to \in IF stuck THEN {"verified"} ELSE {"ready", "rollback"} : Goto("hooked", to)
    /\ UNCHANGED <<beadVars, polecatVars, by, target, old, witnessVars, deaconVars, events>>

\* ... and start the session, unless there is one or the polecat is gone.
SlingStart ==
    /\ Exit("verified")
    /\ target \in dir /\ sess[target] \in {"none", "stuck"}
    /\ sess' = [sess EXCEPT ![target] = "alive"]
    /\ UNCHANGED <<beadVars, dir, hook, report, unsaved, intent, misreport, submitted,
                   witnessVars, deaconVars, events>>

SlingNoStart ==
    /\ Goto("verified", "rollback")
    /\ UNCHANGED <<beadVars, polecatVars, by, target, old, witnessVars, deaconVars, events>>

\* rollbackSlingArtifacts: unhook the bead, whoever has it, and remove the polecat.
SlingRollback ==
    /\ Exit("rollback")
    /\ Unhook
    /\ RemovePolecat(target)
    /\ UNCHANGED <<sess, submitted, witnessVars, deaconVars, events>>

\* The dispatcher is killed; a redispatch leaves no record, its mail is not archived.
SlingCrash ==
    /\ Event
    /\ pc # "idle" /\ pc' = "idle"
    /\ by' = None /\ target' = None /\ old' = None
    /\ mail' = (mail \/ by = Deacon)
    /\ UNCHANGED <<beadVars, polecatVars, witnessVars, attempts, escalated>>

-----------------------------------------------------------------------------
(***************************************************************************)
(* Polecats.  The agent is external: it claims the bead, makes changes and *)
(* runs gt done, or dies, or hangs.                                        *)
(***************************************************************************)
Claim(p) ==
    /\ sess[p] = "alive" /\ p \in hook
    /\ status = "hooked" /\ assignee = p
    /\ status' = "in_progress"
    /\ UNCHANGED <<assignee, polecatVars, slingVars, witnessVars, deaconVars, events>>

Change(p) ==
    /\ sess[p] = "alive" /\ p \in hook \ (unsaved \cup intent)
    /\ unsaved' = unsaved \cup {p}
    /\ UNCHANGED <<beadVars, dir, hook, sess, report, intent, misreport, submitted,
                   slingVars, witnessVars, deaconVars, events>>

\* gt done: the done-intent label ...
DoneStart(p) ==
    /\ sess[p] = "alive" /\ p \in hook \ intent
    /\ intent' = intent \cup {p}
    /\ UNCHANGED <<beadVars, dir, hook, sess, report, unsaved, misreport, submitted,
                   slingVars, witnessVars, deaconVars, events>>

\* ... and the end.  COMPLETED: what there is has been pushed and a merge request submitted.
\* updateAgentStateOnDone closes the bead if it is hooked, clears the hook, reports the
\* cleanup status, as found before the push or as given by the agent, and clears the label;
\* COMPLETED removes the own worktree, if that works; the session is killed.
\*
\* What may go wrong: the agent's own status is not true; the bead or the hook cannot be
\* written, which is a warning; the molecule cannot be closed (or the agent bead not read),
\* which ends updateAgentStateOnDone at once; or the report is not written, which ends it
\* before the label is cleared.  A clean report is misleading where it is not true, and
\* where the hook stays and the daemon will start the polecat again.
DoneFinish(p, completed, mishap) ==
    LET left == IF completed THEN unsaved \ {p} ELSE unsaved
        Found(S) == IF p \in S THEN "dirty" ELSE "clean"
    IN  /\ sess[p] = "alive" /\ p \in hook \cap intent
        /\ IF mishap = "none" THEN UNCHANGED events ELSE Event
        /\ mishap = "bead" => status = "hooked"
        /\ submitted' = (submitted \/ completed)
        /\ sess' = [sess EXCEPT ![p] = "none"]
        /\ status' = IF status = "hooked" /\ mishap \notin {"molecule", "bead"}
                     THEN "closed" ELSE status
        /\ \/ /\ completed /\ mishap \in {"none", "bead"}
              /\ RemovePolecat(p)
           \/ /\ unsaved' = left
              /\ hook' = IF mishap \in {"molecule", "hook"} THEN hook ELSE hook \ {p}
              /\ intent' = IF mishap \in {"molecule", "report"} THEN intent ELSE intent \ {p}
              /\ \E r \in CASE mishap \in {"molecule", "report"} -> {report[p]}
                           [] mishap = "claim" -> {"clean", "dirty"} \ {Found(unsaved), Found(left)}
                           [] OTHER -> {Found(unsaved), Found(left)} :
                    /\ report' = [report EXCEPT ![p] = r]
                    /\ misreport' = IF r = "clean" /\ (p \in left \/ mishap = "hook")
                                    THEN misreport \cup {p} ELSE misreport
              /\ UNCHANGED dir
        /\ UNCHANGED <<assignee, slingVars, witnessVars, deaconVars>>

\* The refinery merges and closes the bead.
Merge ==
    /\ submitted /\ status # "closed"
    /\ submitted' = FALSE
    /\ status' = "closed"
    /\ UNCHANGED <<assignee, dir, hook, sess, report, unsaved, intent, misreport, slingVars,
                   witnessVars, deaconVars, events>>

\* The session dies, or the agent in it dies or hangs ...
Die(p) ==
    /\ Event
    /\ sess[p] = "alive"
    /\ \E s \in {"none", "stuck"} : sess' = [sess EXCEPT ![p] = s]
    /\ UNCHANGED <<beadVars, dir, hook, report, unsaved, intent, misreport, submitted,
                   slingVars, witnessVars, deaconVars>>

\* ... and a hung one may come to again.
Wake(p) ==
    /\ sess[p] = "stuck"
    /\ sess' = [sess EXCEPT ![p] = "alive"]
    /\ UNCHANGED <<beadVars, dir, hook, report, unsaved, intent, misreport, submitted,
                   slingVars, witnessVars, deaconVars, events>>

\* The daemon's heartbeat, checkPolecatHealth: no session but work on the hook.
RestartPolecat(p) ==
    /\ p \in dir \cap hook
    /\ sess[p] = "none"
    /\ sess' = [sess EXCEPT ![p] = "alive"]
    /\ UNCHANGED <<beadVars, dir, hook, report, unsaved, intent, misreport, submitted,
                   slingVars, witnessVars, deaconVars, events>>

-----------------------------------------------------------------------------
(***************************************************************************)
(* The witness.  DetectZombiePolecats visits the polecat directories,      *)
(* DetectOrphanedBeads the beads with an assignee, one after the other.    *)
(***************************************************************************)
\* A step of the visit of polecat p, with h: reset the bead at its end.
Witness(from, to, p, h) ==
    /\ wpc = from /\ wpc' = to
    /\ wpole' = IF to = "idle" THEN None ELSE p
    /\ whook' = (to # "idle" /\ h)
    /\ reused' = (to # "idle" /\ reused)
WitnessReads ==
    UNCHANGED <<beadVars, polecatVars, slingVars, shutdown, deaconVars, events>>

\* Is there a session?
Visit(p) ==
    /\ Witness("idle", IF sess[p] = "none" THEN "dead" ELSE "live", p, FALSE)
    /\ p \in dir
    /\ WitnessReads

\* detectZombieLiveSession: stuck in gt done, agent dead, agent hung, or its bead closed.
\* (DetectZombiePolecats makes these checks twice: the second round is another visit.)
VisitLive ==
    \E stuckInDone \in {FALSE, (wpole \in intent)} :
        LET zombie == stuckInDone \/ sess[wpole] # "alive"
            closed == wpole \in hook /\ status = "closed"
        IN  /\ Witness("live", IF zombie \/ closed THEN "kill" ELSE "idle",
                       wpole, zombie /\ wpole \in hook)
            /\ WitnessReads

\* AutoNukeIfClean goes on to NukePolecat.
MayNuke(p) ==
    \/ report[p] = "clean"
    \/ report[p] = "unknown" /\ p \in dir /\ p \notin unsaved

\* detectZombieDeadSession: a gt done that has just begun, or a session that came back, is
\* left alone ...
VisitDeadLeave ==
    /\ Witness("dead", "idle", wpole, FALSE)
    /\ wpole \in intent \/ sess[wpole] # "none"
    /\ WitnessReads

\* ... an old done-intent and a clean polecat are nuked, an unclean one is escalated or
\* tracked, and its bead reset.  (isZombieState holds without a hook as well: gt done leaves
\* the agent state of a polecat as it was.)
VisitDead ==
    /\ Witness("dead",
         CASE wpole \in intent \/ MayNuke(wpole) -> "kill"
           [] wpole \in hook                     -> "reset"
           [] OTHER                              -> "idle",
         wpole, wpole \in hook)
    /\ wpole \in intent \/ sess[wpole] = "none"
    /\ WitnessReads

\* HandleLifecycleShutdown: AutoNukeIfClean, no reset.
HandleShutdown(p) ==
    /\ Witness("idle", IF MayNuke(p) THEN "kill" ELSE "idle", p, FALSE)
    /\ p \in shutdown
    /\ shutdown' = shutdown \ {p}
    /\ UNCHANGED <<beadVars, polecatVars, slingVars, deaconVars, events>>

\* Nuked or not, the visit ends with the reset of the polecat's bead, if it had one.
AfterNuke == IF whook THEN "reset" ELSE "idle"

\* NukePolecat: kill the session first ...
NukeKill ==
    /\ Witness("kill", "nuke", wpole, whook)
    /\ sess' = [sess EXCEPT ![wpole] = "none"]
    /\ UNCHANGED <<beadVars, dir, hook, report, unsaved, intent, misreport, submitted,
                   slingVars, shutdown, deaconVars, events>>

\* Mutant: gt polecat nuke --force.
MutNukeForce ==
    /\ Witness("nuke", "remove", wpole, whook)
    /\ WitnessReads

\* ... then gt polecat nuke, which refuses a polecat that is not clean or has work on its
\* hook that is not closed (checkPolecatSafety) ...
NukeCheck ==
    /\ Witness("nuke", IF /\ report[wpole] = "clean"
                          /\ ~(wpole \in hook /\ status # "closed")
                       THEN "remove" ELSE AfterNuke, wpole, whook)
    /\ WitnessReads

\* ... and removes it (nukePolecatFull).
NukeRemove ==
    /\ Witness("remove", AfterNuke, wpole, whook)
    /\ RemovePolecat(wpole)
    /\ sess' = [sess EXCEPT ![wpole] = "none"]
    /\ UNCHANGED <<beadVars, submitted, slingVars, shutdown, deaconVars, events>>

\* DetectOrphanedBeads: an active bead assigned to p ...
ListOrphan(p) ==
    /\ Witness("idle", "orphan", p, TRUE)
    /\ status \in Active /\ assignee = p
    /\ WitnessReads

\* ... is reset if there is neither session nor directory (checked twice).
CheckOrphan ==
    /\ Witness("orphan", IF wpole \notin dir /\ sess[wpole] = "none" THEN "reset" ELSE "idle",
               wpole, TRUE)
    /\ WitnessReads

\* resetAbandonedBead: read the status ...
ResetRead ==
    /\ Witness("reset", IF status \in Active THEN "write" ELSE "idle",
               wpole, whook)
    /\ WitnessReads

\* Mutant: the bead is reported but not reset.
MutResetMailOnly ==
    /\ Witness("write", "idle", wpole, FALSE)
    /\ mail' = TRUE
    /\ UNCHANGED <<beadVars, polecatVars, slingVars, shutdown, attempts, escalated, events>>

\* ... then write, and mail the deacon (best effort); if the write fails, no mail either.
ResetWrite ==
    /\ Witness("write", "idle", wpole, FALSE)
    /\ \/ Unhook /\ mail' = TRUE /\ UNCHANGED events
       \/ Unhook /\ Event /\ UNCHANGED mail
       \/ Event /\ UNCHANGED <<beadVars, mail>>
    /\ UNCHANGED <<polecatVars, slingVars, shutdown, attempts, escalated>>

-----------------------------------------------------------------------------
(***************************************************************************)
(* The deacon: gt deacon redispatch for a RECOVERED_BEAD mail, which is    *)
(* archived whatever the outcome.                                          *)
(***************************************************************************)
\* Escalated, in cooldown, or no longer open: nothing is done.
RedispatchSkip ==
    /\ pc = "idle" /\ mail
    /\ escalated \/ attempts > 0 \/ (attempts < MaxAttempts /\ status # "open")
    /\ mail' = FALSE
    /\ UNCHANGED <<beadVars, polecatVars, slingVars, witnessVars, attempts, escalated,
                   events>>

\* ShouldEscalate: mail the mayor; the escalation is recorded if the mail was sent and the
\* state can be saved.
RedispatchEscalate ==
    /\ pc = "idle" /\ mail
    /\ ~escalated /\ attempts >= MaxAttempts
    /\ mail' = FALSE
    /\ \/ escalated' = TRUE /\ UNCHANGED events
       \/ Event /\ UNCHANGED escalated
    /\ UNCHANGED <<beadVars, polecatVars, slingVars, witnessVars, attempts>>

\* An open bead, or one whose status cannot be read: run gt sling --force.
Redispatch ==
    /\ Goto("idle", "start") /\ by' = Deacon /\ mail
    /\ ~escalated /\ attempts < MaxAttempts
    /\ \/ status = "open" /\ UNCHANGED events
       \/ status # "open" /\ Event
    /\ mail' = FALSE
    /\ UNCHANGED <<beadVars, polecatVars, target, old, witnessVars, attempts, escalated>>

\* Successful or not, the attempt is recorded, and forgotten if the state cannot be saved.
RecordAttempt ==
    /\ Goto("record", "idle") /\ by' = None
    /\ \/ attempts' = attempts + 1 /\ UNCHANGED events
       \/ Event /\ UNCHANGED attempts
    /\ UNCHANGED <<beadVars, polecatVars, target, old, witnessVars, mail, escalated>>

-----------------------------------------------------------------------------
Sling ==
    \/ SlingCheck \/ SlingSpawn \/ SlingNoSpawn \/ SlingUnhook \/ SlingHook
    \/ SlingVerify \/ SlingStart \/ SlingNoStart \/ SlingRollback

Polecat(p) ==
    \/ Claim(p) \/ Change(p) \/ DoneStart(p)
    \/ \E completed \in BOOLEAN, mishap \in Mishaps : DoneFinish(p, completed, mishap)

Happen(p) == Die(p) \/ Wake(p) \/ RestartPolecat(p)

\* The patrol works through what it has begun ...
WitnessStep ==
    \/ VisitLive \/ VisitDeadLeave \/ VisitDead \/ NukeKill \/ NukeCheck \/ NukeRemove
    \/ CheckOrphan \/ ResetRead \/ ResetWrite

Redispatching == RedispatchSkip \/ RedispatchEscalate \/ Redispatch \/ RecordAttempt

Next ==
    \/ Feed \/ Merge
    \/ Sling \/ SlingCrash
    \/ \E p \in Polecats : Polecat(p) \/ Happen(p)
    \/ \E p \in Polecats : Visit(p) \/ HandleShutdown(p) \/ ListOrphan(p)
    \/ WitnessStep
    \/ Redispatching

\* A gt sling that has begun goes on; the witness patrols again and again, comes to every
\* polecat and every bead, and does not find a done-intent label young for ever.  Nothing
\* is assumed of the agents, of the daemon (which does not restart polecats of a parked
\* rig), of the deacon, or of the shutdown mails.
Fairness ==
    /\ WF_vars(Sling)
    /\ WF_vars(WitnessStep) /\ SF_vars(VisitDead)
    /\ \A p \in Polecats : SF_vars(Visit(p)) /\ SF_vars(ListOrphan(p))

Spec == Init /\ [][Next]_vars /\ Fairness

-----------------------------------------------------------------------------
(***************************************************************************)
(* Properties                                                              *)
(***************************************************************************)
\* NukePolecat: "Should only be called after all safety checks pass".  Whatever an agent,
\* the daemon and the dispatchers do between the witness's checks, it never removes a
\* worktree with work that is on no remote, unless the polecat it checked is gone and its
\* name has been given out again meanwhile, or its gt done made a clean report that was
\* wrong or did not clear the hook.
WorkSurvives ==
    [][wpc = "remove" /\ wpc' # "remove" =>
         wpole \notin unsaved \/ reused \/ wpole \in misreport]_vars

\* p has the bead, no session in which to work on it, and no gt sling that will start one.
\* (A polecat that deferred its work with gt done has cleared its hook and is left alone
\* while its worktree is not clean.)
Abandoned(p) ==
    /\ status \in Active /\ assignee = p
    /\ sess[p] # "alive"
    /\ p \in hook \/ p \notin dir
    /\ pc \in {"idle", "record"}

\* DetectOrphanedBeads "complements DetectZombiePolecats": between them the two scans,
\* the one from directories and the one from beads, miss no bead of a dead polecat.
DeadIsRecovered == \A p \in Polecats : Abandoned(p) ~> ~Abandoned(p)

\* resetAbandonedBead "resets a dead polecat's hooked bead so it can be re-dispatched":
\* the bead it takes is the visited polecat's, and not one that has been given to another
\* polecat since.
ResetsItsOwn ==
    [][wpc = "write" /\ wpc' = "idle" => assignee \in {wpole, None}]_vars
=============================================================================
