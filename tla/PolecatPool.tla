---------------------------- MODULE PolecatPool ----------------------------
(***************************************************************************)
(* The polecat manager of one rig and its name pool: gt sling processes    *)
(* that allocate a name and build a worktree under it, and gt polecat nuke *)
(* processes that take polecats down (src/internal/polecat/manager.go,     *)
(* namepool.go and src/internal/cmd/polecat_spawn.go).                     *)
(*                                                                         *)
(* Two locks: the pool lock, held by AllocateName, and one lock per        *)
(* polecat, held by Add, Repair and Remove.  Neither kind excludes the     *)
(* other, so every file-system call made under one lock and visible under  *)
(* the other is a step.  Names 1..PoolSize are the theme's, greater ones   *)
(* are the overflow numbers.                                               *)
(***************************************************************************)
EXTENDS Integers, FiniteSets

CONSTANTS
    Slings,      \* gt sling processes, one polecat each
    Nukers,      \* gt polecat nuke processes, again and again
    None,
    PoolSize,    \* NamePool.MaxSize
    MaxName,     \* bound: the last overflow number
    MaxCrashes   \* bound: gt sling processes killed, and failing listings

ASSUME ProcAssumption ==
    /\ Slings \cap Nukers = {}
    /\ (Slings \cup Nukers) \cap {None, "none", "bare"} = {}
ASSUME PoolAssumption ==
    /\ PoolSize \in Nat
    /\ MaxName \in Nat /\ PoolSize < MaxName
    /\ None \notin Nat
ASSUME BoundAssumption == MaxCrashes \in Nat

VARIABLES
    dir,        \* name -> "none", "bare" (polecats/<name> without a worktree), or
                \* the process that built the worktree in it
    marker,     \* name -> its .pending reservation: "none", "young" or "old"
    agent,      \* name -> the process whose work the agent bead's hook names
    closed,     \* the names whose agent bead has the status closed
    sess,       \* the names with a tmux session
    counter,    \* OverflowNext in namepool-state.json
    poolLock,   \* holder of the pool lock
    plock,      \* name -> holder of the polecat's lock
    pc,         \* process -> where it is
    name,       \* process -> the polecat it works on
    next,       \* process -> OverflowNext as loaded by NewManager
    inUse,      \* process -> NamePool.InUse, from the last reconcile
    todo,       \* process -> entries cleanupOrphanPolecatState has still to visit
    exposed,    \* history: names whose reservation had a gap (see below)
    overtaken,  \* history: names spawned again before their nuke was over
    crashes     \* killed gt sling processes and failed listings so far

diskVars == <<dir, marker, agent, closed, sess, counter>>
lockVars == <<poolLock, plock>>
procVars == <<pc, name, next, inUse, todo>>
vars == <<diskVars, lockVars, procVars, exposed, overtaken, crashes>>

-----------------------------------------------------------------------------
Procs  == Slings \cup Nukers
Names  == 1..MaxName
Themed == 1..PoolSize
Pcs == {"new", "loaded", "listed", "reconciled", "swept", "cleaning", "removing",
        "allocated", "add", "repair", "made", "unmarked", "old_removed", "built",
        "repaired", "created", "ready", "running", "rm_lock", "rm_tree", "rm_dir",
        "rm_close", "failed", "gone", "dead"}

\* From the allocation of its name on, a sling counts on having it to itself.
Live == {p \in Slings : pc[p] \in {"allocated", "add", "repair", "made", "unmarked",
                                    "old_removed", "built", "repaired", "created", "ready",
                                    "running"}}

\* A sling, or a removal that has still to come to the directory, is at work under n.
InHand(n) ==
    \/ \E p \in Live : name[p] = n
    \/ \E p \in Procs : name[p] = n /\ pc[p] \in {"rm_lock", "rm_tree"}

TypeOK ==
    /\ dir \in [Names -> {"none", "bare"} \cup Procs]
    /\ marker \in [Names -> {"none", "young", "old"}]
    /\ agent \in [Names -> Procs \cup {None}]
    /\ closed \subseteq Names
    /\ sess \subseteq Names
    /\ counter \in (PoolSize + 1)..(MaxName + 1)
    /\ poolLock \in Slings \cup {None}
    /\ plock \in [Names -> Procs \cup {None}]
    /\ pc \in [Procs -> Pcs]
    /\ name \in [Procs -> Names \cup {None}]
    /\ next \in [Procs -> (PoolSize + 1)..(MaxName + 1)]
    /\ inUse \in [Procs -> SUBSET Names]
    /\ todo \in [Procs -> SUBSET Names]
    /\ exposed \subseteq Names
    /\ overtaken \subseteq Names
    /\ crashes \in 0..MaxCrashes

Init ==
    /\ dir = [n \in Names |-> "none"]
    /\ marker = [n \in Names |-> "none"]
    /\ agent = [n \in Names |-> None]
    /\ closed = {}
    /\ sess = {}
    /\ counter = PoolSize + 1
    /\ poolLock = None
    /\ plock = [n \in Names |-> None]
    /\ pc = [p \in Procs |-> "new"]
    /\ name = [p \in Procs |-> None]
    /\ next = [p \in Procs |-> PoolSize + 1]
    /\ inUse = [p \in Procs |-> {}]
    /\ todo = [p \in Procs |-> {}]
    /\ exposed = {}
    /\ overtaken = {}
    /\ crashes = 0

Goto(p, from, to) == pc[p] = from /\ pc' = [pc EXCEPT ![p] = to]
LockPolecat(p)    == plock[name[p]] = None /\ plock' = [plock EXCEPT ![name[p]] = p]
UnlockPolecat(p)  == plock' = [plock EXCEPT ![name[p]] = None]

\* namePool.Save writes the counter as this process knows it, which may take it back:
\* the numbers in between will be given out again.
SavePool(k) == counter' = k
TakenBack(k) == k..(counter - 1)

-----------------------------------------------------------------------------
(***************************************************************************)
(* AllocateName, under the pool lock.                                      *)
(***************************************************************************)
\* Mutant: overflow numbers start at MaxSize, not after it.
MutLoadOffByOne(p) ==
    /\ Goto(p, "new", "loaded")
    /\ next' = [next EXCEPT ![p] = counter - 1]
    /\ UNCHANGED <<diskVars, lockVars, name, inUse, todo, exposed, overtaken, crashes>>

\* NewManager loads the overflow counter; nobody loads it again.
Load(p) ==
    /\ Goto(p, "new", "loaded")
    /\ next' = [next EXCEPT ![p] = counter]
    /\ UNCHANGED <<diskVars, lockVars, name, inUse, todo, exposed, overtaken, crashes>>

\* reconcilePoolInternal: List, the polecat directories.
ListDirs(p) ==
    /\ Goto(p, "loaded", "listed")
    /\ poolLock = None
    /\ poolLock' = p
    /\ inUse' = [inUse EXCEPT ![p] = {n \in Names : dir[n] # "none"}]
    /\ UNCHANGED <<diskVars, plock, name, next, todo, exposed, overtaken, crashes>>

\* List fails: reconcilePoolInternal returns, and AllocateName goes on with InUse as
\* NewManager has left it, empty.
ListFails(p) ==
    /\ Goto(p, "loaded", "cleaning")
    /\ crashes < MaxCrashes
    /\ crashes' = crashes + 1
    /\ poolLock = None
    /\ poolLock' = p
    /\ exposed' = exposed \cup {n \in Names : dir[n] # "none" \/ marker[n] # "none"}
    /\ UNCHANGED <<diskVars, plock, name, next, inUse, todo, overtaken>>

\* reconcilePoolInternal: the reservation markers.
ListMarkers(p) ==
    /\ Goto(p, "listed", "reconciled")
    /\ inUse' = [inUse EXCEPT ![p] = @ \cup {n \in Names : marker[n] # "none"}]
    /\ UNCHANGED <<diskVars, lockVars, name, next, todo, exposed, overtaken, crashes>>

\* ReconcilePoolWith: sessions of theme names without directory or marker are killed.
KillOrphans(p) ==
    /\ Goto(p, "reconciled", "swept")
    /\ sess' = sess \ (Themed \ inUse[p])
    /\ UNCHANGED <<dir, marker, agent, closed, counter, lockVars, name, next, inUse, todo, exposed, overtaken, crashes>>

\* cleanupOrphanPolecatState: markers older than pendingMaxAge go; every directory
\* is to be visited.
CleanMarkers(p) ==
    /\ Goto(p, "swept", "cleaning")
    /\ marker' = [n \in Names |-> IF marker[n] = "old" THEN "none" ELSE marker[n]]
    /\ todo' = [todo EXCEPT ![p] = {n \in Names : dir[n] # "none"}]
    /\ UNCHANGED <<dir, agent, closed, sess, counter, lockVars, name, next, inUse, exposed, overtaken, crashes>>

\* A directory with a worktree is left alone ...
CleanKeep(p, n) ==
    /\ Goto(p, "cleaning", "cleaning")
    /\ n \in todo[p] /\ dir[n] # "bare"
    /\ todo' = [todo EXCEPT ![p] = @ \ {n}]
    /\ UNCHANGED <<diskVars, lockVars, name, next, inUse, exposed, overtaken, crashes>>

\* ... one without is removed, without its polecat's lock and with another look at it.
CleanFound(p, n) ==
    /\ Goto(p, "cleaning", "removing")
    /\ n \in todo[p] /\ dir[n] = "bare"
    /\ name' = [name EXCEPT ![p] = n]
    /\ UNCHANGED <<diskVars, lockVars, next, inUse, todo, exposed, overtaken, crashes>>

CleanRemove(p) ==
    /\ Goto(p, "removing", "cleaning")
    /\ exposed' = IF InHand(name[p]) THEN exposed \cup {name[p]} ELSE exposed
    /\ dir' = [dir EXCEPT ![name[p]] = "none"]
    /\ todo' = [todo EXCEPT ![p] = @ \ {name[p]}]
    /\ name' = [name EXCEPT ![p] = None]
    /\ UNCHANGED <<marker, agent, closed, sess, counter, lockVars, next, inUse, overtaken, crashes>>

\* Allocate, Save, write the marker, kill a lingering session, unlock the pool.
Reserve(p, n, k) ==
    /\ Goto(p, "cleaning", "allocated")
    /\ todo[p] = {}
    /\ name' = [name EXCEPT ![p] = n]
    /\ next' = [next EXCEPT ![p] = k]
    /\ SavePool(k)
    /\ marker' = [marker EXCEPT ![n] = "young"]
    /\ sess' = sess \ {n}
    /\ poolLock' = None
    /\ UNCHANGED <<dir, agent, closed, plock, inUse, todo, overtaken, crashes>>

\* The first theme name not in use.
AllocateThemed(p) ==
    \E n \in Themed \ inUse[p] :
        /\ \A k \in Themed \ inUse[p] : n <= k
        /\ Reserve(p, n, next[p])
        /\ exposed' = exposed \cup TakenBack(next[p])

\* The theme is exhausted: the next overflow number, whether or not it is in use.
AllocateOverflow(p) ==
    /\ Themed \subseteq inUse[p]
    /\ next[p] <= MaxName
    /\ Reserve(p, next[p], next[p] + 1)
    /\ exposed' = exposed \cup TakenBack(next[p])

\* A marker passes pendingMaxAge.
Age(n) ==
    /\ marker[n] = "young"
    /\ marker' = [marker EXCEPT ![n] = "old"]
    /\ exposed' = IF \E p \in Live : name[p] = n THEN exposed \cup {n} ELSE exposed
    /\ UNCHANGED <<dir, agent, closed, sess, counter, lockVars, procVars, overtaken, crashes>>

-----------------------------------------------------------------------------
(***************************************************************************)
(* SpawnPolecatForSling after the allocation: Add, or Repair if there is a *)
(* directory of that name.                                                 *)
(***************************************************************************)
Get(p) ==
    /\ Goto(p, "allocated", IF dir[name[p]] = "none" THEN "add" ELSE "repair")
    /\ UNCHANGED <<diskVars, lockVars, name, next, inUse, todo, exposed, overtaken, crashes>>

\* Mutant: Add removes the marker where it should make the directory, which comes
\* only with the worktree.
MutUnmarkFirst(p) ==
    /\ Goto(p, "add", "made")
    /\ LockPolecat(p)
    /\ dir[name[p]] = "none"
    /\ marker' = [marker EXCEPT ![name[p]] = "none"]
    /\ UNCHANGED <<dir, agent, closed, sess, counter, poolLock, name, next, inUse, todo, exposed, overtaken, crashes>>

\* AddWithOptions: lock the polecat, make its directory ...
AddMkdir(p) ==
    /\ Goto(p, "add", "made")
    /\ LockPolecat(p)
    /\ dir[name[p]] = "none"
    /\ dir' = [dir EXCEPT ![name[p]] = "bare"]
    /\ UNCHANGED <<marker, agent, closed, sess, counter, poolLock, name, next, inUse, todo, exposed, overtaken, crashes>>

\* ... ErrPolecatExists, ErrPolecatNotFound (Repair), or uncommitted work ...
SpawnRefused(p) ==
    /\ \/ Goto(p, "add", "failed") /\ dir[name[p]] # "none"
       \/ Goto(p, "repair", "failed")
    /\ plock[name[p]] = None
    /\ UNCHANGED <<diskVars, lockVars, name, next, inUse, todo, exposed, overtaken, crashes>>

\* A reconcile that listed the directories before n's was made and has still to list
\* the markers.
Misses(n) == \E q \in Slings : pc[q] = "listed" /\ n \notin inUse[q]

\* ... remove the reservation marker ...
AddUnmark(p) ==
    /\ Goto(p, "made", "unmarked")
    /\ marker' = [marker EXCEPT ![name[p]] = "none"]
    /\ exposed' = IF Misses(name[p]) THEN exposed \cup {name[p]} ELSE exposed
    /\ UNCHANGED <<dir, agent, closed, sess, counter, lockVars, name, next, inUse, todo, overtaken, crashes>>

\* ... fetch and add the worktree (git makes the directories that are missing) ...
AddWorktree(p) ==
    /\ Goto(p, "unmarked", "built")
    /\ dir' = [dir EXCEPT ![name[p]] = p]
    /\ UNCHANGED <<marker, agent, closed, sess, counter, lockVars, name, next, inUse, todo, exposed, overtaken, crashes>>

\* ... or undo everything: cleanupOnError.
AddFail(p) ==
    /\ \E at \in {"unmarked", "built"} : Goto(p, at, "failed")
    /\ agent' = [agent EXCEPT ![name[p]] = None]
    /\ dir' = [dir EXCEPT ![name[p]] = "none"]
    /\ SavePool(next[p])
    /\ exposed' = exposed \cup TakenBack(next[p])
    /\ UnlockPolecat(p)
    /\ UNCHANGED <<marker, closed, sess, poolLock, name, next, inUse, todo, overtaken, crashes>>

\* RepairWorktreeWithOptions: with the new worktree ready beside it the old one is
\* removed and the agent bead reset ...
RepairRemove(p) ==
    /\ Goto(p, "repair", "old_removed")
    /\ LockPolecat(p)
    /\ dir[name[p]] # "none"
    /\ dir' = [dir EXCEPT ![name[p]] = "bare"]
    /\ agent' = [agent EXCEPT ![name[p]] = None]
    /\ UNCHANGED <<marker, closed, sess, counter, poolLock, name, next, inUse, todo, exposed, overtaken, crashes>>

\* ... and the new one moved into its place, if its directory is still there.
RepairRename(p) ==
    /\ \/ /\ Goto(p, "old_removed", "repaired")
          /\ dir[name[p]] # "none"
          /\ dir' = [dir EXCEPT ![name[p]] = p]
          /\ UNCHANGED plock
       \/ /\ Goto(p, "old_removed", "failed")
          /\ dir[name[p]] = "none"
          /\ UnlockPolecat(p)
          /\ UNCHANGED dir
    /\ UNCHANGED <<marker, agent, closed, sess, counter, poolLock, name, next, inUse, todo, exposed, overtaken, crashes>>

\* The agent bead cannot be written: the repaired polecat is removed, pool untouched.
RepairFail(p) ==
    /\ Goto(p, "repaired", "failed")
    /\ dir' = [dir EXCEPT ![name[p]] = "none"]
    /\ UnlockPolecat(p)
    /\ UNCHANGED <<marker, agent, closed, sess, counter, poolLock, name, next, inUse, todo, exposed, overtaken, crashes>>

\* The agent bead is created or reopened, with the hook; Add and Repair return.
CreateAgentBead(p) ==
    LET n == name[p] IN
    /\ \E at \in {"built", "repaired"} : Goto(p, at, "created")
    /\ agent' = [agent EXCEPT ![n] = p]
    /\ closed' = closed \ {n}
    /\ overtaken' = IF \E q \in Nukers : pc[q] = "rm_close" /\ name[q] = n
                    THEN overtaken \cup {n} ELSE overtaken
    /\ UnlockPolecat(p)
    /\ UNCHANGED <<dir, marker, sess, counter, poolLock, name, next, inUse, todo, exposed, crashes>>

\* Get again and verifyWorktreeExists: no directory is an error, a directory without
\* a worktree is removed.
VerifyWorktree(p) ==
    /\ Goto(p, "created", CASE dir[name[p]] = "none" -> "failed"
                            [] dir[name[p]] = "bare" -> "rm_lock"
                            [] OTHER                 -> "ready")
    /\ UNCHANGED <<diskVars, lockVars, name, next, inUse, todo, exposed, overtaken, crashes>>

StartSession(p) ==
    /\ Goto(p, "ready", "running")
    /\ sess' = sess \cup {name[p]}
    /\ UNCHANGED <<dir, marker, agent, closed, counter, lockVars, name, next, inUse, todo, exposed, overtaken, crashes>>

\* The session does not start: rollbackSlingArtifacts removes the polecat, with a
\* manager that loads the pool state again.
StartFail(p) ==
    /\ Goto(p, "ready", "rm_lock")
    /\ next' = [next EXCEPT ![p] = counter]
    /\ UNCHANGED <<diskVars, lockVars, name, inUse, todo, exposed, overtaken, crashes>>

\* The gt sling process is killed; its locks go with it, what it made stays.
Crash(p) ==
    /\ crashes < MaxCrashes
    /\ crashes' = crashes + 1
    /\ pc[p] \notin {"new", "running", "failed", "gone", "dead"}
    /\ pc' = [pc EXCEPT ![p] = "dead"]
    /\ poolLock' = IF poolLock = p THEN None ELSE poolLock
    /\ plock' = [n \in Names |-> IF plock[n] = p THEN None ELSE plock[n]]
    /\ UNCHANGED <<diskVars, name, next, inUse, todo, exposed, overtaken>>

-----------------------------------------------------------------------------
(***************************************************************************)
(* gt polecat nuke and RemoveWithOptions.                                  *)
(***************************************************************************)
\* A polecat that is done: its session is killed, the command loads the pool state.
Nuke(q, n) ==
    /\ pc[q] = "new"
    /\ \E p \in Slings : pc[p] = "running" /\ name[p] = n
    /\ pc' = [p \in Procs |->
                CASE p = q -> "rm_lock"
                  [] p \in Slings /\ name[p] = n /\ pc[p] = "running" -> "gone"
                  [] OTHER -> pc[p]]
    /\ name' = [name EXCEPT ![q] = n]
    /\ next' = [next EXCEPT ![q] = counter]
    /\ sess' = sess \ {n}
    /\ UNCHANGED <<dir, marker, agent, closed, counter, lockVars, inUse, todo, exposed, overtaken, crashes>>

\* A removal is over: a nuke has still to close the agent bead, a sling has failed.
RemoveEnd(q, from) == Goto(q, from, IF q \in Nukers THEN "rm_close" ELSE "failed")

\* Mutant: the agent bead is reset without waiting for the polecat's lock.
MutRemoveUnlocked(q) ==
    /\ Goto(q, "rm_lock", "rm_tree")
    /\ dir[name[q]] # "none"
    /\ agent' = [agent EXCEPT ![name[q]] = None]
    /\ UNCHANGED <<dir, marker, closed, sess, counter, lockVars, name, next, inUse, todo, exposed, overtaken, crashes>>

\* Lock the polecat and reset its agent bead ...
RemoveLock(q) ==
    /\ Goto(q, "rm_lock", "rm_tree")
    /\ LockPolecat(q)
    /\ dir[name[q]] # "none"
    /\ agent' = [agent EXCEPT ![name[q]] = None]
    /\ UNCHANGED <<dir, marker, closed, sess, counter, poolLock, name, next, inUse, todo, exposed, overtaken, crashes>>

RemoveNotFound(q) ==
    /\ RemoveEnd(q, "rm_lock")
    /\ plock[name[q]] = None
    /\ dir[name[q]] = "none"
    /\ UNCHANGED <<diskVars, lockVars, name, next, inUse, todo, exposed, overtaken, crashes>>

\* ... remove the worktree ...
RemoveTree(q) ==
    /\ Goto(q, "rm_tree", "rm_dir")
    /\ dir' = [dir EXCEPT ![name[q]] = IF @ = "none" THEN @ ELSE "bare"]
    /\ UNCHANGED <<marker, agent, closed, sess, counter, lockVars, name, next, inUse, todo, exposed, overtaken, crashes>>

\* ... and the directory, and save the pool.
RemoveDir(q) ==
    /\ RemoveEnd(q, "rm_dir")
    /\ dir' = [dir EXCEPT ![name[q]] = "none"]
    /\ SavePool(next[q])
    /\ exposed' = exposed \cup TakenBack(next[q])
    /\ UnlockPolecat(q)
    /\ UNCHANGED <<marker, agent, closed, sess, poolLock, name, next, inUse, todo, overtaken, crashes>>

\* The last step of a nuke, without any lock: the agent bead is closed.
NukeClose(q) ==
    /\ Goto(q, "rm_close", "new")
    /\ closed' = closed \cup {name[q]}
    /\ UNCHANGED <<dir, marker, agent, sess, counter, lockVars, name, next, inUse, todo, exposed, overtaken, crashes>>

-----------------------------------------------------------------------------
Allocating(p) ==
    \/ Load(p) \/ ListDirs(p) \/ ListFails(p) \/ ListMarkers(p) \/ KillOrphans(p) \/ CleanMarkers(p)
    \/ \E n \in Names : CleanKeep(p, n) \/ CleanFound(p, n)
    \/ CleanRemove(p) \/ AllocateThemed(p) \/ AllocateOverflow(p)

Spawning(p) ==
    \/ Get(p) \/ SpawnRefused(p)
    \/ AddMkdir(p) \/ AddUnmark(p) \/ AddWorktree(p) \/ AddFail(p)
    \/ RepairRemove(p) \/ RepairRename(p) \/ RepairFail(p)
    \/ CreateAgentBead(p) \/ VerifyWorktree(p) \/ StartSession(p) \/ StartFail(p)

Removing(q) == RemoveLock(q) \/ RemoveNotFound(q) \/ RemoveTree(q) \/ RemoveDir(q)

Next ==
    \/ \E p \in Slings : Allocating(p) \/ Spawning(p) \/ Removing(p) \/ Crash(p)
    \/ \E q \in Nukers : Removing(q) \/ NukeClose(q) \/ \E n \in Names : Nuke(q, n)
    \/ \E n \in Names : Age(n)

Spec == Init /\ [][Next]_vars

-----------------------------------------------------------------------------
(***************************************************************************)
(* Properties.  A name is exposed when one of the gaps that the code       *)
(* leaves in its reservation has opened: a reconcile listed the            *)
(* directories before the name's was made and the markers after its marker *)
(* was removed, or could not list them at all; the clean-up removed the    *)
(* directory of a polecat in hand; the marker grew old under a slow sling;   *)
(* or a process saved an overflow counter that it had loaded before others *)
(* advanced it.                                                            *)
(***************************************************************************)
\* AllocateName: "This closes the TOCTOU window between pool save and directory
\* creation".  The marker does hold the name until its directory is there: whatever
\* other allocations, crashes, failed spawns and nukes run meanwhile, two slings have
\* one name only if it was exposed.  (It does not close every window: each of the
\* gaps above is reachable.)
ReservedOnce ==
    \A p, q \in Live : p # q /\ name[p] = name[q] => name[p] \in exposed

\* A spawn that gt sling reports as successful stays intact until its nuke: its
\* worktree is the one it built, the agent bead's hook is its own (RemoveWithOptions:
\* "prevents a race where a concurrent sling allocates the same name, sets hook_bead,
\* and then has it cleared by this cleanup"), no other process kills its session, and
\* its agent bead is open unless it was written before the nuke of the name's previous
\* polecat was over: nukePolecatFull closes the bead after it has released the lock.
SpawnIntact ==
    \A p \in Slings :
        pc[p] \in {"ready", "running"} /\ name[p] \notin exposed =>
            /\ dir[name[p]] = p
            /\ agent[name[p]] = p
            /\ name[p] \in closed => name[p] \in overtaken
            /\ pc[p] = "running" => name[p] \in sess
=============================================================================
