------------------------- MODULE PolecatPool_proofs -------------------------
(***************************************************************************)
(* Proofs about PolecatPool, for any number of gt sling and gt polecat     *)
(* nuke processes, names and crashes: types, that a name is reserved once, *)
(* and that a spawned polecat stays intact.                                *)
(***************************************************************************)
EXTENDS PolecatPool, TLAPS


-----------------------------------------------------------------------------
(***************************************************************************)
(* Types, and that a process at work has a name.                           *)
(***************************************************************************)
\* Before the directory is made, while the worktree is put in place, and after.
Early  == {"allocated", "add", "repair"}
Mid    == {"made", "unmarked", "old_removed"}
Late   == {"built", "repaired", "created", "ready", "running"}
Owning == Mid \cup Late \cup {"rm_lock", "rm_tree"}
Active == Early \cup Owning \cup {"rm_dir"}
Named  == \A p \in Procs : pc[p] \in Active \cup {"removing", "rm_close"} => name[p] \in Names
Typing == TypeOK /\ Named

LEMMA InitTyping == Init => Typing
  <1> SUFFICES ASSUME Init PROVE Typing
    OBVIOUS
  <1> USE ProcAssumption, PoolAssumption, BoundAssumption DEF Init
  <1>1. TypeOK
    BY DEF TypeOK, Pcs, Names
  <1>2. Named
    BY DEF Named, Active, Owning, Early, Mid, Late
  <1> QED
    BY <1>1, <1>2 DEF Typing

\* A step of one process.
LEMMA GotoProperties ==
  ASSUME TypeOK, NEW p \in Procs, NEW from, NEW to, Goto(p, from, to)
  PROVE  pc[p] = from /\ pc'[p] = to /\ \A r \in Procs \ {p} : pc'[r] = pc[r]
  BY DEF TypeOK, Goto

\* Numbers and names.
LEMMA Numbers ==
  ASSUME TypeOK
  PROVE  /\ Themed \subseteq Names
         /\ \A p \in Procs : next[p] <= MaxName => next[p] \in Names
         /\ \A p \in Procs : next[p] <= MaxName => next[p] + 1 \in (PoolSize + 1)..(MaxName + 1)
         /\ \A p \in Procs : TakenBack(next[p]) \subseteq Names
  BY PoolAssumption DEF TypeOK, Themed, Names, TakenBack

LEMMA NextTyping == Typing /\ [Next]_vars => Typing'
  <1> SUFFICES ASSUME Typing, [Next]_vars PROVE Typing'
    OBVIOUS
  <1>0. TypeOK /\ Named
    BY DEF Typing
  <1>b. Nukers \subseteq Procs
    BY DEF Procs
  <1> USE ProcAssumption
  <1> USE DEF Typing, TypeOK, Named, Active, Owning, Early, Mid, Late, Procs, Pcs, diskVars,
          lockVars, procVars, Goto, LockPolecat, UnlockPolecat, SavePool, Reserve, RemoveEnd
  <1>1. ASSUME NEW p \in Slings, Allocating(p) \/ Spawning(p) \/ Crash(p) PROVE Typing'
    <2>0. p \in Procs
      BY DEF Procs
    <2>1. CASE Load(p)
      BY <1>0, <2>0, <2>1 DEF Load
    <2>2. CASE ListDirs(p)
      BY <1>0, <2>0, <2>2 DEF ListDirs
    <2>3. CASE ListMarkers(p)
      BY <1>0, <2>0, <2>3 DEF ListMarkers
    <2>4. CASE KillOrphans(p)
      BY <1>0, <2>0, <2>4 DEF KillOrphans
    <2>5. CASE CleanMarkers(p)
      BY <1>0, <2>0, <2>5 DEF CleanMarkers
    <2>6. CASE CleanRemove(p)
      BY <1>0, <2>0, <2>6 DEF CleanRemove
    <2>7. CASE AllocateThemed(p)
      BY <1>0, <2>0, <2>7, Numbers DEF AllocateThemed
    <2>8. CASE AllocateOverflow(p)
      BY <1>0, <2>0, <2>8, Numbers DEF AllocateOverflow
    <2>9. CASE Get(p)
      BY <1>0, <2>0, <2>9 DEF Get
    <2>10. CASE SpawnRefused(p)
      BY <1>0, <2>0, <2>10 DEF SpawnRefused
    <2>11. CASE AddMkdir(p)
      BY <1>0, <2>0, <2>11 DEF AddMkdir
    <2>12. CASE AddUnmark(p)
      BY <1>0, <2>0, <2>12 DEF AddUnmark
    <2>13. CASE AddWorktree(p)
      BY <1>0, <2>0, <2>13 DEF AddWorktree
    <2>14. CASE AddFail(p)
      BY <1>0, <2>0, <2>14, Numbers DEF AddFail
    <2>15. CASE RepairRemove(p)
      BY <1>0, <2>0, <2>15 DEF RepairRemove
    <2>16. CASE RepairRename(p)
      BY <1>0, <2>0, <2>16 DEF RepairRename
    <2>17. CASE RepairFail(p)
      BY <1>0, <2>0, <2>17 DEF RepairFail
    <2>18. CASE CreateAgentBead(p)
      BY <1>0, <2>0, <2>18 DEF CreateAgentBead
    <2>19. CASE VerifyWorktree(p)
      BY <1>0, <2>0, <2>19 DEF VerifyWorktree
    <2>20. CASE StartSession(p)
      BY <1>0, <2>0, <2>20 DEF StartSession
    <2>21. CASE StartFail(p)
      BY <1>0, <2>0, <2>21 DEF StartFail
    <2>22. CASE Crash(p)
      BY <1>0, <2>0, <2>22, BoundAssumption DEF Crash
    <2>23. ASSUME NEW k \in Names, CleanKeep(p, k) PROVE Typing'
      BY <1>0, <2>0, <2>23 DEF CleanKeep
    <2>24. ASSUME NEW k \in Names, CleanFound(p, k) PROVE Typing'
      BY <1>0, <2>0, <2>24 DEF CleanFound
    <2>25. CASE ListFails(p)
      BY <1>0, <2>0, <2>25, BoundAssumption DEF ListFails
    <2> QED
      BY <1>1, <2>1, <2>2, <2>3, <2>4, <2>5, <2>6, <2>7, <2>8, <2>9, <2>10, <2>11, <2>12, <2>13,
         <2>14, <2>15, <2>16, <2>17, <2>18, <2>19, <2>20, <2>21, <2>22, <2>23, <2>24, <2>25 DEF
         Allocating, Spawning
  <1>2. ASSUME NEW p \in Procs, Removing(p) PROVE Typing'
    <2>0. p \in Procs
      BY <1>2
    <2>1. CASE RemoveLock(p)
      BY <1>0, <2>0, <2>1 DEF RemoveLock
    <2>2. CASE RemoveNotFound(p)
      BY <1>0, <2>0, <2>2 DEF RemoveNotFound
    <2>3. CASE RemoveTree(p)
      BY <1>0, <2>0, <2>3 DEF RemoveTree
    <2>4. CASE RemoveDir(p)
      BY <1>0, <2>0, <2>4, Numbers DEF RemoveDir
    <2> QED
      BY <1>2, <2>1, <2>2, <2>3, <2>4 DEF Removing
  <1>3. ASSUME NEW p \in Nukers, NukeClose(p) PROVE Typing'
    BY <1>0, <1>b, <1>3 DEF NukeClose
  <1>4. ASSUME NEW p \in Nukers, NEW k \in Names, Nuke(p, k) PROVE Typing'
    BY <1>0, <1>b, <1>4 DEF Nuke
  <1>5. ASSUME NEW k \in Names, Age(k) PROVE Typing'
    BY <1>0, <1>5 DEF Age
  <1>6. CASE UNCHANGED vars
    BY <1>0, <1>6 DEF vars
  <1> QED
    BY <1>1, <1>2, <1>3, <1>4, <1>5, <1>6 DEF Next, Procs

\* Types: whoever saves the pool and with whatever counter it has loaded, the overflow counter
\* stays behind the theme and within the names, and so do the names given out.
THEOREM TypeCorrect == Spec => []TypeOK
  <1>1. Typing => TypeOK
    BY DEF Typing
  <1> QED
    BY <1>1, InitTyping, NextTyping, PTL DEF Spec

-----------------------------------------------------------------------------
(***************************************************************************)
(* The locks.                                                              *)
(***************************************************************************)
\* The steps of AllocateName under the pool lock, of Add, Repair and Remove under the
\* polecat's.
Holding == {"listed", "reconciled", "swept", "cleaning", "removing"}
Locking == Mid \cup {"built", "repaired", "rm_tree", "rm_dir"}
Locks ==
    /\ \A q \in Nukers : pc[q] \in {"new", "rm_lock", "rm_tree", "rm_dir", "rm_close"}
    /\ \A p \in Procs : pc[p] \in Holding <=> poolLock = p
    /\ \A p \in Procs : pc[p] \in Locking => plock[name[p]] = p
Locked == Typing /\ Locks

LEMMA InitLocked == Init => Locked
  <1> SUFFICES ASSUME Init PROVE Locks
    BY InitTyping DEF Locked
  <1> QED
    BY ProcAssumption DEF Init, Locks, Holding, Locking, Mid, Procs

LEMMA NextLocked == Locked /\ [Next]_vars => Locked'
  <1> SUFFICES ASSUME Locked, [Next]_vars PROVE Locks'
    BY NextTyping DEF Locked
  <1>0. TypeOK /\ Named /\ Locks
    BY DEF Locked, Typing
  <1> USE ProcAssumption
  <1> USE DEF TypeOK, Named, Locks, Active, Owning, Early, Mid, Late, Holding, Locking, Procs,
          diskVars, lockVars, procVars, Goto, LockPolecat, UnlockPolecat, Reserve, RemoveEnd
  <1>1. ASSUME NEW p \in Slings, Allocating(p) \/ Spawning(p) \/ Crash(p) PROVE Locks'
    <2>0. p \in Procs
      BY DEF Procs
    <2>1. CASE Load(p)
      BY <1>0, <2>0, <2>1 DEF Load
    <2>2. CASE ListDirs(p)
      BY <1>0, <2>0, <2>2 DEF ListDirs
    <2>3. CASE ListMarkers(p)
      BY <1>0, <2>0, <2>3 DEF ListMarkers
    <2>4. CASE KillOrphans(p)
      BY <1>0, <2>0, <2>4 DEF KillOrphans
    <2>5. CASE CleanMarkers(p)
      BY <1>0, <2>0, <2>5 DEF CleanMarkers
    <2>6. CASE CleanRemove(p)
      BY <1>0, <2>0, <2>6 DEF CleanRemove
    <2>7. CASE AllocateThemed(p)
      BY <1>0, <2>0, <2>7, Numbers DEF AllocateThemed
    <2>8. CASE AllocateOverflow(p)
      BY <1>0, <2>0, <2>8, Numbers DEF AllocateOverflow
    <2>9. CASE Get(p)
      BY <1>0, <2>0, <2>9 DEF Get
    <2>10. CASE SpawnRefused(p)
      BY <1>0, <2>0, <2>10 DEF SpawnRefused
    <2>11. CASE AddMkdir(p)
      BY <1>0, <2>0, <2>11 DEF AddMkdir
    <2>12. CASE AddUnmark(p)
      BY <1>0, <2>0, <2>12 DEF AddUnmark
    <2>13. CASE AddWorktree(p)
      BY <1>0, <2>0, <2>13 DEF AddWorktree
    <2>14. CASE AddFail(p)
      BY <1>0, <2>0, <2>14 DEF AddFail
    <2>15. CASE RepairRemove(p)
      BY <1>0, <2>0, <2>15 DEF RepairRemove
    <2>16. CASE RepairRename(p)
      BY <1>0, <2>0, <2>16 DEF RepairRename
    <2>17. CASE RepairFail(p)
      BY <1>0, <2>0, <2>17 DEF RepairFail
    <2>18. CASE CreateAgentBead(p)
      BY <1>0, <2>0, <2>18 DEF CreateAgentBead
    <2>19. CASE VerifyWorktree(p)
      BY <1>0, <2>0, <2>19 DEF VerifyWorktree
    <2>20. CASE StartSession(p)
      BY <1>0, <2>0, <2>20 DEF StartSession
    <2>21. CASE StartFail(p)
      BY <1>0, <2>0, <2>21 DEF StartFail
    <2>22. CASE Crash(p)
      BY <1>0, <2>0, <2>22 DEF Crash
    <2>23. ASSUME NEW k \in Names, CleanKeep(p, k) PROVE Locks'
      BY <1>0, <2>0, <2>23 DEF CleanKeep
    <2>24. ASSUME NEW k \in Names, CleanFound(p, k) PROVE Locks'
      BY <1>0, <2>0, <2>24 DEF CleanFound
    <2>25. CASE ListFails(p)
      BY <1>0, <2>0, <2>25 DEF ListFails
    <2> QED
      BY <1>1, <2>1, <2>2, <2>3, <2>4, <2>5, <2>6, <2>7, <2>8, <2>9, <2>10, <2>11, <2>12, <2>13,
         <2>14, <2>15, <2>16, <2>17, <2>18, <2>19, <2>20, <2>21, <2>22, <2>23, <2>24, <2>25 DEF
         Allocating, Spawning
  <1>2. ASSUME NEW p \in Procs, Removing(p) PROVE Locks'
    <2>0. p \in Procs
      BY <1>2
    <2>1. CASE RemoveLock(p)
      BY <1>0, <2>0, <2>1 DEF RemoveLock
    <2>2. CASE RemoveNotFound(p)
      BY <1>0, <2>0, <2>2 DEF RemoveNotFound
    <2>3. CASE RemoveTree(p)
      BY <1>0, <2>0, <2>3 DEF RemoveTree
    <2>4. CASE RemoveDir(p)
      BY <1>0, <2>0, <2>4 DEF RemoveDir
    <2> QED
      BY <1>2, <2>1, <2>2, <2>3, <2>4 DEF Removing
  <1>3. ASSUME NEW p \in Nukers, NukeClose(p) PROVE Locks'
    BY <1>0, <1>3 DEF NukeClose
  <1>4. ASSUME NEW p \in Nukers, NEW k \in Names, Nuke(p, k) PROVE Locks'
    BY <1>0, <1>4 DEF Nuke
  <1>5. ASSUME NEW k \in Names, Age(k) PROVE Locks'
    BY <1>0, <1>5 DEF Age
  <1>6. CASE UNCHANGED vars
    BY <1>0, <1>6 DEF vars
  <1> QED
    BY <1>1, <1>2, <1>3, <1>4, <1>5, <1>6 DEF Next, Procs

-----------------------------------------------------------------------------
(***************************************************************************)
(* Names that are not exposed.                                             *)
(***************************************************************************)
At(p, n, P) == name[p] = n /\ pc[p] \in P

\* Only a process that waits for the polecat's lock shares the name, with the one that
\* is about to remove the directory.
Unique(n) ==
    \A p, q \in Procs :
        At(p, n, Active \ {"rm_dir"}) /\ At(q, n, Active) /\ p # q => pc[p] \in Early /\ pc[q] = "rm_dir"

\* What the steps of a spawn and of a removal find on disk.
OnDisk(n) ==
    \A p \in Procs :
        /\ At(p, n, Early \cup {"made"}) => marker[n] = "young"
        /\ At(p, n, Mid) => dir[n] = "bare"
        /\ At(p, n, Late) => dir[n] = p
        /\ At(p, n, {"rm_lock", "rm_tree"}) => dir[n] \notin {"none", "bare"}

\* What an AllocateName does not find in use: after the directories, nobody owns it who
\* has no marker either; after the markers, nobody waits for it.
Unused(n) ==
    \A p, q \in Procs : n \notin inUse[p] =>
        /\ pc[p] = "listed" => ~At(q, n, Owning \ {"made"})
        /\ pc[p] = "listed" /\ At(q, n, Early) => dir[n] = "none"
        /\ pc[p] \in Holding \ {"listed"} => ~At(q, n, Active \ {"rm_dir"})

\* Overflow numbers from the counter on have never been given out.
Fresh(n) ==
    n > PoolSize /\ n >= counter =>
        dir[n] = "none" /\ marker[n] = "none" /\ \A p \in Procs : name[p] # n

Kept(n) == Unique(n) /\ OnDisk(n) /\ Unused(n) /\ Fresh(n)
Reserving == Locked /\ \A n \in Names \ exposed : Kept(n)

LEMMA InitReserving == Init => Reserving
  <1> SUFFICES ASSUME Init, NEW n \in Names PROVE Kept(n)
    BY InitLocked DEF Reserving
  <1> USE PoolAssumption
  <1> QED
    BY DEF Init, Kept, Unique, OnDisk, Unused, Fresh, At, Active, Owning, Early, Mid, Late,
       Holding, Procs, Names

\* An exposed name stays exposed.
LEMMA ExposedGrows == [Next]_vars => exposed \subseteq exposed'
  BY DEF Next, vars, Allocating, Spawning, Removing, Load, ListDirs, ListFails, ListMarkers, KillOrphans,
     CleanMarkers, CleanKeep, CleanFound, CleanRemove, AllocateThemed, AllocateOverflow, Get,
     SpawnRefused, AddMkdir, AddUnmark, AddWorktree, AddFail, RepairRemove, RepairRename,
     RepairFail, CreateAgentBead, VerifyWorktree, StartSession, StartFail, Crash, RemoveLock,
     RemoveNotFound, RemoveTree, RemoveDir, NukeClose, Nuke, Age

LEMMA NextReserving == Reserving /\ [Next]_vars => Reserving'
  <1> SUFFICES ASSUME Reserving, [Next]_vars, NEW n \in Names, n \notin exposed'
               PROVE  Kept(n)'
    BY NextLocked DEF Reserving, Names
  <1>0. /\ TypeOK /\ Named /\ Locks /\ n \notin exposed
        /\ Unique(n) /\ OnDisk(n) /\ Unused(n) /\ Fresh(n)
    BY ExposedGrows DEF Reserving, Locked, Typing, Kept
  <1> USE ProcAssumption
  <1> USE DEF TypeOK, Named, Locks, At, Active, Owning, Early, Mid, Late, Holding, Locking,
          Procs, diskVars, lockVars, procVars, Goto, LockPolecat, UnlockPolecat, Reserve, SavePool, RemoveEnd
  <1>1. ASSUME NEW p \in Slings, Allocating(p) \/ Spawning(p) \/ Crash(p) PROVE Kept(n)'
    <2>0. p \in Procs
      BY DEF Procs
    <2>1. CASE Load(p)
      <3>1. Unique(n)'
        BY <1>0, <2>0, <2>1 DEF Load, Unique, OnDisk, Unused, Fresh
      <3>2. OnDisk(n)'
        BY <1>0, <2>0, <2>1 DEF Load, Unique, OnDisk, Unused, Fresh
      <3>3. Unused(n)'
        BY <1>0, <2>0, <2>1 DEF Load, Unused, OnDisk, Unique, Fresh
      <3>4. Fresh(n)'
        BY <1>0, <2>0, <2>1 DEF Load, Fresh
      <3> QED
        BY <3>1, <3>2, <3>3, <3>4 DEF Kept
    <2>2. CASE ListDirs(p)
      <3>1. Unique(n)'
        BY <1>0, <2>0, <2>2 DEF ListDirs, Unique, OnDisk, Unused, Fresh
      <3>2. OnDisk(n)'
        BY <1>0, <2>0, <2>2 DEF ListDirs, Unique, OnDisk, Unused, Fresh
      <3>3. Unused(n)'
        BY <1>0, <2>0, <2>2 DEF ListDirs, Unused, OnDisk, Unique, Fresh
      <3>4. Fresh(n)'
        BY <1>0, <2>0, <2>2 DEF ListDirs, Fresh
      <3> QED
        BY <3>1, <3>2, <3>3, <3>4 DEF Kept
    <2>3. CASE ListMarkers(p)
      <3>1. Unique(n)'
        BY <1>0, <2>0, <2>3 DEF ListMarkers, Unique, OnDisk, Unused, Fresh
      <3>2. OnDisk(n)'
        BY <1>0, <2>0, <2>3 DEF ListMarkers, Unique, OnDisk, Unused, Fresh
      <3>3. Unused(n)'
        <4>1. /\ pc[p] = "listed" /\ pc'[p] = "reconciled"
              /\ \A r \in Procs \ {p} : pc'[r] = pc[r] /\ inUse'[r] = inUse[r]
              /\ name' = name /\ dir' = dir
              /\ n \notin inUse'[p] => n \notin inUse[p] /\ marker[n] = "none"
          BY <1>0, <2>0, <2>3 DEF ListMarkers
        <4>2. ASSUME NEW q \in Procs, n \notin inUse'[p], At(q, n, Active \ {"rm_dir"}) PROVE FALSE
          <5>1. n \notin inUse[p] /\ marker[n] # "young"
            BY <4>1, <4>2
          <5>2. ~At(q, n, Owning \ {"made"})
            BY <1>0, <2>0, <4>1, <4>2, <5>1 DEF Unused
          <5>3. ~At(q, n, Early \cup {"made"})
            BY <1>0, <4>2, <5>1 DEF OnDisk
          <5> QED
            BY <4>2, <5>2, <5>3
        <4>3. \A r \in Procs \ {p} : pc'[r] \notin Holding
          BY <1>0, <2>0, <4>1
        <4> QED
          BY <2>0, <4>1, <4>2, <4>3 DEF Unused
      <3>4. Fresh(n)'
        BY <1>0, <2>0, <2>3 DEF ListMarkers, Fresh
      <3> QED
        BY <3>1, <3>2, <3>3, <3>4 DEF Kept
    <2>4. CASE KillOrphans(p)
      <3>1. Unique(n)'
        BY <1>0, <2>0, <2>4 DEF KillOrphans, Unique, OnDisk, Unused, Fresh
      <3>2. OnDisk(n)'
        BY <1>0, <2>0, <2>4 DEF KillOrphans, Unique, OnDisk, Unused, Fresh
      <3>3. Unused(n)'
        BY <1>0, <2>0, <2>4 DEF KillOrphans, Unused, OnDisk, Unique, Fresh
      <3>4. Fresh(n)'
        BY <1>0, <2>0, <2>4 DEF KillOrphans, Fresh
      <3> QED
        BY <3>1, <3>2, <3>3, <3>4 DEF Kept
    <2>5. CASE CleanMarkers(p)
      <3>1. Unique(n)'
        BY <1>0, <2>0, <2>5 DEF CleanMarkers, Unique, OnDisk, Unused, Fresh
      <3>2. OnDisk(n)'
        BY <1>0, <2>0, <2>5 DEF CleanMarkers, Unique, OnDisk, Unused, Fresh
      <3>3. Unused(n)'
        BY <1>0, <2>0, <2>5 DEF CleanMarkers, Unused, OnDisk, Unique, Fresh
      <3>4. Fresh(n)'
        BY <1>0, <2>0, <2>5 DEF CleanMarkers, Fresh
      <3> QED
        BY <3>1, <3>2, <3>3, <3>4 DEF Kept
    <2>6. CASE CleanRemove(p)
      <3>1. Unique(n)'
        BY <1>0, <2>0, <2>6 DEF CleanRemove, InHand, Live, Unique, OnDisk, Unused, Fresh
      <3>2. OnDisk(n)'
        BY <1>0, <2>0, <2>6 DEF CleanRemove, InHand, Live, Unique, OnDisk, Unused, Fresh
      <3>3. Unused(n)'
        BY <1>0, <2>0, <2>6 DEF CleanRemove, Unused, OnDisk, Unique, Fresh
      <3>4. Fresh(n)'
        BY <1>0, <2>0, <2>6, PoolAssumption DEF CleanRemove, Fresh, Names
      <3> QED
        BY <3>1, <3>2, <3>3, <3>4 DEF Kept
    <2>7. CASE AllocateThemed(p)
      <3>1. PICK m \in Themed \ inUse[p] :
              Reserve(p, m, next[p]) /\ exposed' = exposed \cup TakenBack(next[p])
        BY <2>7 DEF AllocateThemed
      <3>2. /\ pc[p] = "cleaning" /\ pc'[p] = "allocated" /\ name'[p] = m
            /\ \A r \in Procs \ {p} : pc'[r] = pc[r] /\ name'[r] = name[r]
            /\ marker'[m] = "young" /\ \A k \in Names \ {m} : marker'[k] = marker[k]
            /\ m \in Names
        BY <1>0, <2>0, <3>1, Numbers
      <3>3. dir' = dir /\ inUse' = inUse /\ counter' = next[p] /\ poolLock' = None /\ poolLock = p
        BY <1>0, <2>0, <3>1, <3>2
      <3>4. Unique(n)'
        BY <1>0, <2>0, <3>1, <3>2, <3>3 DEF Unique, Unused
      <3>5. OnDisk(n)'
        BY <1>0, <2>0, <3>1, <3>2, <3>3 DEF OnDisk
      <3>6. Unused(n)'
        BY <1>0, <2>0, <3>2, <3>3 DEF Unused
      <3>7. Fresh(n)'
        <4>1. SUFFICES ASSUME n > PoolSize, n >= next[p] PROVE n >= counter /\ n # m
          BY <1>0, <2>0, <3>2, <3>3 DEF Fresh
        <4>2. n \in Int /\ next[p] \in Int /\ counter \in Int
          BY <1>0, <2>0, PoolAssumption DEF Names
        <4>3. n \notin next[p]..(counter - 1)
          BY <3>1 DEF TakenBack
        <4> QED
          BY <3>1, <4>1, <4>2, <4>3, PoolAssumption DEF Themed
      <3> QED
        BY <3>4, <3>5, <3>6, <3>7 DEF Kept
    <2>8. CASE AllocateOverflow(p)
      <3>1. /\ next[p] <= MaxName /\ Reserve(p, next[p], next[p] + 1)
            /\ exposed' = exposed \cup TakenBack(next[p])
        BY <2>8 DEF AllocateOverflow
      <3>2. /\ pc[p] = "cleaning" /\ pc'[p] = "allocated" /\ name'[p] = next[p]
            /\ \A r \in Procs \ {p} : pc'[r] = pc[r] /\ name'[r] = name[r]
            /\ marker'[next[p]] = "young" /\ \A k \in Names \ {next[p]} : marker'[k] = marker[k]
        BY <1>0, <2>0, <3>1, Numbers
      <3>3. dir' = dir /\ inUse' = inUse /\ counter' = next[p] + 1 /\ poolLock' = None /\ poolLock = p
        BY <1>0, <2>0, <3>1, <3>2
      <3>4. n \in Int /\ next[p] \in Int /\ counter \in Int /\ next[p] > PoolSize
        BY <1>0, <2>0, PoolAssumption DEF Names
      <3>5. n >= next[p] => n >= counter
        <4>1. n \notin next[p]..(counter - 1)
          BY <3>1 DEF TakenBack
        <4> QED
          BY <3>4, <4>1
      <3>6. n = next[p] => \A r \in Procs : name[r] # n
        BY <1>0, <3>4, <3>5 DEF Fresh
      <3>7. Unique(n)'
        BY <1>0, <2>0, <3>2, <3>3, <3>6 DEF Unique
      <3>8. OnDisk(n)'
        BY <1>0, <2>0, <3>1, <3>2, <3>3 DEF OnDisk
      <3>9. Unused(n)'
        BY <1>0, <2>0, <3>2, <3>3 DEF Unused
      <3>10. Fresh(n)'
        <4>1. n >= next[p] + 1 => n >= next[p] /\ n # next[p]
          BY <3>4
        <4> QED
          BY <1>0, <2>0, <3>2, <3>3, <3>5, <4>1 DEF Fresh
      <3> QED
        BY <3>7, <3>8, <3>9, <3>10 DEF Kept
    <2>9. CASE Get(p)
      <3>1. Unique(n)'
        BY <1>0, <2>0, <2>9 DEF Get, Unique, OnDisk, Unused, Fresh
      <3>2. OnDisk(n)'
        BY <1>0, <2>0, <2>9 DEF Get, Unique, OnDisk, Unused, Fresh
      <3>3. Unused(n)'
        BY <1>0, <2>0, <2>9 DEF Get, Unused, OnDisk, Unique, Fresh
      <3>4. Fresh(n)'
        BY <1>0, <2>0, <2>9 DEF Get, Fresh
      <3> QED
        BY <3>1, <3>2, <3>3, <3>4 DEF Kept
    <2>10. CASE SpawnRefused(p)
      <3>1. Unique(n)'
        BY <1>0, <2>0, <2>10 DEF SpawnRefused, Unique, OnDisk, Unused, Fresh
      <3>2. OnDisk(n)'
        BY <1>0, <2>0, <2>10 DEF SpawnRefused, Unique, OnDisk, Unused, Fresh
      <3>3. Unused(n)'
        BY <1>0, <2>0, <2>10 DEF SpawnRefused, Unused, OnDisk, Unique, Fresh
      <3>4. Fresh(n)'
        BY <1>0, <2>0, <2>10 DEF SpawnRefused, Fresh
      <3> QED
        BY <3>1, <3>2, <3>3, <3>4 DEF Kept
    <2>11. CASE AddMkdir(p)
      <3>1. Unique(n)'
        BY <1>0, <2>0, <2>11 DEF AddMkdir, Unique, OnDisk, Unused, Fresh
      <3>2. OnDisk(n)'
        BY <1>0, <2>0, <2>11 DEF AddMkdir, Unique, OnDisk, Unused, Fresh
      <3>3. Unused(n)'
        BY <1>0, <2>0, <2>11 DEF AddMkdir, Unused, OnDisk, Unique, Fresh
      <3>4. Fresh(n)'
        BY <1>0, <2>0, <2>11 DEF AddMkdir, Fresh
      <3> QED
        BY <3>1, <3>2, <3>3, <3>4 DEF Kept
    <2>12. CASE AddUnmark(p)
      <3>1. Unique(n)'
        BY <1>0, <2>0, <2>12 DEF AddUnmark, Unique, OnDisk, Unused, Fresh
      <3>2. OnDisk(n)'
        BY <1>0, <2>0, <2>12 DEF AddUnmark, Unique, OnDisk, Unused, Fresh
      <3>3. Unused(n)'
        BY <1>0, <2>0, <2>12 DEF AddUnmark, Misses, Unused, OnDisk, Unique, Fresh
      <3>4. Fresh(n)'
        BY <1>0, <2>0, <2>12 DEF AddUnmark, Fresh
      <3> QED
        BY <3>1, <3>2, <3>3, <3>4 DEF Kept
    <2>13. CASE AddWorktree(p)
      <3>1. Unique(n)'
        BY <1>0, <2>0, <2>13 DEF AddWorktree, Unique, OnDisk, Unused, Fresh
      <3>2. OnDisk(n)'
        BY <1>0, <2>0, <2>13 DEF AddWorktree, Unique, OnDisk, Unused, Fresh
      <3>3. Unused(n)'
        BY <1>0, <2>0, <2>13 DEF AddWorktree, Unused, OnDisk, Unique, Fresh
      <3>4. Fresh(n)'
        BY <1>0, <2>0, <2>13 DEF AddWorktree, Fresh
      <3> QED
        BY <3>1, <3>2, <3>3, <3>4 DEF Kept
    <2>14. CASE AddFail(p)
      <3>1. Unique(n)'
        BY <1>0, <2>0, <2>14 DEF AddFail, Unique, OnDisk, Unused, Fresh
      <3>2. OnDisk(n)'
        BY <1>0, <2>0, <2>14 DEF AddFail, Unique, OnDisk, Unused, Fresh
      <3>3. Unused(n)'
        BY <1>0, <2>0, <2>14 DEF AddFail, Unused, OnDisk, Unique, Fresh
      <3>4. Fresh(n)'
        BY <1>0, <2>0, <2>14 DEF AddFail, Fresh, TakenBack, Themed, Names
      <3> QED
        BY <3>1, <3>2, <3>3, <3>4 DEF Kept
    <2>15. CASE RepairRemove(p)
      <3>1. Unique(n)'
        BY <1>0, <2>0, <2>15 DEF RepairRemove, Unique, OnDisk, Unused, Fresh
      <3>2. OnDisk(n)'
        BY <1>0, <2>0, <2>15 DEF RepairRemove, Unique, OnDisk, Unused, Fresh
      <3>3. Unused(n)'
        BY <1>0, <2>0, <2>15 DEF RepairRemove, Unused, OnDisk, Unique, Fresh
      <3>4. Fresh(n)'
        BY <1>0, <2>0, <2>15 DEF RepairRemove, Fresh
      <3> QED
        BY <3>1, <3>2, <3>3, <3>4 DEF Kept
    <2>16. CASE RepairRename(p)
      <3>1. Unique(n)'
        BY <1>0, <2>0, <2>16 DEF RepairRename, Unique, OnDisk, Unused, Fresh
      <3>2. OnDisk(n)'
        BY <1>0, <2>0, <2>16 DEF RepairRename, Unique, OnDisk, Unused, Fresh
      <3>3. Unused(n)'
        BY <1>0, <2>0, <2>16 DEF RepairRename, Unused, OnDisk, Unique, Fresh
      <3>4. Fresh(n)'
        BY <1>0, <2>0, <2>16 DEF RepairRename, Fresh
      <3> QED
        BY <3>1, <3>2, <3>3, <3>4 DEF Kept
    <2>17. CASE RepairFail(p)
      <3>1. Unique(n)'
        BY <1>0, <2>0, <2>17 DEF RepairFail, Unique, OnDisk, Unused, Fresh
      <3>2. OnDisk(n)'
        BY <1>0, <2>0, <2>17 DEF RepairFail, Unique, OnDisk, Unused, Fresh
      <3>3. Unused(n)'
        BY <1>0, <2>0, <2>17 DEF RepairFail, Unused, OnDisk, Unique, Fresh
      <3>4. Fresh(n)'
        BY <1>0, <2>0, <2>17 DEF RepairFail, Fresh
      <3> QED
        BY <3>1, <3>2, <3>3, <3>4 DEF Kept
    <2>18. CASE CreateAgentBead(p)
      <3>1. Unique(n)'
        BY <1>0, <2>0, <2>18 DEF CreateAgentBead, Unique, OnDisk, Unused, Fresh
      <3>2. OnDisk(n)'
        BY <1>0, <2>0, <2>18 DEF CreateAgentBead, Unique, OnDisk, Unused, Fresh
      <3>3. Unused(n)'
        BY <1>0, <2>0, <2>18 DEF CreateAgentBead, Unused, OnDisk, Unique, Fresh
      <3>4. Fresh(n)'
        BY <1>0, <2>0, <2>18 DEF CreateAgentBead, Fresh
      <3> QED
        BY <3>1, <3>2, <3>3, <3>4 DEF Kept
    <2>19. CASE VerifyWorktree(p)
      <3>1. Unique(n)'
        BY <1>0, <2>0, <2>19 DEF VerifyWorktree, Unique, OnDisk, Unused, Fresh
      <3>2. OnDisk(n)'
        BY <1>0, <2>0, <2>19 DEF VerifyWorktree, Unique, OnDisk, Unused, Fresh
      <3>3. Unused(n)'
        BY <1>0, <2>0, <2>19 DEF VerifyWorktree, Unused, OnDisk, Unique, Fresh
      <3>4. Fresh(n)'
        BY <1>0, <2>0, <2>19 DEF VerifyWorktree, Fresh
      <3> QED
        BY <3>1, <3>2, <3>3, <3>4 DEF Kept
    <2>20. CASE StartSession(p)
      <3>1. Unique(n)'
        BY <1>0, <2>0, <2>20 DEF StartSession, Unique, OnDisk, Unused, Fresh
      <3>2. OnDisk(n)'
        BY <1>0, <2>0, <2>20 DEF StartSession, Unique, OnDisk, Unused, Fresh
      <3>3. Unused(n)'
        BY <1>0, <2>0, <2>20 DEF StartSession, Unused, OnDisk, Unique, Fresh
      <3>4. Fresh(n)'
        BY <1>0, <2>0, <2>20 DEF StartSession, Fresh
      <3> QED
        BY <3>1, <3>2, <3>3, <3>4 DEF Kept
    <2>21. CASE StartFail(p)
      <3>1. Unique(n)'
        BY <1>0, <2>0, <2>21 DEF StartFail, Unique, OnDisk, Unused, Fresh
      <3>2. OnDisk(n)'
        BY <1>0, <2>0, <2>21 DEF StartFail, Unique, OnDisk, Unused, Fresh
      <3>3. Unused(n)'
        BY <1>0, <2>0, <2>21 DEF StartFail, Unused, OnDisk, Unique, Fresh
      <3>4. Fresh(n)'
        BY <1>0, <2>0, <2>21 DEF StartFail, Fresh
      <3> QED
        BY <3>1, <3>2, <3>3, <3>4 DEF Kept
    <2>22. CASE Crash(p)
      <3>1. Unique(n)'
        BY <1>0, <2>0, <2>22 DEF Crash, Unique, OnDisk, Unused, Fresh
      <3>2. OnDisk(n)'
        BY <1>0, <2>0, <2>22 DEF Crash, Unique, OnDisk, Unused, Fresh
      <3>3. Unused(n)'
        BY <1>0, <2>0, <2>22 DEF Crash, Unused, OnDisk, Unique, Fresh
      <3>4. Fresh(n)'
        BY <1>0, <2>0, <2>22 DEF Crash, Fresh
      <3> QED
        BY <3>1, <3>2, <3>3, <3>4 DEF Kept
    <2>23. ASSUME NEW k \in Names, CleanKeep(p, k) PROVE Kept(n)'
      <3>1. Unique(n)'
        BY <1>0, <2>0, <2>23 DEF CleanKeep, Unique, OnDisk, Unused, Fresh
      <3>2. OnDisk(n)'
        BY <1>0, <2>0, <2>23 DEF CleanKeep, Unique, OnDisk, Unused, Fresh
      <3>3. Unused(n)'
        BY <1>0, <2>0, <2>23 DEF CleanKeep, Unused, OnDisk, Unique, Fresh
      <3>4. Fresh(n)'
        BY <1>0, <2>0, <2>23 DEF CleanKeep, Fresh
      <3> QED
        BY <3>1, <3>2, <3>3, <3>4 DEF Kept
    <2>24. ASSUME NEW k \in Names, CleanFound(p, k) PROVE Kept(n)'
      <3>1. Unique(n)'
        BY <1>0, <2>0, <2>24 DEF CleanFound, Unique, OnDisk, Unused, Fresh
      <3>2. OnDisk(n)'
        BY <1>0, <2>0, <2>24 DEF CleanFound, Unique, OnDisk, Unused, Fresh
      <3>3. Unused(n)'
        BY <1>0, <2>0, <2>24 DEF CleanFound, Unused, OnDisk, Unique, Fresh
      <3>4. Fresh(n)'
        BY <1>0, <2>0, <2>24 DEF CleanFound, Fresh
      <3> QED
        BY <3>1, <3>2, <3>3, <3>4 DEF Kept
    <2>25. CASE ListFails(p)
      <3>1. Unique(n)'
        BY <1>0, <2>0, <2>25 DEF ListFails, Unique, OnDisk, Unused, Fresh
      <3>2. OnDisk(n)'
        BY <1>0, <2>0, <2>25 DEF ListFails, Unique, OnDisk, Unused, Fresh
      <3>3. Unused(n)'
        BY <1>0, <2>0, <2>25 DEF ListFails, Unused, OnDisk, Unique, Fresh
      <3>4. Fresh(n)'
        BY <1>0, <2>0, <2>25 DEF ListFails, Fresh
      <3> QED
        BY <3>1, <3>2, <3>3, <3>4 DEF Kept
    <2> QED
      BY <1>1, <2>1, <2>2, <2>3, <2>4, <2>5, <2>6, <2>7, <2>8, <2>9, <2>10, <2>11, <2>12, <2>13,
         <2>14, <2>15, <2>16, <2>17, <2>18, <2>19, <2>20, <2>21, <2>22, <2>23, <2>24, <2>25 DEF
         Allocating, Spawning
  <1>2. ASSUME NEW p \in Procs, Removing(p) PROVE Kept(n)'
    <2>0. p \in Procs
      BY <1>2
    <2>1. CASE RemoveLock(p)
      <3>1. Unique(n)'
        BY <1>0, <2>0, <2>1 DEF RemoveLock, Unique, OnDisk, Unused, Fresh
      <3>2. OnDisk(n)'
        BY <1>0, <2>0, <2>1 DEF RemoveLock, Unique, OnDisk, Unused, Fresh
      <3>3. Unused(n)'
        BY <1>0, <2>0, <2>1 DEF RemoveLock, Unused, OnDisk, Unique, Fresh
      <3>4. Fresh(n)'
        BY <1>0, <2>0, <2>1 DEF RemoveLock, Fresh
      <3> QED
        BY <3>1, <3>2, <3>3, <3>4 DEF Kept
    <2>2. CASE RemoveNotFound(p)
      <3>1. Unique(n)'
        BY <1>0, <2>0, <2>2 DEF RemoveNotFound, Unique, OnDisk, Unused, Fresh
      <3>2. OnDisk(n)'
        BY <1>0, <2>0, <2>2 DEF RemoveNotFound, Unique, OnDisk, Unused, Fresh
      <3>3. Unused(n)'
        BY <1>0, <2>0, <2>2 DEF RemoveNotFound, Unused, OnDisk, Unique, Fresh
      <3>4. Fresh(n)'
        BY <1>0, <2>0, <2>2 DEF RemoveNotFound, Fresh
      <3> QED
        BY <3>1, <3>2, <3>3, <3>4 DEF Kept
    <2>3. CASE RemoveTree(p)
      <3>1. Unique(n)'
        BY <1>0, <2>0, <2>3 DEF RemoveTree, Unique, OnDisk, Unused, Fresh
      <3>2. OnDisk(n)'
        BY <1>0, <2>0, <2>3 DEF RemoveTree, Unique, OnDisk, Unused, Fresh
      <3>3. Unused(n)'
        BY <1>0, <2>0, <2>3 DEF RemoveTree, Unused, OnDisk, Unique, Fresh
      <3>4. Fresh(n)'
        BY <1>0, <2>0, <2>3 DEF RemoveTree, Fresh
      <3> QED
        BY <3>1, <3>2, <3>3, <3>4 DEF Kept
    <2>4. CASE RemoveDir(p)
      <3>1. Unique(n)'
        BY <1>0, <2>0, <2>4 DEF RemoveDir, Unique, OnDisk, Unused, Fresh
      <3>2. OnDisk(n)'
        BY <1>0, <2>0, <2>4 DEF RemoveDir, Unique, OnDisk, Unused, Fresh
      <3>3. Unused(n)'
        BY <1>0, <2>0, <2>4 DEF RemoveDir, Unused, OnDisk, Unique, Fresh
      <3>4. Fresh(n)'
        BY <1>0, <2>0, <2>4 DEF RemoveDir, Fresh, TakenBack, Themed, Names
      <3> QED
        BY <3>1, <3>2, <3>3, <3>4 DEF Kept
    <2> QED
      BY <1>2, <2>1, <2>2, <2>3, <2>4 DEF Removing
  <1>3. ASSUME NEW p \in Nukers, NukeClose(p) PROVE Kept(n)'
    <2>1. Unique(n)'
      BY <1>0, <1>3 DEF NukeClose, Unique, OnDisk, Unused, Fresh
    <2>2. OnDisk(n)'
      BY <1>0, <1>3 DEF NukeClose, Unique, OnDisk, Unused, Fresh
    <2>3. Unused(n)'
      BY <1>0, <1>3 DEF NukeClose, Unused, OnDisk, Unique, Fresh
    <2>4. Fresh(n)'
      BY <1>0, <1>3 DEF NukeClose, Fresh
    <2> QED
      BY <2>1, <2>2, <2>3, <2>4 DEF Kept
  <1>4. ASSUME NEW p \in Nukers, NEW k \in Names, Nuke(p, k) PROVE Kept(n)'
    <2>1. Unique(n)'
      BY <1>0, <1>4 DEF Nuke, Unique, OnDisk, Unused, Fresh
    <2>2. OnDisk(n)'
      BY <1>0, <1>4 DEF Nuke, Unique, OnDisk, Unused, Fresh
    <2>3. Unused(n)'
      BY <1>0, <1>4 DEF Nuke, Unused, OnDisk, Unique, Fresh
    <2>4. Fresh(n)'
      BY <1>0, <1>4 DEF Nuke, Fresh
    <2> QED
      BY <2>1, <2>2, <2>3, <2>4 DEF Kept
  <1>5. ASSUME NEW k \in Names, Age(k) PROVE Kept(n)'
    <2>1. Unique(n)'
      BY <1>0, <1>5 DEF Age, Unique, OnDisk, Unused, Fresh
    <2>2. OnDisk(n)'
      BY <1>0, <1>5 DEF Age, Unique, OnDisk, Unused, Fresh, Live
    <2>3. Unused(n)'
      BY <1>0, <1>5 DEF Age, Unused, OnDisk, Unique, Fresh
    <2>4. Fresh(n)'
      BY <1>0, <1>5 DEF Age, Fresh
    <2> QED
      BY <2>1, <2>2, <2>3, <2>4 DEF Kept
  <1>6. CASE UNCHANGED vars
    <2>1. Unique(n)'
      BY <1>0, <1>6 DEF vars, Unique, OnDisk, Unused, Fresh
    <2>2. OnDisk(n)'
      BY <1>0, <1>6 DEF vars, Unique, OnDisk, Unused, Fresh
    <2>3. Unused(n)'
      BY <1>0, <1>6 DEF vars, Unused, OnDisk, Unique, Fresh
    <2>4. Fresh(n)'
      BY <1>0, <1>6 DEF vars, Fresh
    <2> QED
      BY <2>1, <2>2, <2>3, <2>4 DEF Kept
  <1> QED
    BY <1>1, <1>2, <1>3, <1>4, <1>5, <1>6 DEF Next, Procs

LEMMA ReservingInvariant == Spec => []Reserving
  BY InitReserving, NextReserving, PTL DEF Spec

\* AllocateName, AddWithOptions, RepairWorktreeWithOptions and RemoveWithOptions: two
\* slings have one name only if its reservation had a gap.
THEOREM NameReservedOnce == Spec => []ReservedOnce
  <1>1. Reserving => ReservedOnce
    <2> SUFFICES ASSUME Reserving, NEW p \in Live, NEW q \in Live, p # q, name[p] = name[q],
                        name[p] \notin exposed
                 PROVE  FALSE
      BY DEF ReservedOnce
    <2>1. p \in Procs /\ q \in Procs /\ At(p, name[p], Active \ {"rm_dir"}) /\ At(q, name[p], Active)
      BY DEF Live, Procs, At, Active, Owning, Early, Mid, Late
    <2>2. name[p] \in Names
      BY <2>1 DEF Reserving, Locked, Typing, Named, At
    <2>3. Unique(name[p])
      BY <2>2 DEF Reserving, Kept
    <2>4. pc[q] = "rm_dir"
      BY <2>1, <2>3 DEF Unique
    <2> QED
      BY <2>4 DEF Live
  <1> QED
    BY <1>1, ReservingInvariant, PTL

-----------------------------------------------------------------------------
(***************************************************************************)
(* A spawned polecat.  A nuke that has still to close the bead of a name   *)
(* which is spawned again marks it overtaken.                              *)
(***************************************************************************)
Intact(n) ==
    \A p \in Procs : At(p, n, {"created", "ready", "running"}) =>
        /\ agent[n] = p
        /\ n \in closed \/ (\E q \in Nukers : At(q, n, {"rm_close"})) => n \in overtaken
        /\ pc[p] = "running" => n \in sess
Spawns == Reserving /\ \A n \in Names \ exposed : Intact(n)

LEMMA InitSpawns == Init => Spawns
  <1> SUFFICES ASSUME Init, NEW n \in Names PROVE Intact(n)
    BY InitReserving DEF Spawns
  <1> QED
    BY DEF Init, Intact, At, Procs

LEMMA NextSpawns == Spawns /\ [Next]_vars => Spawns'
  <1> SUFFICES ASSUME Spawns, [Next]_vars, NEW n \in Names, n \notin exposed'
               PROVE  Intact(n)'
    BY NextReserving DEF Spawns, Names
  <1>0. /\ TypeOK /\ Named /\ Locks /\ n \notin exposed /\ Intact(n)
        /\ Unique(n) /\ OnDisk(n) /\ Unused(n) /\ Fresh(n)
    BY ExposedGrows DEF Spawns, Reserving, Locked, Typing, Kept
  <1> USE ProcAssumption
  <1> USE DEF TypeOK, Named, Locks, At, Active, Owning, Early, Mid, Late, Holding, Locking,
          Procs, diskVars, lockVars, procVars, Goto, LockPolecat, UnlockPolecat, Reserve, RemoveEnd
  <1>1. ASSUME NEW p \in Slings, Allocating(p) \/ Spawning(p) \/ Crash(p) PROVE Intact(n)'
    <2>0. p \in Procs
      BY DEF Procs
    <2>1. CASE Load(p)
      BY <1>0, <2>0, <2>1 DEF Load, Intact
    <2>2. CASE ListDirs(p)
      BY <1>0, <2>0, <2>2 DEF ListDirs, Intact
    <2>3. CASE ListMarkers(p)
      BY <1>0, <2>0, <2>3 DEF ListMarkers, Intact
    <2>4. CASE KillOrphans(p)
      BY <1>0, <2>0, <2>4 DEF KillOrphans, Intact, Unused
    <2>5. CASE CleanMarkers(p)
      BY <1>0, <2>0, <2>5 DEF CleanMarkers, Intact
    <2>6. CASE CleanRemove(p)
      BY <1>0, <2>0, <2>6 DEF CleanRemove, Intact
    <2>7. CASE AllocateThemed(p)
      BY <1>0, <2>0, <2>7, Numbers DEF AllocateThemed, Intact, Unused
    <2>8. CASE AllocateOverflow(p)
      <3>1. /\ next[p] <= MaxName /\ Reserve(p, next[p], next[p] + 1)
            /\ exposed' = exposed \cup TakenBack(next[p])
        BY <2>8 DEF AllocateOverflow
      <3>2. n \in Int /\ next[p] \in Int /\ counter \in Int /\ next[p] > PoolSize
        BY <1>0, <2>0, PoolAssumption DEF Names
      <3>3. n \notin next[p]..(counter - 1)
        BY <3>1 DEF TakenBack
      <3>4. n = next[p] => \A r \in Procs : name[r] # n
        BY <1>0, <3>2, <3>3 DEF Fresh
      <3> QED
        BY <1>0, <2>0, <3>1, <3>4 DEF Intact
    <2>9. CASE Get(p)
      BY <1>0, <2>0, <2>9 DEF Get, Intact
    <2>10. CASE SpawnRefused(p)
      BY <1>0, <2>0, <2>10 DEF SpawnRefused, Intact
    <2>11. CASE AddMkdir(p)
      BY <1>0, <2>0, <2>11 DEF AddMkdir, Intact, Unique, OnDisk
    <2>12. CASE AddUnmark(p)
      BY <1>0, <2>0, <2>12 DEF AddUnmark, Intact
    <2>13. CASE AddWorktree(p)
      BY <1>0, <2>0, <2>13 DEF AddWorktree, Intact
    <2>14. CASE AddFail(p)
      BY <1>0, <2>0, <2>14 DEF AddFail, Intact, Unique, OnDisk
    <2>15. CASE RepairRemove(p)
      BY <1>0, <2>0, <2>15 DEF RepairRemove, Intact, Unique, OnDisk
    <2>16. CASE RepairRename(p)
      BY <1>0, <2>0, <2>16 DEF RepairRename, Intact, Unique, OnDisk
    <2>17. CASE RepairFail(p)
      BY <1>0, <2>0, <2>17 DEF RepairFail, Intact, Unique, OnDisk
    <2>18. CASE CreateAgentBead(p)
      BY <1>0, <2>0, <2>18 DEF CreateAgentBead, Intact, Unique, OnDisk
    <2>19. CASE VerifyWorktree(p)
      BY <1>0, <2>0, <2>19 DEF VerifyWorktree, Intact, Unique, OnDisk
    <2>20. CASE StartSession(p)
      BY <1>0, <2>0, <2>20 DEF StartSession, Intact
    <2>21. CASE StartFail(p)
      BY <1>0, <2>0, <2>21 DEF StartFail, Intact
    <2>22. CASE Crash(p)
      BY <1>0, <2>0, <2>22 DEF Crash, Intact
    <2>23. ASSUME NEW k \in Names, CleanKeep(p, k) PROVE Intact(n)'
      BY <1>0, <2>0, <2>23 DEF CleanKeep, Intact
    <2>24. ASSUME NEW k \in Names, CleanFound(p, k) PROVE Intact(n)'
      BY <1>0, <2>0, <2>24 DEF CleanFound, Intact
    <2>25. CASE ListFails(p)
      BY <1>0, <2>0, <2>25 DEF ListFails, Intact
    <2> QED
      BY <1>1, <2>1, <2>2, <2>3, <2>4, <2>5, <2>6, <2>7, <2>8, <2>9, <2>10, <2>11, <2>12, <2>13,
         <2>14, <2>15, <2>16, <2>17, <2>18, <2>19, <2>20, <2>21, <2>22, <2>23, <2>24, <2>25 DEF
         Allocating, Spawning
  <1>2. ASSUME NEW p \in Procs, Removing(p) PROVE Intact(n)'
    <2>0. p \in Procs
      BY <1>2
    <2>1. CASE RemoveLock(p)
      BY <1>0, <2>0, <2>1 DEF RemoveLock, Intact, Unique, OnDisk
    <2>2. CASE RemoveNotFound(p)
      BY <1>0, <2>0, <2>2 DEF RemoveNotFound, Intact, Unique, OnDisk
    <2>3. CASE RemoveTree(p)
      BY <1>0, <2>0, <2>3 DEF RemoveTree, Intact, Unique, OnDisk
    <2>4. CASE RemoveDir(p)
      BY <1>0, <2>0, <2>4 DEF RemoveDir, Intact, Unique, OnDisk
    <2> QED
      BY <1>2, <2>1, <2>2, <2>3, <2>4 DEF Removing
  <1>3. ASSUME NEW p \in Nukers, NukeClose(p) PROVE Intact(n)'
    BY <1>0, <1>3 DEF NukeClose, Intact, Unique, OnDisk
  <1>4. ASSUME NEW p \in Nukers, NEW k \in Names, Nuke(p, k) PROVE Intact(n)'
    BY <1>0, <1>4 DEF Nuke, Intact
  <1>5. ASSUME NEW k \in Names, Age(k) PROVE Intact(n)'
    BY <1>0, <1>5 DEF Age, Intact
  <1>6. CASE UNCHANGED vars
    BY <1>0, <1>6 DEF vars, Intact
  <1> QED
    BY <1>1, <1>2, <1>3, <1>4, <1>5, <1>6 DEF Next, Procs

\* gt sling, with gt polecat nuke and RemoveWithOptions: the worktree, the agent bead and
\* the session of a polecat that was spawned are its own until it is nuked.
THEOREM SpawnStaysIntact == Spec => []SpawnIntact
  <1>1. Spawns => SpawnIntact
    <2> SUFFICES ASSUME Spawns, NEW p \in Slings, pc[p] \in {"ready", "running"}, name[p] \notin exposed
                 PROVE  /\ dir[name[p]] = p
                        /\ agent[name[p]] = p
                        /\ name[p] \in closed => name[p] \in overtaken
                        /\ pc[p] = "running" => name[p] \in sess
      BY DEF SpawnIntact
    <2>1. p \in Procs /\ name[p] \in Names
      BY DEF Spawns, Reserving, Locked, Typing, Named, Procs, Active, Owning, Late
    <2>2. OnDisk(name[p]) /\ Intact(name[p])
      BY <2>1 DEF Spawns, Reserving, Kept
    <2> QED
      BY <2>1, <2>2 DEF OnDisk, Intact, At, Late
  <1> QED
    BY <1>1, InitSpawns, NextSpawns, PTL DEF Spec
=============================================================================
