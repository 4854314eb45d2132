------------------------ MODULE WorkRecovery_proofs ------------------------
(***************************************************************************)
(* Proofs about WorkRecovery, for any polecats, any number of redispatches *)
(* and any bound on the events: types, and that the witness removes no     *)
(* work that is on no remote.                                              *)
(***************************************************************************)
EXTENDS WorkRecovery, TLAPS

-----------------------------------------------------------------------------
(***************************************************************************)
(* The ledger of the deacon.  The attempts are below the limit when a      *)
(* redispatch begins, and only one runs at a time: without this the number *)
(* of recorded attempts is not bounded.                                    *)
(***************************************************************************)
Ledger ==
    /\ by = Deacon => attempts < MaxAttempts
    /\ (pc = "idle") <=> (by = None)
    /\ pc = "record" => by = Deacon
    /\ pc = "spawned" => old # None
Visiting == wpc # "idle" => wpole \in Polecats
Typing == TypeOK /\ Ledger /\ Visiting

LEMMA InitTyping == Init => Typing
  <1> SUFFICES ASSUME Init PROVE Typing
    OBVIOUS
  <1> USE NameAssumption, BoundAssumption DEF Init, Dispatchers, SlingPcs, WitnessPcs
  <1>1. submitted \in BOOLEAN /\ whook \in BOOLEAN /\ reused \in BOOLEAN /\ mail \in BOOLEAN
        /\ escalated \in BOOLEAN
    BY Zenon
  <1>2. TypeOK
    BY <1>1 DEF TypeOK
  <1>3. Ledger
    BY DEF Ledger
  <1>4. Visiting
    BY DEF Visiting
  <1> QED
    BY <1>2, <1>3, <1>4 DEF Typing

LEMMA NextTyping == Typing /\ [Next]_vars => Typing'
  <1> SUFFICES ASSUME Typing, [Next]_vars PROVE Typing'
    OBVIOUS
  <1> USE NameAssumption, BoundAssumption
  <1> USE DEF Typing, TypeOK, Ledger, Visiting, Dispatchers, SlingPcs, WitnessPcs,
          beadVars, polecatVars, slingVars, witnessVars, deaconVars, Goto, Event
  <1>1. CASE Feed
    BY <1>1 DEF Feed
  <1>2. CASE Merge
    <2>1. submitted' \in BOOLEAN
      BY <1>2, Zenon DEF Merge
    <2> QED
      BY <1>2, <2>1 DEF Merge
  <1>3. CASE Sling
    <2>1. CASE SlingCheck
      BY <2>1 DEF SlingCheck, Exit
    <2>2. CASE SlingSpawn
      BY <2>2 DEF SlingSpawn
    <2>3. CASE SlingNoSpawn
      BY <2>3 DEF SlingNoSpawn, Exit
    <2>4. CASE SlingUnhook
      BY <2>4 DEF SlingUnhook, Unhook
    <2>5. CASE SlingHook
      BY <2>5 DEF SlingHook
    <2>6. CASE SlingVerify
      BY <2>6 DEF SlingVerify
    <2>7. CASE SlingStart
      BY <2>7 DEF SlingStart, Exit
    <2>8. CASE SlingNoStart
      BY <2>8 DEF SlingNoStart
    <2>9. CASE SlingRollback
      BY <2>9 DEF SlingRollback, Exit, Unhook, RemovePolecat
    <2> QED
      BY <1>3, <2>1, <2>2, <2>3, <2>4, <2>5, <2>6, <2>7, <2>8, <2>9 DEF Sling
  <1>4. CASE SlingCrash
    BY <1>4 DEF SlingCrash
  <1>5. ASSUME NEW p \in Polecats, Polecat(p) PROVE Typing'
    <2>1. CASE Claim(p)
      BY <2>1 DEF Claim
    <2>2. CASE Change(p)
      BY <2>2 DEF Change
    <2>3. CASE DoneStart(p)
      BY <2>3 DEF DoneStart
    <2>4. ASSUME NEW completed \in BOOLEAN, NEW mishap \in Mishaps, DoneFinish(p, completed, mishap) PROVE Typing'
      BY <2>4 DEF DoneFinish, RemovePolecat
    <2> QED
      BY <1>5, <2>1, <2>2, <2>3, <2>4 DEF Polecat
  <1>6. ASSUME NEW p \in Polecats, Happen(p) PROVE Typing'
    <2>1. CASE Die(p)
      BY <2>1 DEF Die
    <2>2. CASE Wake(p)
      BY <2>2 DEF Wake
    <2>3. CASE RestartPolecat(p)
      BY <2>3 DEF RestartPolecat
    <2> QED
      BY <1>6, <2>1, <2>2, <2>3 DEF Happen
  <1>7. ASSUME NEW p \in Polecats, Visit(p) PROVE Typing'
    BY <1>7 DEF Visit, Witness, WitnessReads
  <1>8. ASSUME NEW p \in Polecats, HandleShutdown(p) PROVE Typing'
    BY <1>8 DEF HandleShutdown, Witness, MayNuke
  <1>9. ASSUME NEW p \in Polecats, ListOrphan(p) PROVE Typing'
    BY <1>9 DEF ListOrphan, Witness, WitnessReads
  <1>10. CASE WitnessStep
    <2>1. CASE VisitLive
      BY <2>1 DEF VisitLive, Witness, WitnessReads
    <2>2. CASE VisitDeadLeave
      BY <2>2 DEF VisitDeadLeave, Witness, WitnessReads
    <2>3. CASE VisitDead
      BY <2>3 DEF VisitDead, Witness, WitnessReads, MayNuke
    <2>4. CASE NukeKill
      <3>1. whook' \in BOOLEAN /\ reused' \in BOOLEAN
        BY <2>4, Zenon DEF NukeKill, Witness
      <3> QED
        BY <2>4, <3>1 DEF NukeKill, Witness
    <2>5. CASE NukeCheck
      BY <2>5 DEF NukeCheck, Witness, WitnessReads, AfterNuke
    <2>6. CASE NukeRemove
      <3>1. whook' \in BOOLEAN /\ reused' \in BOOLEAN
        BY <2>6, Zenon DEF NukeRemove, Witness
      <3> QED
        BY <2>6, <3>1 DEF NukeRemove, Witness, RemovePolecat, AfterNuke
    <2>7. CASE CheckOrphan
      BY <2>7 DEF CheckOrphan, Witness, WitnessReads
    <2>8. CASE ResetRead
      BY <2>8 DEF ResetRead, Witness, WitnessReads, Active
    <2>9. CASE ResetWrite
      <3>1. mail' \in BOOLEAN
        BY <2>9, Zenon DEF ResetWrite
      <3> QED
        BY <2>9, <3>1 DEF ResetWrite, Witness, Unhook
    <2> QED
      BY <1>10, <2>1, <2>2, <2>3, <2>4, <2>5, <2>6, <2>7, <2>8, <2>9 DEF WitnessStep
  <1>11. CASE Redispatching
    <2>1. CASE RedispatchSkip
      <3>1. mail' \in BOOLEAN
        BY <2>1, Zenon DEF RedispatchSkip
      <3> QED
        BY <2>1, <3>1 DEF RedispatchSkip
    <2>2. CASE RedispatchEscalate
      <3>1. mail' \in BOOLEAN /\ escalated' \in BOOLEAN
        BY <2>2, Zenon DEF RedispatchEscalate
      <3> QED
        BY <2>2, <3>1 DEF RedispatchEscalate
    <2>3. CASE Redispatch
      <3>1. mail' \in BOOLEAN
        BY <2>3, Zenon DEF Redispatch
      <3> QED
        BY <2>3, <3>1 DEF Redispatch
    <2>4. CASE RecordAttempt
      BY <2>4 DEF RecordAttempt
    <2> QED
      BY <1>11, <2>1, <2>2, <2>3, <2>4 DEF Redispatching
  <1>12. CASE UNCHANGED vars
    BY <1>12 DEF vars
  <1> QED
    BY <1>1, <1>2, <1>3, <1>4, <1>5, <1>6, <1>7, <1>8, <1>9, <1>10, <1>11, <1>12 DEF Next

\* The model's variables keep their types; in particular no agent bead has a hook, no
\* done-intent and no unsaved work without a polecat directory.
THEOREM TypeCorrect == Spec => []TypeOK
  <1>1. Typing => TypeOK
    BY DEF Typing
  <1> QED
    BY <1>1, InitTyping, NextTyping, PTL DEF Spec

-----------------------------------------------------------------------------
(***************************************************************************)
(* What a clean report means.  gt done reports "clean" when it clears the  *)
(* hook, and only an agent with a hook changes the worktree, misreports    *)
(* apart; a hook is set again only for a name whose directory had gone,    *)
(* and that is recorded in reused while the witness visits the name.       *)
(***************************************************************************)
Reports ==
    \A p \in Polecats \ misreport : report[p] = "clean" => p \in dir \ (hook \cup unsaved)
Cleared ==
    wpc = "remove" => reused \/ wpole \in misreport \/ wpole \notin hook \cup unsaved
Safe == Reports /\ Cleared

LEMMA InitSafe == Init => Safe
  BY DEF Init, Safe, Reports, Cleared

LEMMA NextSafe == Typing /\ Safe /\ [Next]_vars => Safe'
  <1> SUFFICES ASSUME Typing, Safe, [Next]_vars PROVE Safe'
    OBVIOUS
  <1> USE NameAssumption
  <1> USE DEF Typing, TypeOK, Visiting, Safe, Reports, Cleared, beadVars, polecatVars,
          slingVars, witnessVars, deaconVars, Goto, Event
  <1>1. CASE Feed
    BY <1>1 DEF Feed
  <1>2. CASE Merge
    BY <1>2 DEF Merge
  <1>3. CASE Sling
    <2>1. CASE SlingCheck
      BY <2>1 DEF SlingCheck, Exit
    <2>2. CASE SlingSpawn
      <3> PICK p \in Polecats \ dir : SlingSpawn!(p)
        BY <2>2 DEF SlingSpawn
      <3>1. wpc = "remove" /\ wpole = p => reused'
        BY Zenon
      <3>2. reused => reused'
        BY Zenon
      <3>3. Reports'
        OBVIOUS
      <3>4. Cleared'
        BY <3>1, <3>2
      <3> QED
        BY <3>3, <3>4
    <2>3. CASE SlingNoSpawn
      BY <2>3 DEF SlingNoSpawn, Exit
    <2>4. CASE SlingUnhook
      BY <2>4 DEF SlingUnhook, Unhook
    <2>5. CASE SlingHook
      BY <2>5 DEF SlingHook
    <2>6. CASE SlingVerify
      BY <2>6 DEF SlingVerify
    <2>7. CASE SlingStart
      BY <2>7 DEF SlingStart, Exit
    <2>8. CASE SlingNoStart
      BY <2>8 DEF SlingNoStart
    <2>9. CASE SlingRollback
      BY <2>9 DEF SlingRollback, Exit, Unhook, RemovePolecat
    <2> QED
      BY <1>3, <2>1, <2>2, <2>3, <2>4, <2>5, <2>6, <2>7, <2>8, <2>9 DEF Sling
  <1>4. CASE SlingCrash
    BY <1>4 DEF SlingCrash
  <1>5. ASSUME NEW p \in Polecats, Polecat(p) PROVE Safe'
    <2>1. CASE Claim(p)
      BY <2>1 DEF Claim
    <2>2. CASE Change(p)
      BY <2>2 DEF Change
    <2>3. CASE DoneStart(p)
      BY <2>3 DEF DoneStart
    <2>4. ASSUME NEW completed \in BOOLEAN, NEW mishap \in Mishaps, DoneFinish(p, completed, mishap) PROVE Safe'
      BY <2>4 DEF DoneFinish, RemovePolecat
    <2> QED
      BY <1>5, <2>1, <2>2, <2>3, <2>4 DEF Polecat
  <1>6. ASSUME NEW p \in Polecats, Happen(p) PROVE Safe'
    <2>1. CASE Die(p)
      BY <2>1 DEF Die
    <2>2. CASE Wake(p)
      BY <2>2 DEF Wake
    <2>3. CASE RestartPolecat(p)
      BY <2>3 DEF RestartPolecat
    <2> QED
      BY <1>6, <2>1, <2>2, <2>3 DEF Happen
  <1>7. ASSUME NEW p \in Polecats, Visit(p) PROVE Safe'
    BY <1>7 DEF Visit, Witness, WitnessReads
  <1>8. ASSUME NEW p \in Polecats, HandleShutdown(p) PROVE Safe'
    BY <1>8 DEF HandleShutdown, Witness, MayNuke
  <1>9. ASSUME NEW p \in Polecats, ListOrphan(p) PROVE Safe'
    BY <1>9 DEF ListOrphan, Witness, WitnessReads
  <1>10. CASE WitnessStep
    <2>1. CASE VisitLive
      BY <2>1 DEF VisitLive, Witness, WitnessReads
    <2>2. CASE VisitDeadLeave
      BY <2>2 DEF VisitDeadLeave, Witness, WitnessReads
    <2>3. CASE VisitDead
      BY <2>3 DEF VisitDead, Witness, WitnessReads, MayNuke
    <2>4. CASE NukeKill
      BY <2>4 DEF NukeKill, Witness
    <2>5. CASE NukeCheck
      BY <2>5 DEF NukeCheck, Witness, WitnessReads, AfterNuke
    <2>6. CASE NukeRemove
      BY <2>6 DEF NukeRemove, Witness, RemovePolecat, AfterNuke
    <2>7. CASE CheckOrphan
      BY <2>7 DEF CheckOrphan, Witness, WitnessReads
    <2>8. CASE ResetRead
      BY <2>8 DEF ResetRead, Witness, WitnessReads, Active
    <2>9. CASE ResetWrite
      BY <2>9 DEF ResetWrite, Witness, Unhook
    <2> QED
      BY <1>10, <2>1, <2>2, <2>3, <2>4, <2>5, <2>6, <2>7, <2>8, <2>9 DEF WitnessStep
  <1>11. CASE Redispatching
    <2>1. CASE RedispatchSkip
      BY <2>1 DEF RedispatchSkip
    <2>2. CASE RedispatchEscalate
      BY <2>2 DEF RedispatchEscalate
    <2>3. CASE Redispatch
      BY <2>3 DEF Redispatch
    <2>4. CASE RecordAttempt
      BY <2>4 DEF RecordAttempt
    <2> QED
      BY <1>11, <2>1, <2>2, <2>3, <2>4 DEF Redispatching
  <1>12. CASE UNCHANGED vars
    BY <1>12 DEF vars
  <1> QED
    BY <1>1, <1>2, <1>3, <1>4, <1>5, <1>6, <1>7, <1>8, <1>9, <1>10, <1>11, <1>12 DEF Next

\* NukePolecat never removes a worktree with work that is on no remote, unless the polecat
\* it checked is gone and its name was given out again between check and removal, or its
\* clean report was wrong or left the hook behind.
THEOREM WorkIsSafe == Spec => WorkSurvives
  <1>1. Safe => (wpc = "remove" /\ wpc' # "remove" => wpole \notin unsaved \/ reused \/ wpole \in misreport)
    BY DEF Safe, Cleared
  <1> QED
    BY <1>1, InitTyping, NextTyping, InitSafe, NextSafe, PTL DEF Spec, WorkSurvives
=============================================================================
