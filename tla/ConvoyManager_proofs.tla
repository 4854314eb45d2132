----------------------- MODULE ConvoyManager_proofs -----------------------
(***************************************************************************)
(* Proofs about ConvoyManager, for any issues, convoys, rigs and bounds:   *)
(* types, and that the event poll loses no completion.                     *)
(***************************************************************************)
EXTENDS ConvoyManager, TLAPS

\* The typing layer: the types, that an idle event poll has nothing left to do,
\* that a goroutine at a convoy or an issue has one, and that a convoy under
\* gt convoy add is on record.
Places ==
    /\ pc["poll"] = "idle" => batch = {} /\ todo["poll"] = {}
    /\ \A g \in Loops : pc[g] \in {"check", "close", "feed"} => conv[g] \in Convoys
    /\ \A g \in Loops : pc[g] \in {"info", "force", "hook", "undo"} => job[g] \in Issues
    /\ adding # None => adding[1] \in missed
Typing == TypeOK /\ Places

LEMMA InitTyping == Init => Typing
  <1> SUFFICES ASSUME Init PROVE Typing
    OBVIOUS
  <1> USE IssueAssumption, BoundAssumption DEF Init
  <1>1. /\ pc \in [Loops -> {"idle", "loop", "check", "close", "feed", "info", "force", "hook", "undo"}]
        /\ todo \in [Loops -> SUBSET Convoys] /\ ready \in [Convoys -> SUBSET Issues]
        /\ conv \in [Loops -> Convoys \cup {None}] /\ job \in [Loops -> Issues \cup {None}]
    OBVIOUS
  <1>2. seeded \in BOOLEAN
    OBVIOUS
  <1>3. TypeOK
    BY <1>1, <1>2 DEF TypeOK
  <1>4. Places
    BY DEF Places, Loops
  <1> QED
    BY <1>3, <1>4 DEF Typing

LEMMA NextTyping == Typing /\ [Next]_vars => Typing'
  <1> SUFFICES ASSUME Typing, [Next]_vars PROVE Typing'
    OBVIOUS
  <1> USE IssueAssumption, BoundAssumption
  <1> USE DEF Typing, TypeOK, Places, Assigned, issueVars, beadVars, loopVars, bounds, Fault, Loops
  <1>1. CASE Environment
    <2>1. ASSUME NEW i \in Issues, CloseIssue(i) PROVE Typing'
      BY <2>1 DEF CloseIssue
    <2>2. ASSUME NEW i \in Issues, StartWork(i) PROVE Typing'
      BY <2>2 DEF StartWork, Live
    <2>3. ASSUME NEW i \in Issues, WorkerDies(i) PROVE Typing'
      BY <2>3 DEF WorkerDies, Live
    <2>4. ASSUME NEW r \in Rigs, ParkRig(r) PROVE Typing'
      BY <2>4 DEF ParkRig
    <2>5. ASSUME NEW r \in Rigs, UnparkRig(r) PROVE Typing'
      BY <2>5 DEF UnparkRig
    <2>6. ASSUME NEW c \in Convoys, NEW i \in Issues, ConvoyAdd(c, i) PROVE Typing'
      BY <2>6 DEF ConvoyAdd
    <2>7. CASE ConvoyAddTracks
      BY <2>7 DEF ConvoyAddTracks
    <2>8. ASSUME NEW c \in Convoys, ConvoyClose(c) PROVE Typing'
      BY <2>8 DEF ConvoyClose
    <2> QED
      BY <1>1, <2>1, <2>2, <2>3, <2>4, <2>5, <2>6, <2>7, <2>8 DEF Environment
  <1>2. ASSUME NEW g \in Loops, Check(g) \/ Sling(g) PROVE Typing'
    <2>1. CASE CheckConvoy(g)
      BY <2>1 DEF CheckConvoy, AfterCheck
    <2>2. CASE CloseConvoy(g)
      BY <2>2 DEF CloseConvoy, AfterCheck
    <2>3. CASE SlingInfo(g)
      BY <2>3 DEF SlingInfo
    <2>4. CASE SlingForce(g)
      BY <2>4 DEF SlingForce
    <2>5. CASE SlingHook(g)
      BY <2>5 DEF SlingHook
    <2>6. CASE SlingFails(g)
      BY <2>6 DEF SlingFails
    <2>7. CASE RollbackSlingArtifacts(g)
      BY <2>7 DEF RollbackSlingArtifacts
    <2> QED
      BY <1>2, <2>1, <2>2, <2>3, <2>4, <2>5, <2>6, <2>7 DEF Check, Sling
  <1>3. CASE Poll
    <2>1. CASE WarmUp
      BY <2>1 DEF WarmUp
    <2>2. ASSUME NEW r \in Rigs, PollStore(r) PROVE Typing'
      BY <2>2 DEF PollStore
    <2>3. ASSUME NEW r \in Rigs, PollStoreNoHq(r) PROVE Typing'
      BY <2>3 DEF PollStoreNoHq
    <2>4. ASSUME NEW i \in Issues, NextEvent(i) PROVE Typing'
      BY <2>4 DEF NextEvent
    <2>5. ASSUME NEW c \in Convoys, NextTracking(c) PROVE Typing'
      BY <2>5 DEF NextTracking
    <2>6. CASE PollDone
      BY <2>6 DEF PollDone, EndCycle
    <2>7. CASE FeedNextReadyIssue
      BY <2>7 DEF FeedNextReadyIssue, Feedable
    <2> QED
      BY <1>2, <1>3, <2>1, <2>2, <2>3, <2>4, <2>5, <2>6, <2>7 DEF Poll
  <1>4. CASE Scan
    <2>1. CASE FindStranded
      BY <2>1 DEF FindStranded
    <2>2. ASSUME NEW c \in Convoys, FeedFirstReady(c) PROVE Typing'
      BY <2>2 DEF FeedFirstReady
    <2>3. ASSUME NEW c \in Convoys, CloseEmptyConvoy(c) PROVE Typing'
      BY <2>3 DEF CloseEmptyConvoy
    <2>4. CASE ScanDone
      BY <2>4 DEF ScanDone, EndCycle
    <2> QED
      BY <1>2, <1>4, <2>1, <2>2, <2>3, <2>4 DEF Scan
  <1>5. CASE Restart
    <2>1. /\ pc' \in [Loops -> {"idle", "loop", "check", "close", "feed", "info", "force", "hook", "undo"}]
          /\ todo' \in [Loops -> SUBSET Convoys] /\ ready' \in [Convoys -> SUBSET Issues]
          /\ conv' \in [Loops -> Convoys \cup {None}] /\ job' \in [Loops -> Issues \cup {None}]
      BY <1>5 DEF Restart
    <2>2. seeded' \in BOOLEAN
      BY <1>5 DEF Restart
    <2>3. TypeOK'
      BY <1>5, <2>1, <2>2 DEF Restart
    <2>4. Places'
      BY <1>5 DEF Restart
    <2> QED
      BY <2>3, <2>4
  <1>6. CASE UNCHANGED vars
    BY <1>6 DEF vars
  <1> QED
    BY <1>1, <1>3, <1>4, <1>5, <1>6 DEF Next

-----------------------------------------------------------------------------
LEMMA InitCompletion == Init => NoLostCompletion
  BY DEF Init, NoLostCompletion

LEMMA NextCompletion == Typing /\ NoLostCompletion /\ [Next]_vars => NoLostCompletion'
  <1> SUFFICES ASSUME Typing, NoLostCompletion, [Next]_vars PROVE NoLostCompletion'
    OBVIOUS
  <1> USE DEF Typing, TypeOK, Places, issueVars, beadVars, loopVars, bounds, Fault, Loops,
          NoLostCompletion, Complete, CheckPending, AllClosed
  <1>1. CASE Environment
    <2>1. ASSUME NEW i \in Issues, CloseIssue(i) PROVE NoLostCompletion'
      BY <2>1 DEF CloseIssue
    <2>2. ASSUME NEW i \in Issues, StartWork(i) PROVE NoLostCompletion'
      BY <2>2 DEF StartWork, Live
    <2>3. ASSUME NEW i \in Issues, WorkerDies(i) PROVE NoLostCompletion'
      BY <2>3 DEF WorkerDies, Live
    <2>4. ASSUME NEW r \in Rigs, ParkRig(r) PROVE NoLostCompletion'
      BY <2>4 DEF ParkRig
    <2>5. ASSUME NEW r \in Rigs, UnparkRig(r) PROVE NoLostCompletion'
      BY <2>5 DEF UnparkRig
    <2>6. ASSUME NEW c \in Convoys, NEW i \in Issues, ConvoyAdd(c, i) PROVE NoLostCompletion'
      BY <2>6 DEF ConvoyAdd
    <2>7. CASE ConvoyAddTracks
      BY <2>7 DEF ConvoyAddTracks
    <2>8. ASSUME NEW c \in Convoys, ConvoyClose(c) PROVE NoLostCompletion'
      BY <2>8 DEF ConvoyClose
    <2> QED
      BY <1>1, <2>1, <2>2, <2>3, <2>4, <2>5, <2>6, <2>7, <2>8 DEF Environment
  <1>2. ASSUME NEW g \in Loops, Check(g) \/ Sling(g) PROVE NoLostCompletion'
    <2>1. CASE CheckConvoy(g)
      BY <2>1 DEF CheckConvoy, AfterCheck
    <2>2. CASE CloseConvoy(g)
      BY <2>2 DEF CloseConvoy, AfterCheck
    <2>3. CASE SlingInfo(g)
      BY <2>3 DEF SlingInfo
    <2>4. CASE SlingForce(g)
      BY <2>4 DEF SlingForce
    <2>5. CASE SlingHook(g)
      BY <2>5 DEF SlingHook
    <2>6. CASE SlingFails(g)
      BY <2>6 DEF SlingFails
    <2>7. CASE RollbackSlingArtifacts(g)
      BY <2>7 DEF RollbackSlingArtifacts
    <2> QED
      BY <1>2, <2>1, <2>2, <2>3, <2>4, <2>5, <2>6, <2>7 DEF Check, Sling
  <1>3. CASE Poll
    <2>1. CASE WarmUp
      BY <2>1 DEF WarmUp
    <2>2. ASSUME NEW r \in Rigs, PollStore(r) PROVE NoLostCompletion'
      BY <2>2 DEF PollStore
    <2>3. ASSUME NEW r \in Rigs, PollStoreNoHq(r) PROVE NoLostCompletion'
      BY <2>3 DEF PollStoreNoHq
    <2>4. ASSUME NEW i \in Issues, NextEvent(i) PROVE NoLostCompletion'
      BY <2>4 DEF NextEvent
    <2>5. ASSUME NEW c \in Convoys, NextTracking(c) PROVE NoLostCompletion'
      BY <2>5 DEF NextTracking
    <2>6. CASE PollDone
      BY <2>6 DEF PollDone, EndCycle
    <2>7. CASE FeedNextReadyIssue
      BY <2>7 DEF FeedNextReadyIssue, Feedable
    <2> QED
      BY <1>2, <1>3, <2>1, <2>2, <2>3, <2>4, <2>5, <2>6, <2>7 DEF Poll
  <1>4. CASE Scan
    <2>1. CASE FindStranded
      BY <2>1 DEF FindStranded
    <2>2. ASSUME NEW c \in Convoys, FeedFirstReady(c) PROVE NoLostCompletion'
      BY <2>2 DEF FeedFirstReady
    <2>3. ASSUME NEW c \in Convoys, CloseEmptyConvoy(c) PROVE NoLostCompletion'
      BY <2>3 DEF CloseEmptyConvoy
    <2>4. CASE ScanDone
      BY <2>4 DEF ScanDone, EndCycle
    <2> QED
      BY <1>2, <1>4, <2>1, <2>2, <2>3, <2>4 DEF Scan
  <1>5. CASE Restart
    BY <1>5 DEF Restart
  <1>6. CASE UNCHANGED vars
    BY <1>6 DEF vars
  <1> QED
    BY <1>1, <1>3, <1>4, <1>5, <1>6 DEF Next

-----------------------------------------------------------------------------
LEMMA Invariance == Spec => [](Typing /\ NoLostCompletion)
  <1>1. Init => Typing /\ NoLostCompletion
    BY InitTyping, InitCompletion
  <1>2. Typing /\ NoLostCompletion /\ [Next]_vars => (Typing /\ NoLostCompletion)'
    BY NextTyping, NextCompletion
  <1> QED
    BY <1>1, <1>2, PTL DEF Spec

\* Every variable of the convoy manager keeps its type; in particular only hooked
\* and in_progress issues are on record with a dead worker.
THEOREM TypeCorrect == Spec => []TypeOK
  BY Invariance, PTL DEF Typing

\* However the two goroutines, workers, parked rigs, forced closes and restarts
\* interleave, a convoy whose last issue was closed after the warm-up cycle has a
\* completion check to come until it is closed, as long as no call fails.
THEOREM NoCompletionLost == Spec => []NoLostCompletion
  BY Invariance, PTL
=============================================================================
