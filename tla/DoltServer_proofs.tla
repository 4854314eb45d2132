------------------------- MODULE DoltServer_proofs -------------------------
(***************************************************************************)
(* Proofs about DoltServer, for any callers, process ids, delays, windows  *)
(* and bounds: types, the cap on restarts, and that the running server is  *)
(* not lost.                                                               *)
(***************************************************************************)
EXTENDS DoltServer, FiniteSetTheorems, SequenceTheorems, WellFoundedInduction, TLAPS

-----------------------------------------------------------------------------
(***************************************************************************)
(* pruneRestartTimes                                                       *)
(***************************************************************************)
\* A set of numbers that is not empty has a least element.
LEMMA LeastExists ==
  ASSUME NEW S, S \subseteq Nat, S # {}
  PROVE  \E x \in S : \A y \in S : x <= y
  <1>1. PICK x \in S : \A y \in S : ~(<<y, x>> \in OpToRel(<, Nat))
    BY WFMin, NatLessThanWellFounded, Zenon
  <1>2. \A y \in S : ~(y < x)
    BY <1>1 DEF OpToRel
  <1> QED
    BY <1>2

\* A set of indices is finite and has at most as many members as there are indices.
LEMMA SubsetOfInterval ==
  ASSUME NEW n \in Nat, NEW K \in SUBSET (1..n)
  PROVE  IsFiniteSet(K) /\ Cardinality(K) \in Nat /\ Cardinality(K) <= n
  <1>1. IsFiniteSet(1..n) /\ Cardinality(1..n) = n
    BY FS_Interval
  <1>2. IsFiniteSet(K) /\ Cardinality(K) <= Cardinality(1..n)
    BY <1>1, FS_Subset
  <1> QED
    BY <1>1, <1>2, FS_CardinalityType

\* A function on 1..n is a sequence of length n.
LEMMA FunctionIsSeq ==
  ASSUME NEW S, NEW n \in Nat, NEW f \in [1..n -> S]
  PROVE  f \in Seq(S) /\ Len(f) = n
  OBVIOUS

\* Every rank up to the number of its members is the rank of a member of a set of
\* indices: that of the least index with so many members up to it.
LEMMA RankExists ==
  ASSUME NEW n \in Nat, NEW K \in SUBSET (1..n), NEW j \in 1..Cardinality(K)
  PROVE  \E i \in K : Cardinality(K \cap 1..i) = j
  <1> DEFINE c(i) == Cardinality(K \cap 1..i)
             Q == {i \in 1..n : c(i) >= j}
  <1>1. IsFiniteSet(K) /\ Cardinality(K) \in Nat /\ Cardinality(K) <= n
    BY SubsetOfInterval
  <1>2. \A i \in Int : IsFiniteSet(K \cap 1..i) /\ c(i) \in Nat
    BY <1>1, FS_Subset, FS_CardinalityType
  <1>3. n \in Q
    <2>1. K \cap 1..n = K
      OBVIOUS
    <2>2. n \in 1..n /\ j \in Nat /\ j <= Cardinality(K)
      BY <1>1
    <2> QED
      BY <1>1, <2>1, <2>2
  <1>4. PICK i \in Q : \A k \in Q : i <= k
    <2> HIDE DEF Q
    <2>1. Q \subseteq Nat
      BY DEF Q
    <2> QED
      BY <1>3, <2>1, LeastExists
  <1>5. i \in 1..n /\ i - 1 \in Nat /\ j \in Nat \ {0} /\ c(i) >= j
    BY <1>1, <1>4
  <1>6. c(i - 1) < j
    <2>1. CASE i = 1
      <3>1. K \cap 1..(i - 1) = {}
        BY <2>1
      <3> QED
        BY <1>5, <3>1, FS_EmptySet
    <2>2. CASE i # 1
      <3>1. i - 1 \in 1..n /\ i - 1 \notin Q
        BY <1>4, <1>5, <2>2
      <3>2. c(i - 1) \in Nat
        <4>1. i - 1 \in Int
          BY <1>5
        <4> QED
          BY <1>2, <4>1
      <3> QED
        BY <1>5, <3>1, <3>2
    <2> QED
      BY <2>1, <2>2
  <1>7. i \in K
    <2>1. ASSUME i \notin K PROVE K \cap 1..i = K \cap 1..(i - 1)
      BY <1>5, <2>1
    <2>2. c(i) \in Nat /\ c(i - 1) \in Nat
      BY <1>2, <1>5
    <2>3. c(i) # c(i - 1)
      BY <1>5, <1>6, <2>2
    <2> QED
      BY <2>1, <2>3
  <1>8. c(i) = c(i - 1) + 1
    <2>1. K \cap 1..i = (K \cap 1..(i - 1)) \cup {i}
      BY <1>5, <1>7
    <2>2. i \notin K \cap 1..(i - 1) /\ IsFiniteSet(K \cap 1..(i - 1))
      BY <1>2, <1>5
    <2>3. Cardinality((K \cap 1..(i - 1)) \cup {i}) = Cardinality(K \cap 1..(i - 1)) + 1
      BY <2>2, FS_AddElement
    <2> QED
      BY <2>1, <2>3
  <1>9. c(i) = j
    <2>1. c(i) \in Nat /\ c(i - 1) \in Nat
      BY <1>2, <1>5
    <2> HIDE DEF c
    <2> QED
      BY <1>5, <1>6, <1>8, <2>1
  <1> QED
    BY <1>7, <1>9

\* pruneRestartTimes returns restart times, and no more than it is given.
LEMMA PruneProperties ==
  ASSUME NEW s \in Seq(0..Window)
  PROVE  Prune(s) \in Seq(0..Window) /\ Len(Prune(s)) <= Len(s)
  <1> DEFINE kept   == {i \in DOMAIN s : s[i] < Window}
             Nth(j) == CHOOSE i \in kept : Cardinality(kept \cap 1..i) = j
  <1>1. Len(s) \in Nat /\ DOMAIN s = 1..Len(s) /\ \A i \in 1..Len(s) : s[i] \in 0..Window
    BY LenProperties, ElementOfSeq, Zenon
  <1>2. kept \in SUBSET (1..Len(s))
    BY <1>1
  <1>3. Cardinality(kept) \in Nat /\ Cardinality(kept) <= Len(s)
    <2> HIDE DEF kept
    <2> QED
      BY <1>1, <1>2, SubsetOfInterval
  <1>4. \A j \in 1..Cardinality(kept) : Nth(j) \in kept
    <2> HIDE DEF kept
    <2> QED
      BY <1>1, <1>2, RankExists
  <1>5. \A j \in 1..Cardinality(kept) : s[Nth(j)] \in 0..Window
    <2> HIDE DEF Nth, kept
    <2> QED
      BY <1>1, <1>2, <1>4
  <1>6. Prune(s) = [j \in 1..Cardinality(kept) |-> s[Nth(j)]]
    BY DEF Prune
  <1> HIDE DEF kept, Nth
  <1>7. Prune(s) \in [1..Cardinality(kept) -> 0..Window]
    BY <1>5, <1>6
  <1>8. Prune(s) \in Seq(0..Window) /\ Len(Prune(s)) = Cardinality(kept)
    BY <1>3, <1>7, FunctionIsSeq, Zenon
  <1> QED
    BY <1>3, <1>8

-----------------------------------------------------------------------------
(***************************************************************************)
(* Types                                                                   *)
(***************************************************************************)
\* Time makes every restart time older, and forgets none.
LEMMA AgedProperties ==
  ASSUME NEW s \in Seq(0..Window)
  PROVE  LET aged == [i \in DOMAIN s |-> IF s[i] < Window THEN s[i] + 1 ELSE Window]
         IN  aged \in Seq(0..Window) /\ Len(aged) = Len(s)
  <1> DEFINE aged == [i \in DOMAIN s |-> IF s[i] < Window THEN s[i] + 1 ELSE Window]
  <1>1. Len(s) \in Nat /\ DOMAIN s = 1..Len(s) /\ \A i \in 1..Len(s) : s[i] \in 0..Window
    BY LenProperties, ElementOfSeq, Zenon
  <1>2. \A a \in 0..Window : (IF a < Window THEN a + 1 ELSE Window) \in 0..Window
    BY ConfigAssumption
  <1>3. \A i \in 1..Len(s) : (IF s[i] < Window THEN s[i] + 1 ELSE Window) \in 0..Window
    BY <1>1, <1>2
  <1>4. aged \in [1..Len(s) -> 0..Window]
    BY <1>1, <1>3, Zenon
  <1> QED
    BY <1>1, <1>4, FunctionIsSeq, Zenon

\* A restart adds one restart time.
LEMMA AppendIsSeq ==
  ASSUME NEW S, NEW s \in Seq(S), NEW e \in S
  PROVE  Append(s, e) \in Seq(S) /\ Len(Append(s, e)) = Len(s) + 1
  OBVIOUS

\* A new process id is an id that nobody refers to.
LEMMA NewPidProperties == FreePids # {} => NewPid \in Pids \ (procs \cup {pidfile, process, gpid})
  BY DEF FreePids, NewPid

\* What isRunning finds runs, and it is what is tracked.
LEMMA FoundProperties ==
  ASSUME TypeOK
  PROVE  /\ Found \in procs \cup {None} /\ Found \in Pids \cup {None}
         /\ Found # None => Found \in procs /\ Found \in {process, pidfile}
         /\ Found = None => process \notin procs /\ pidfile \notin procs
  BY NoneAssumption DEF Found, TypeOK

LEMMA GtFoundProperties ==
  ASSUME TypeOK
  PROVE  /\ GtFound \in procs \cup {None} /\ GtFound \in Pids \cup {None}
         /\ GtFound = None => pidfile \notin procs /\ port = None
  BY NoneAssumption DEF GtFound, TypeOK

\* A killed process leaves the others as they are.
LEMMA KilledType ==
  ASSUME TypeOK, NEW p, Killed(p)
  PROVE  /\ procs' \subseteq Pids /\ sick' \subseteq procs' /\ port' \in procs' \cup {None}
         /\ procs' \subseteq procs /\ p \notin procs'
  BY DEF TypeOK, Killed

LEMMA InitType == Init => TypeOK
  <1> SUFFICES ASSUME Init PROVE TypeOK
    OBVIOUS
  <1> USE ConfigAssumption DEF Init
  <1>1. /\ restarting \in BOOLEAN /\ escalated \in BOOLEAN
        /\ gstop \in BOOLEAN /\ raced \in BOOLEAN
    BY Zenon
  <1>2. times \in Seq(0..Window)
    BY EmptySeq, Zenon
  <1>3. pc \in [Callers -> Pcs] /\ wait \in [Callers -> 0..MaxDelay]
    BY DEF Pcs
  <1> QED
    BY <1>1, <1>2, <1>3 DEF TypeOK

\* The parts of TypeOK that the actions of a group change.
ServerType == procs \subseteq Pids /\ sick \subseteq procs /\ port \in procs \cup {None}
NameType == {pidfile, process, gpid} \subseteq Pids \cup {None}
StepType ==
    /\ mu \in Callers \cup {None} /\ pc \in [Callers -> Pcs]
    /\ gpc \in {"idle", "unlink", "spawn", "write", "verify"}
FlagType ==
    /\ restarting \in BOOLEAN /\ escalated \in BOOLEAN
    /\ gstop \in BOOLEAN /\ raced \in BOOLEAN
TimeType ==
    /\ times \in Seq(0..Window) /\ delay \in 0..MaxDelay /\ healthy \in 0..HealthyReset \cup {None}
    /\ wait \in [Callers -> 0..MaxDelay]
CountType == faults \in 0..MaxFaults /\ commands \in 0..MaxCommands

LEMMA TypeParts ==
  TypeOK <=> ServerType /\ NameType /\ StepType /\ FlagType /\ TimeType /\ CountType
  BY DEF TypeOK, ServerType, NameType, StepType, FlagType, TimeType, CountType

\* restartWithBackoff
LEMMA RestartType ==
  ASSUME TypeOK, NEW c \in Callers, NEW from, RestartWithBackoff(c, from)
  PROVE  /\ mu' = None /\ TimeType' /\ restarting' \in BOOLEAN /\ escalated' \in BOOLEAN
         /\ pc' \in [Callers -> Pcs]
  <1>1. times' \in Seq(0..Window)
    BY PruneProperties DEF TypeOK, RestartWithBackoff
  <1>2. restarting' \in BOOLEAN /\ escalated' \in BOOLEAN
    BY Zenon DEF TypeOK, RestartWithBackoff
  <1>3. wait' \in [Callers -> 0..MaxDelay]
    BY ConfigAssumption DEF TypeOK, RestartWithBackoff
  <1>4. delay' = delay /\ healthy' = healthy /\ mu' = None
    BY DEF RestartWithBackoff
  <1>5. pc' \in [Callers -> Pcs]
    BY DEF TypeOK, RestartWithBackoff, Goto, Pcs
  <1>6. delay' \in 0..MaxDelay /\ healthy' \in 0..HealthyReset \cup {None}
    BY <1>4 DEF TypeOK
  <1> QED
    BY <1>1, <1>2, <1>3, <1>4, <1>5, <1>6 DEF TimeType

\* The end of a restart.
LEMMA RestartedType ==
  ASSUME TypeOK, NEW c \in Callers, NEW from, Restarted(c, from)
  PROVE  mu' = None /\ restarting' \in BOOLEAN /\ pc' \in [Callers -> Pcs]
  BY DEF TypeOK, Restarted, Goto, Pcs

LEMMA NextType == TypeOK /\ [Next]_vars => TypeOK'
  <1> SUFFICES ASSUME TypeOK, [Next]_vars PROVE TypeOK'
    OBVIOUS
  <1> USE ConfigAssumption, NoneAssumption DEF serverVars, backoffVars, gtVars, countVars
  <1>0. /\ ServerType /\ NameType /\ StepType /\ FlagType /\ TimeType /\ CountType
    BY TypeParts
  <1>a. ServerType' /\ NameType' /\ StepType' /\ FlagType' /\ TimeType' /\ CountType' => TypeOK'
    BY DEF TypeOK, ServerType, NameType, StepType, FlagType, TimeType, CountType
  <1>1. ASSUME NEW c \in Callers, Manage(c) \/ StartFails(c) \/ WriteFails(c) PROVE TypeOK'
    <2>1. CASE EnsureRunning(c)
      <3>1. NameType'
        BY <1>0, <2>1, FoundProperties DEF NameType, EnsureRunning, IsRunning
      <3>2. StepType'
        BY <1>0, <2>1, RestartType DEF StepType, EnsureRunning, Goto, Pcs
      <3>3. FlagType'
        BY <1>0, <2>1, RestartType, Zenon DEF FlagType, EnsureRunning
      <3>4. TimeType'
        BY <1>0, <2>1, RestartType DEF TimeType, EnsureRunning
      <3>5. ServerType' /\ CountType'
        BY <1>0, <2>1 DEF ServerType, CountType, EnsureRunning
      <3> QED
        BY <3>1, <3>2, <3>3, <3>4, <3>5, <1>a
    <2>2. CASE CheckHealth(c)
      <3>1. StepType'
        BY <1>0, <2>2 DEF StepType, CheckHealth, Goto, Pcs
      <3>2. FlagType'
        BY <1>0, <2>2, Zenon DEF FlagType, CheckHealth, MaybeResetBackoff
      <3>3. TimeType'
        <4>1. times' \in Seq(0..Window)
          BY <1>0, <2>2, EmptySeq, Zenon DEF TimeType, CheckHealth, MaybeResetBackoff, backoffVars
        <4>2. delay' \in 0..MaxDelay /\ healthy' \in 0..HealthyReset \cup {None}
          BY <1>0, <2>2 DEF TimeType, CheckHealth, MaybeResetBackoff, backoffVars
        <4> QED
          BY <1>0, <2>2, <4>1, <4>2 DEF TimeType, CheckHealth
      <3>4. ServerType' /\ NameType' /\ CountType'
        BY <1>0, <2>2 DEF ServerType, NameType, CountType, CheckHealth
      <3> QED
        BY <3>1, <3>2, <3>3, <3>4, <1>a
    <2>3. CASE StopLocked(c)
      <3>1. ServerType'
        BY <1>0, <2>3, KilledType DEF ServerType, StopLocked
      <3>2. NameType'
        BY <1>0, <2>3, FoundProperties DEF NameType, StopLocked, IsRunning
      <3>3. StepType'
        BY <1>0, <2>3, RestartType DEF StepType, StopLocked, Goto, Pcs
      <3>4. FlagType'
        BY <1>0, <2>3, RestartType, Zenon DEF FlagType, StopLocked
      <3>5. TimeType'
        BY <1>0, <2>3, RestartType DEF TimeType, StopLocked
      <3>6. CountType'
        BY <1>0, <2>3 DEF CountType, StopLocked
      <3> QED
        BY <3>1, <3>2, <3>3, <3>4, <3>5, <3>6, <1>a
    <2>4. CASE Wake(c)
      <3>1. NameType'
        BY <1>0, <2>4, FoundProperties DEF NameType, Wake, IsRunning
      <3>2. StepType'
        BY <1>0, <2>4 DEF StepType, Wake, Goto, Pcs
      <3>3. FlagType'
        BY <1>0, <2>4, Zenon DEF FlagType, Wake
      <3>4. TimeType'
        <4>1. times' \in Seq(0..Window)
          <5>1. 0 \in 0..Window
            OBVIOUS
          <5>2. times' = times \/ times' = Append(times, 0)
            BY <2>4 DEF Wake, backoffVars
          <5>3. times \in Seq(0..Window)
            BY <1>0 DEF TimeType
          <5> QED
            BY <5>1, <5>2, <5>3, AppendIsSeq, Zenon
        <4>2. delay' \in 0..MaxDelay /\ healthy' \in 0..HealthyReset \cup {None}
          BY <1>0, <2>4 DEF TimeType, Wake, AdvanceBackoff, backoffVars
        <4> QED
          BY <1>0, <2>4, <4>1, <4>2 DEF TimeType, Wake
      <3>5. ServerType' /\ CountType'
        BY <1>0, <2>4 DEF ServerType, CountType, Wake
      <3> QED
        BY <3>1, <3>2, <3>3, <3>4, <3>5, <1>a
    <2>5. CASE StartLocked(c)
      <3>1. ServerType'
        BY <1>0, <2>5, NewPidProperties DEF ServerType, StartLocked, Spawned
      <3>2. NameType'
        BY <1>0, <2>5, NewPidProperties, FoundProperties DEF NameType, StartLocked, Spawned,
           IsRunning
      <3>3. StepType'
        BY <1>0, <2>5, RestartedType DEF StepType, StartLocked, Goto, Pcs
      <3>4. FlagType'
        BY <1>0, <2>5, RestartedType, Zenon DEF FlagType, StartLocked
      <3>5. TimeType' /\ CountType'
        BY <1>0, <2>5 DEF TimeType, CountType, StartLocked
      <3> QED
        BY <3>1, <3>2, <3>3, <3>4, <3>5, <1>a
    <2>6. CASE WritePidFile(c)
      <3>1. NameType'
        BY <1>0, <2>6 DEF NameType, WritePidFile
      <3>2. StepType'
        BY <1>0, <2>6, RestartedType DEF StepType, WritePidFile
      <3>3. FlagType'
        BY <1>0, <2>6, RestartedType, Zenon DEF FlagType, WritePidFile
      <3>4. ServerType' /\ TimeType' /\ CountType'
        BY <1>0, <2>6 DEF ServerType, TimeType, CountType, WritePidFile
      <3> QED
        BY <3>1, <3>2, <3>3, <3>4, <1>a
    <2>7. CASE StartFails(c)
      <3>1. NameType'
        BY <1>0, <2>7, FoundProperties DEF NameType, StartFails, IsRunning
      <3>2. StepType'
        BY <1>0, <2>7, RestartedType DEF StepType, StartFails
      <3>3. FlagType'
        BY <1>0, <2>7, RestartedType, Zenon DEF FlagType, StartFails
      <3>4. CountType'
        BY <1>0, <2>7 DEF CountType, StartFails
      <3>5. ServerType' /\ TimeType'
        BY <1>0, <2>7 DEF ServerType, TimeType, StartFails
      <3> QED
        BY <3>1, <3>2, <3>3, <3>4, <3>5, <1>a
    <2>8. CASE StopCleanUp(c)
      <3>1. NameType'
        BY <1>0, <2>8 DEF NameType, StopCleanUp, RemovePidFile
      <3>2. StepType'
        BY <1>0, <2>8, RestartType DEF StepType, StopCleanUp
      <3>3. FlagType'
        BY <1>0, <2>8, RestartType, Zenon DEF FlagType, StopCleanUp, RemovePidFile
      <3>4. TimeType'
        BY <1>0, <2>8, RestartType DEF StopCleanUp
      <3>5. ServerType' /\ CountType'
        BY <1>0, <2>8 DEF ServerType, CountType, StopCleanUp
      <3> QED
        BY <3>1, <3>2, <3>3, <3>4, <3>5, <1>a
    <2>9. CASE WriteFails(c)
      <3>1. StepType'
        BY <1>0, <2>9, RestartedType DEF StepType, WriteFails
      <3>2. FlagType'
        BY <1>0, <2>9, RestartedType, Zenon DEF FlagType, WriteFails
      <3>3. CountType'
        BY <1>0, <2>9 DEF CountType, WriteFails
      <3>4. ServerType' /\ NameType' /\ TimeType'
        BY <1>0, <2>9 DEF ServerType, NameType, TimeType, WriteFails
      <3> QED
        BY <3>1, <3>2, <3>3, <3>4, <1>a
    <2> QED
      BY <1>1, <2>1, <2>2, <2>3, <2>4, <2>5, <2>6, <2>7, <2>8, <2>9 DEF Manage
  <1>2. CASE DaemonRestart
    <2>1. NameType'
      BY <1>0, <1>2 DEF NameType, DaemonRestart
    <2>2. StepType'
      BY <1>0, <1>2 DEF StepType, DaemonRestart, Pcs
    <2>3. FlagType'
      BY <1>0, <1>2, Zenon DEF FlagType, DaemonRestart
    <2>4. TimeType'
      <3>1. times' \in Seq(0..Window)
        BY <1>2, EmptySeq, Zenon DEF DaemonRestart
      <3> QED
        BY <1>2, <3>1 DEF TimeType, DaemonRestart
    <2>5. CountType'
      BY <1>0, <1>2 DEF CountType, DaemonRestart
    <2>6. ServerType'
      BY <1>0, <1>2 DEF ServerType, DaemonRestart
    <2> QED
      BY <2>1, <2>2, <2>3, <2>4, <2>5, <2>6, <1>a
  <1>3. CASE Tick
    <2>1. FlagType'
      BY <1>0, <1>3, Zenon DEF FlagType, Tick
    <2>2. TimeType'
      <3>1. times' \in Seq(0..Window)
        BY <1>0, <1>3, AgedProperties, Zenon DEF Tick, TimeType
      <3>2. wait' \in [Callers -> 0..MaxDelay]
        BY <1>0, <1>3 DEF TimeType, Tick
      <3>3. delay' \in 0..MaxDelay /\ healthy' \in 0..HealthyReset \cup {None}
        BY <1>0, <1>3 DEF TimeType, Tick
      <3> QED
        BY <3>1, <3>2, <3>3 DEF TimeType
    <2>3. ServerType' /\ NameType' /\ StepType' /\ CountType'
      BY <1>0, <1>3 DEF ServerType, NameType, StepType, CountType, Tick
    <2> QED
      BY <2>1, <2>2, <2>3, <1>a
  <1>4. CASE GtCheck
    <2>1. NameType'
      BY <1>0, <1>4, GtFoundProperties DEF NameType, GtCheck
    <2>2. StepType'
      BY <1>0, <1>4 DEF StepType, GtCheck
    <2>3. CountType'
      BY <1>0, <1>4 DEF CountType, GtCheck
    <2>4. ServerType' /\ FlagType' /\ TimeType'
      BY <1>0, <1>4 DEF ServerType, FlagType, TimeType, GtCheck
    <2> QED
      BY <2>1, <2>2, <2>3, <2>4, <1>a
  <1>5. CASE GtSpawn
    <2>1. ServerType'
      BY <1>0, <1>5, NewPidProperties DEF ServerType, GtSpawn, Spawned
    <2>2. NameType'
      BY <1>0, <1>5, NewPidProperties DEF NameType, GtSpawn, Spawned
    <2>3. StepType'
      BY <1>0, <1>5 DEF StepType, GtSpawn
    <2>4. FlagType'
      BY <1>0, <1>5, Zenon DEF FlagType, GtSpawn
    <2>5. TimeType' /\ CountType'
      BY <1>0, <1>5 DEF TimeType, CountType, GtSpawn
    <2> QED
      BY <2>1, <2>2, <2>3, <2>4, <2>5, <1>a
  <1>6. CASE GtWrite
    <2>1. NameType'
      BY <1>0, <1>6 DEF NameType, GtWrite
    <2>2. StepType'
      BY <1>0, <1>6 DEF StepType, GtWrite
    <2>3. ServerType' /\ FlagType' /\ TimeType' /\ CountType'
      BY <1>0, <1>6 DEF ServerType, FlagType, TimeType, CountType, GtWrite
    <2> QED
      BY <2>1, <2>2, <2>3, <1>a
  <1>7. CASE GtVerify
    <2>1. NameType'
      BY <1>0, <1>7 DEF NameType, GtVerify
    <2>2. StepType'
      BY <1>0, <1>7 DEF StepType, GtVerify
    <2>3. ServerType' /\ FlagType' /\ TimeType' /\ CountType'
      BY <1>0, <1>7 DEF ServerType, FlagType, TimeType, CountType, GtVerify
    <2> QED
      BY <2>1, <2>2, <2>3, <1>a
  <1>8. CASE GtStop
    <2>1. ServerType'
      BY <1>0, <1>8, KilledType DEF ServerType, GtStop
    <2>2. FlagType'
      BY <1>0, <1>8, Zenon DEF FlagType, GtStop
    <2>3. CountType'
      BY <1>0, <1>8 DEF CountType, GtStop
    <2>4. NameType' /\ StepType' /\ TimeType'
      BY <1>0, <1>8 DEF NameType, StepType, TimeType, GtStop
    <2> QED
      BY <2>1, <2>2, <2>3, <2>4, <1>a
  <1>9. ASSUME NEW p \in Pids, Bind(p) PROVE TypeOK'
    <2>1. ServerType'
      BY <1>0, <1>9, KilledType DEF ServerType, Bind
    <2>2. NameType' /\ StepType' /\ FlagType' /\ TimeType' /\ CountType'
      BY <1>0, <1>9 DEF NameType, StepType, FlagType, TimeType, CountType, Bind
    <2> QED
      BY <2>1, <2>2, <1>a
  <1>10. ASSUME NEW p \in Pids, Fail(p) PROVE TypeOK'
    <2>1. ServerType'
      BY <1>0, <1>10, KilledType DEF ServerType, Fail
    <2>2. CountType'
      BY <1>0, <1>10 DEF CountType, Fail
    <2>3. NameType' /\ StepType' /\ FlagType' /\ TimeType'
      BY <1>0, <1>10 DEF NameType, StepType, FlagType, TimeType, Fail
    <2> QED
      BY <2>1, <2>2, <2>3, <1>a
  <1>11. CASE UNCHANGED vars
    <2>1. ServerType' /\ NameType' /\ StepType' /\ FlagType' /\ TimeType' /\ CountType'
      BY <1>0, <1>11 DEF ServerType, NameType, StepType, FlagType, TimeType, CountType, vars
    <2> QED
      BY <2>1, <1>a
  <1>12. CASE GtCheckNoData
    <2>1. ServerType'
      BY <1>0, <1>12, KilledType DEF ServerType, GtCheckNoData
    <2>2. StepType'
      BY <1>0, <1>12 DEF StepType, GtCheckNoData
    <2>3. CountType'
      BY <1>0, <1>12 DEF CountType, GtCheckNoData
    <2>4. NameType' /\ FlagType' /\ TimeType'
      BY <1>0, <1>12 DEF NameType, FlagType, TimeType, GtCheckNoData
    <2> QED
      BY <2>1, <2>2, <2>3, <2>4, <1>a
  <1>13. CASE GtUnlink
    <2>1. NameType'
      BY <1>0, <1>13 DEF NameType, GtUnlink, RemovePidFile
    <2>2. StepType'
      BY <1>0, <1>13 DEF StepType, GtUnlink
    <2>3. FlagType'
      BY <1>0, <1>13, Zenon DEF FlagType, GtUnlink, RemovePidFile
    <2>4. ServerType' /\ TimeType' /\ CountType'
      BY <1>0, <1>13 DEF ServerType, TimeType, CountType, GtUnlink
    <2> QED
      BY <2>1, <2>2, <2>3, <2>4, <1>a
  <1>14. CASE GtWriteFails
    <2>1. ServerType'
      BY <1>0, <1>14, KilledType DEF ServerType, GtWriteFails
    <2>2. NameType' /\ StepType'
      BY <1>0, <1>14 DEF NameType, StepType, GtWriteFails
    <2>3. CountType'
      BY <1>0, <1>14 DEF CountType, GtWriteFails
    <2>4. FlagType' /\ TimeType'
      BY <1>0, <1>14 DEF FlagType, TimeType, GtWriteFails
    <2> QED
      BY <2>1, <2>2, <2>3, <2>4, <1>a
  <1>15. CASE GtStopCleanUp
    <2>1. NameType'
      BY <1>0, <1>15 DEF NameType, GtStopCleanUp, RemovePidFile
    <2>2. FlagType'
      BY <1>0, <1>15, Zenon DEF FlagType, GtStopCleanUp, RemovePidFile
    <2>3. ServerType' /\ StepType' /\ TimeType' /\ CountType'
      BY <1>0, <1>15 DEF ServerType, StepType, TimeType, CountType, GtStopCleanUp
    <2> QED
      BY <2>1, <2>2, <2>3, <1>a
  <1> QED
    BY <1>1, <1>2, <1>3, <1>4, <1>5, <1>6, <1>7, <1>8, <1>9, <1>10, <1>11, <1>12, <1>13, <1>14,
       <1>15 DEF Next, Gt

\* Types: the delay stays within MaxDelay however often advanceBackoff doubles it, the restart
\* times within the window, and the process that has the port runs.
THEOREM TypeCorrect == Spec => []TypeOK
  BY InitType, NextType, PTL DEF Spec

-----------------------------------------------------------------------------
(***************************************************************************)
(* The cap on restarts.  The mutex is not held during the sleep: what      *)
(* keeps a second caller from going past the cap meanwhile is that         *)
(* restarting is set for as long as a caller sleeps or starts, that there  *)
(* is then only one such caller, and that nobody adds a restart but it.    *)
(***************************************************************************)
InRestart == {"sleep", "start", "write"}
Mutex ==
    \A c \in Callers :
        /\ pc[c] \in {"health", "stop", "stopped"} => mu = c /\ ~restarting
        /\ pc[c] \in {"start", "write"} => mu = c
        /\ pc[c] \in InRestart => restarting /\ \A d \in Callers : pc[d] \in InRestart => c = d
Capped ==
    /\ Len(times) <= MaxRestarts
    /\ \A c \in Callers : pc[c] = "sleep" => Len(times) < MaxRestarts
Restarts == TypeOK /\ Mutex /\ Capped

LEMMA GotoProperties ==
  ASSUME TypeOK, NEW c \in Callers, NEW from, NEW to, Goto(c, from, to)
  PROVE  pc[c] = from /\ \A d \in Callers : pc'[d] = IF d = c THEN to ELSE pc[d]
  BY DEF TypeOK, Goto

\* restartWithBackoff up to the sleep, from a state in which nobody restarts.
LEMMA RestartCapped ==
  ASSUME Restarts, NEW c \in Callers, NEW from, RestartWithBackoff(c, from),
         ~restarting, mu \in {None, c}
  PROVE  Mutex' /\ Capped'
  <1>1. \A d \in Callers : pc[d] \notin InRestart
    BY DEF Restarts, Mutex
  <1>2. \A d \in Callers : d # c => pc[d] \notin {"health", "stop", "stopped"}
    BY NoneAssumption DEF Restarts, Mutex
  <1>3. Len(times') \in Nat /\ Len(times') <= Len(times)
    BY PruneProperties, LenProperties DEF Restarts, TypeOK, RestartWithBackoff
  <1>4. Len(times) \in Nat /\ Len(times) <= MaxRestarts
    BY LenProperties DEF Restarts, TypeOK, Capped
  <1>5. CASE Len(times') < MaxRestarts
    <2>1. Goto(c, from, "sleep") /\ restarting'
      BY <1>3, <1>5, ConfigAssumption DEF RestartWithBackoff
    <2>2. \A d \in Callers : pc'[d] = IF d = c THEN "sleep" ELSE pc[d]
      BY <2>1, GotoProperties DEF Restarts
    <2>3. Mutex'
      BY <1>1, <1>2, <2>1, <2>2 DEF Mutex, InRestart
    <2>4. Capped'
      BY <1>3, <1>5, ConfigAssumption DEF Capped
    <2> QED
      BY <2>3, <2>4
  <1>6. CASE ~(Len(times') < MaxRestarts)
    <2>1. Goto(c, from, "idle")
      BY <1>3, <1>6, ConfigAssumption DEF RestartWithBackoff
    <2>2. \A d \in Callers : pc'[d] = IF d = c THEN "idle" ELSE pc[d]
      BY <2>1, GotoProperties DEF Restarts
    <2>3. Mutex'
      BY <1>1, <1>2, <2>2 DEF Mutex, InRestart
    <2>4. Capped'
      BY <1>1, <1>3, <1>4, <2>2, ConfigAssumption DEF Capped, InRestart
    <2> QED
      BY <2>3, <2>4
  <1> QED
    BY <1>5, <1>6

\* The end of a restart.
LEMMA RestartedCapped ==
  ASSUME Restarts, NEW c \in Callers, NEW from, Restarted(c, from), from \in {"start", "write"},
         UNCHANGED times
  PROVE  Mutex' /\ Capped'
  <1>1. pc[c] = from /\ \A d \in Callers : pc'[d] = IF d = c THEN "idle" ELSE pc[d]
    BY GotoProperties DEF Restarts, Restarted
  <1>2. mu' = None /\ ~restarting' /\ mu = c /\ restarting
    BY <1>1 DEF Restarted, Restarts, Mutex, InRestart
  <1>3. \A d \in Callers : pc'[d] \notin InRestart /\ pc'[d] \notin {"health", "stop", "stopped"}
    BY <1>1, <1>2 DEF Restarts, Mutex, InRestart
  <1>4. Mutex'
    BY <1>3 DEF Mutex, InRestart
  <1>5. Capped'
    BY <1>3 DEF Restarts, Capped, InRestart
  <1> QED
    BY <1>4, <1>5

LEMMA NextRestarts == Restarts /\ [Next]_vars => Restarts'
  <1> SUFFICES ASSUME Restarts, [Next]_vars PROVE Mutex' /\ Capped'
    BY NextType DEF Restarts
  <1> USE NoneAssumption, ConfigAssumption
  <1>0. TypeOK /\ Mutex /\ Capped /\ Len(times) \in Nat
    BY LenProperties DEF Restarts, TypeOK
  <1>1. ASSUME NEW c \in Callers, Manage(c) \/ StartFails(c) \/ WriteFails(c) PROVE Mutex' /\ Capped'
    <2>1. CASE EnsureRunning(c)
      <3>1. CASE RestartWithBackoff(c, "idle")
        BY <2>1, <3>1, RestartCapped DEF EnsureRunning
      <3>2. CASE Goto(c, "idle", "health") /\ mu' = c /\ UNCHANGED <<restarting, backoffVars, wait>>
        <4>1. \A d \in Callers : pc'[d] = IF d = c THEN "health" ELSE pc[d]
          BY <1>0, <3>2, GotoProperties
        <4>2. mu = None /\ ~restarting /\ mu' = c /\ ~restarting' /\ times' = times
          BY <2>1, <3>2 DEF EnsureRunning, backoffVars
        <4>3. \A d \in Callers : pc[d] \notin InRestart /\ pc[d] \notin {"health", "stop", "stopped"}
          BY <1>0, <4>2 DEF Mutex
        <4>4. Mutex'
          BY <4>1, <4>2, <4>3 DEF Mutex, InRestart
        <4>5. Capped'
          BY <1>0, <4>1, <4>2, <4>3 DEF Capped, InRestart
        <4> QED
          BY <4>4, <4>5
      <3> QED
        BY <2>1, <3>1, <3>2 DEF EnsureRunning
    <2>2. CASE CheckHealth(c)
      <3>1. pc[c] = "health" /\ \A d \in Callers : pc'[d] = IF d = c THEN pc'[c] ELSE pc[d]
        BY <1>0, <2>2, GotoProperties DEF CheckHealth
      <3>2. mu = c /\ ~restarting /\ ~restarting'
        BY <1>0, <2>2, <3>1 DEF Mutex, CheckHealth
      <3>3. \/ pc'[c] = "idle" /\ mu' = None
            \/ pc'[c] = "stop" /\ mu' = c
        BY <1>0, <2>2, <3>2, GotoProperties DEF CheckHealth
      <3>4. \A d \in Callers : d # c => pc[d] \notin InRestart /\ pc[d] \notin {"health", "stop", "stopped"}
        BY <1>0, <3>2 DEF Mutex
      <3>5. \A d \in Callers : pc'[d] \notin InRestart
        BY <3>1, <3>3, <3>4 DEF InRestart
      <3>6. Mutex'
        BY <3>1, <3>2, <3>3, <3>4, <3>5 DEF Mutex, InRestart
      <3>7. times' = times \/ times' = << >>
        BY <2>2 DEF CheckHealth, MaybeResetBackoff, backoffVars
      <3>8. Capped'
        BY <1>0, <3>5, <3>7 DEF Capped, InRestart
      <3> QED
        BY <3>6, <3>8
    <2>3. CASE StopLocked(c)
      <3>1. pc[c] = "stop" /\ mu = c /\ ~restarting
        BY <1>0, <2>3 DEF StopLocked, RestartWithBackoff, Goto, Mutex
      <3>2. CASE RestartWithBackoff(c, "stop")
        BY <3>1, <3>2, RestartCapped
      <3>3. CASE Goto(c, "stop", "stopped") /\ UNCHANGED <<mu, restarting, backoffVars, wait>>
        <4>1. \A d \in Callers : pc'[d] = IF d = c THEN "stopped" ELSE pc[d]
          BY <1>0, <3>3, GotoProperties
        <4>2. mu' = c /\ ~restarting' /\ times' = times
          BY <3>1, <3>3 DEF backoffVars
        <4>3. \A d \in Callers :
                /\ pc[d] \notin InRestart
                /\ d # c => pc[d] \notin {"health", "stop", "stopped"}
          BY <1>0, <3>1 DEF Mutex
        <4>4. Mutex'
          BY <4>1, <4>2, <4>3 DEF Mutex, InRestart
        <4>5. Capped'
          BY <1>0, <4>1, <4>2, <4>3 DEF Capped, InRestart
        <4> QED
          BY <4>4, <4>5
      <3> QED
        BY <2>3, <3>2, <3>3 DEF StopLocked
    <2>4. CASE Wake(c)
      <3>1. mu = None
        BY <2>4 DEF Wake
      <3>2. CASE Goto(c, "sleep", "idle") /\ restarting' = FALSE /\ UNCHANGED <<mu, backoffVars>>
        <4>1. pc[c] = "sleep" /\ \A d \in Callers : pc'[d] = IF d = c THEN "idle" ELSE pc[d]
          BY <1>0, <3>2, GotoProperties
        <4>2. \A d \in Callers : pc'[d] \notin InRestart /\ pc'[d] \notin {"health", "stop", "stopped"}
          BY <1>0, <3>1, <4>1 DEF Mutex, InRestart
        <4>3. Mutex'
          BY <4>2 DEF Mutex, InRestart
        <4>4. Capped'
          BY <1>0, <3>2, <4>2 DEF Capped, InRestart, backoffVars
        <4> QED
          BY <4>3, <4>4
      <3>3. CASE /\ Goto(c, "sleep", "start") /\ mu' = c /\ times' = Append(times, 0)
                 /\ UNCHANGED restarting
        <4>1. pc[c] = "sleep" /\ \A d \in Callers : pc'[d] = IF d = c THEN "start" ELSE pc[d]
          BY <1>0, <3>3, GotoProperties
        <4>2. restarting' /\ \A d \in Callers : d # c => pc'[d] \notin InRestart
          BY <1>0, <3>3, <4>1 DEF Mutex, InRestart
        <4>3. \A d \in Callers : pc'[d] \notin {"health", "stop", "stopped"}
          BY <1>0, <3>1, <4>1 DEF Mutex
        <4>4. Mutex'
          BY <3>3, <4>1, <4>2, <4>3 DEF Mutex, InRestart
        <4>5. Len(times) < MaxRestarts /\ Len(times') = Len(times) + 1
          <5>1. times \in Seq(0..Window)
            BY <1>0 DEF TypeOK
          <5> QED
            BY <1>0, <3>3, <4>1, <5>1 DEF Capped
        <4>6. Capped'
          BY <1>0, <4>1, <4>2, <4>5 DEF Capped, InRestart
        <4> QED
          BY <4>4, <4>6
      <3> QED
        BY <2>4, <3>2, <3>3 DEF Wake
    <2>5. CASE StartLocked(c)
      <3>1. times' = times
        BY <2>5 DEF StartLocked, backoffVars
      <3>2. CASE Restarted(c, "start")
        BY <3>1, <3>2, RestartedCapped
      <3>3. CASE Goto(c, "start", "write") /\ UNCHANGED <<mu, restarting>>
        <4>1. pc[c] = "start" /\ \A d \in Callers : pc'[d] = IF d = c THEN "write" ELSE pc[d]
          BY <1>0, <3>3, GotoProperties
        <4>2. restarting' /\ mu' = c /\ \A d \in Callers : d # c => pc'[d] \notin InRestart
          BY <1>0, <3>3, <4>1 DEF Mutex, InRestart
        <4>3. \A d \in Callers : pc'[d] \notin {"health", "stop", "stopped"}
          BY <1>0, <4>1, <4>2, <3>3 DEF Mutex, InRestart
        <4>4. Mutex'
          BY <4>1, <4>2, <4>3 DEF Mutex, InRestart
        <4>5. Capped'
          BY <1>0, <3>1, <4>1, <4>2 DEF Capped, InRestart
        <4> QED
          BY <4>4, <4>5
      <3> QED
        BY <2>5, <3>2, <3>3 DEF StartLocked
    <2>6. CASE WritePidFile(c)
      BY <2>6, RestartedCapped DEF WritePidFile, backoffVars
    <2>7. CASE StartFails(c)
      BY <2>7, RestartedCapped DEF StartFails, backoffVars
    <2>8. CASE StopCleanUp(c)
      <3>1. RestartWithBackoff(c, "stopped")
        BY <2>8 DEF StopCleanUp
      <3>2. mu = c /\ ~restarting
        BY <1>0, <3>1 DEF RestartWithBackoff, Goto, Mutex
      <3> QED
        BY <3>1, <3>2, RestartCapped
    <2>9. CASE WriteFails(c)
      BY <2>9, RestartedCapped DEF WriteFails, backoffVars
    <2> QED
      BY <1>1, <2>1, <2>2, <2>3, <2>4, <2>5, <2>6, <2>7, <2>8, <2>9 DEF Manage
  <1>2. CASE DaemonRestart
    <2>1. \A d \in Callers : pc'[d] = "idle"
      BY <1>2 DEF DaemonRestart
    <2>2. times' = << >>
      BY <1>2 DEF DaemonRestart
    <2> QED
      BY <2>1, <2>2 DEF Mutex, Capped, InRestart
  <1>3. CASE Tick
    <2>1. Len(times') = Len(times)
      BY <1>0, <1>3, AgedProperties, Zenon DEF Tick, TypeOK
    <2> QED
      BY <1>0, <1>3, <2>1 DEF Mutex, Capped, InRestart, Tick
  <1>4. ASSUME UNCHANGED <<pc, mu, restarting, times>> PROVE Mutex' /\ Capped'
    BY <1>0, <1>4 DEF Mutex, Capped, InRestart
  <1>5. CASE GtCheck
    BY <1>4, <1>5 DEF GtCheck, backoffVars
  <1>6. CASE Gt
    BY <1>4, <1>6 DEF Gt, GtUnlink, GtSpawn, GtWrite, GtVerify, GtStopCleanUp, backoffVars
  <1>7. CASE GtCheckNoData \/ GtWriteFails \/ GtStop
    BY <1>4, <1>7 DEF GtCheckNoData, GtWriteFails, GtStop, backoffVars
  <1>8. ASSUME NEW p \in Pids, Bind(p) \/ Fail(p) PROVE Mutex' /\ Capped'
    BY <1>4, <1>8 DEF Bind, Fail, backoffVars
  <1>9. CASE UNCHANGED vars
    BY <1>4, <1>9 DEF vars, backoffVars
  <1> QED
    BY <1>1, <1>2, <1>3, <1>5, <1>6, <1>7, <1>8, <1>9 DEF Next

LEMMA InitRestarts == Init => Restarts
  <1> SUFFICES ASSUME Init PROVE Mutex /\ Capped
    BY InitType DEF Restarts
  <1> USE ConfigAssumption
  <1> QED
    BY DEF Init, Mutex, Capped, InRestart

LEMMA RestartsInvariant == Spec => []Restarts
  BY InitRestarts, NextRestarts, PTL DEF Spec

\* EnsureRunning and restartWithBackoff: however the callers and gt follow one another, a
\* daemon does not restart the server more than MaxRestartsInWindow times in a RestartWindow.
THEOREM CapHolds == Spec => []RestartCap
  <1>1. Restarts => RestartCap
    <2> SUFFICES ASSUME Restarts PROVE RestartCap
      OBVIOUS
    <2>1. times \in Seq(0..Window) /\ Len(times) <= MaxRestarts
      BY DEF Restarts, TypeOK, Capped
    <2>2. Prune(times) \in Seq(0..Window) /\ Len(Prune(times)) <= Len(times)
      BY <2>1, PruneProperties
    <2>3. Len(times) \in Nat /\ Len(Prune(times)) \in Nat
      BY <2>1, <2>2, LenProperties
    <2> QED
      BY <2>1, <2>2, <2>3, ConfigAssumption DEF RestartCap
  <1> QED
    BY <1>1, RestartsInvariant, PTL

-----------------------------------------------------------------------------
(***************************************************************************)
(* The running server.  Unless one of the gaps has opened there is one     *)
(* process at most, named by the PID file, or by whoever has started it    *)
(* and is about to write the PID file; while one starter is about to, the  *)
(* other is not.                                                           *)
(***************************************************************************)
Writing == \E c \in Callers : pc[c] = "write"
OneServer == \A p, q \in procs : p = q
Named ==
    \A p \in procs :
        \/ pidfile = p
        \/ gpc = "write" /\ gpid = p
        \/ process = p /\ Writing
OneStarter ==
    /\ Writing => procs \subseteq {process} /\ gpc # "write"
    /\ gpc = "write" => procs \subseteq {gpid}
Known == raced \/ (OneServer /\ Named /\ OneStarter)
Tracking == Restarts /\ Known

\* A caller that writes holds the mutex, and is the only one to be past the sleep.
LEMMA WriterHolds ==
  ASSUME Restarts, NEW c \in Callers
  PROVE  /\ Writing => mu \in Callers
         /\ Writing /\ mu = c => pc[c] = "write"
  BY DEF Restarts, Mutex, Writing

\* A step that starts no server, names none anew and takes back only stale names.
LEMMA StillKnown ==
  ASSUME OneServer /\ Named /\ OneStarter, procs' \subseteq procs, ~Writing,
         ~Writing', UNCHANGED gtVars,
         \A p \in procs' : pidfile = p => pidfile' = p
  PROVE  OneServer' /\ Named' /\ OneStarter'
  BY DEF OneServer, Named, OneStarter, gtVars

LEMMA NextKnown == Tracking /\ [Next]_vars => Tracking'
  <1> SUFFICES ASSUME Tracking, [Next]_vars PROVE Known'
    BY NextRestarts DEF Tracking
  <1> USE NoneAssumption
  <1>0. Restarts /\ TypeOK /\ Mutex /\ Known /\ raced \in BOOLEAN
    BY DEF Tracking, Restarts, TypeOK
  <1> SUFFICES ASSUME ~raced' PROVE OneServer' /\ Named' /\ OneStarter'
    BY DEF Known
  <1>1. ASSUME NEW c \in Callers, Manage(c) \/ StartFails(c) \/ WriteFails(c) PROVE OneServer' /\ Named' /\ OneStarter'
    <2>1. CASE EnsureRunning(c)
      <3>1. ~raced /\ mu = None /\ procs' = procs /\ UNCHANGED gtVars
        BY <2>1 DEF EnsureRunning, serverVars
      <3>2. ~Writing
        BY <1>0, <3>1, WriterHolds
      <3>3. \E to : Goto(c, "idle", to) /\ to # "write"
        BY <2>1 DEF EnsureRunning, RestartWithBackoff
      <3>4. ~Writing'
        BY <1>0, <3>2, <3>3, GotoProperties DEF Writing
      <3>5. \A p \in procs' : pidfile = p => pidfile' = p
        BY <1>0, <2>1, <3>1, FoundProperties DEF EnsureRunning, IsRunning
      <3>6. OneServer /\ Named /\ OneStarter
        BY <1>0, <3>1 DEF Known
      <3> QED
        BY <3>1, <3>2, <3>4, <3>5, <3>6, StillKnown
    <2>2. CASE CheckHealth(c)
      <3>1. ~raced /\ pc[c] = "health" /\ procs' = procs /\ pidfile' = pidfile /\ UNCHANGED gtVars
        BY <1>0, <2>2, GotoProperties DEF CheckHealth, serverVars
      <3>2. ~Writing
        BY <1>0, <3>1, WriterHolds DEF Mutex
      <3>3. \E to : Goto(c, "health", to) /\ to # "write"
        BY <2>2 DEF CheckHealth
      <3>4. ~Writing'
        BY <1>0, <3>2, <3>3, GotoProperties DEF Writing
      <3>5. OneServer /\ Named /\ OneStarter
        BY <1>0, <3>1 DEF Known
      <3> QED
        BY <3>1, <3>2, <3>4, <3>5, StillKnown
    <2>3. CASE StopLocked(c)
      <3>1. ~raced /\ UNCHANGED gtVars /\ \E to : Goto(c, "stop", to) /\ to # "write"
        BY <2>3 DEF StopLocked, RestartWithBackoff
      <3>2. ~Writing
        BY <1>0, <3>1, WriterHolds DEF Mutex, Goto
      <3>3. ~Writing'
        BY <1>0, <3>1, <3>2, GotoProperties DEF Writing
      <3>4. OneServer /\ Named /\ OneStarter
        BY <1>0, <3>1 DEF Known
      <3>5. procs' \subseteq procs
        BY <1>0, <2>3, KilledType DEF StopLocked, serverVars
      <3>6. \A p \in procs' : pidfile = p => pidfile' = p
        BY <1>0, <2>3, <3>5, FoundProperties DEF StopLocked, IsRunning
      <3> QED
        BY <3>1, <3>2, <3>3, <3>4, <3>5, <3>6, StillKnown
    <2>4. CASE Wake(c)
      <3>1. ~raced /\ mu = None /\ procs' = procs /\ UNCHANGED gtVars
        BY <2>4 DEF Wake, serverVars
      <3>2. ~Writing
        BY <1>0, <3>1, WriterHolds
      <3>3. \E to : Goto(c, "sleep", to) /\ to # "write"
        BY <2>4 DEF Wake
      <3>4. ~Writing'
        BY <1>0, <3>2, <3>3, GotoProperties DEF Writing
      <3>5. \A p \in procs' : pidfile = p => pidfile' = p
        BY <1>0, <2>4, <3>1, FoundProperties DEF Wake, IsRunning
      <3>6. OneServer /\ Named /\ OneStarter
        BY <1>0, <3>1 DEF Known
      <3> QED
        BY <3>1, <3>2, <3>4, <3>5, <3>6, StillKnown
    <2>5. CASE StartLocked(c)
      <3>1. CASE Found # None /\ IsRunning /\ Restarted(c, "start") /\ UNCHANGED <<serverVars, raced>>
        <4>1. ~raced /\ procs' = procs /\ UNCHANGED gtVars
          BY <2>5, <3>1 DEF StartLocked, serverVars
        <4>2. pc[c] = "start"
          BY <3>1 DEF Restarted, Goto
        <4>3. ~Writing
          BY <1>0, <4>2, WriterHolds DEF Mutex
        <4>4. ~Writing'
          BY <1>0, <3>1, <4>3, GotoProperties DEF Writing, Restarted
        <4>5. \A p \in procs' : pidfile = p => pidfile' = p
          BY <1>0, <3>1, <4>1, FoundProperties DEF IsRunning
        <4>6. OneServer /\ Named /\ OneStarter
          BY <1>0, <4>1 DEF Known
        <4> QED
          BY <4>1, <4>3, <4>4, <4>5, <4>6, StillKnown
      <3>2. CASE /\ Goto(c, "start", "write") /\ Spawned /\ process' = NewPid
                 /\ raced' = (raced \/ procs # {} \/ gpc \in {"spawn", "write"})
        <4>1. procs = {} /\ gpc # "write"
          BY <3>2
        <4>2. gpc' = gpc /\ procs' = {process'}
          BY <2>5, <3>2, <4>1 DEF StartLocked, Spawned, gtVars
        <4>3. Writing'
          BY <1>0, <3>2, GotoProperties DEF Writing
        <4> QED
          BY <4>1, <4>2, <4>3 DEF OneServer, Named, OneStarter
      <3> QED
        BY <2>5, <3>1, <3>2 DEF StartLocked
    <2>6. CASE WritePidFile(c)
      <3>1. ~raced /\ procs' = procs /\ pidfile' = process /\ UNCHANGED gtVars
        BY <2>6 DEF WritePidFile, serverVars
      <3>2. Goto(c, "write", "idle")
        BY <2>6 DEF WritePidFile, Restarted
      <3>3. Writing /\ ~Writing'
        BY <1>0, <3>2, GotoProperties DEF Writing, Mutex, InRestart
      <3>4. OneServer /\ OneStarter
        BY <1>0, <3>1 DEF Known
      <3> QED
        BY <3>1, <3>3, <3>4 DEF OneServer, Named, OneStarter, gtVars
    <2>7. CASE StartFails(c)
      <3>1. ~raced /\ procs' = procs /\ UNCHANGED gtVars /\ pc[c] = "start"
        BY <2>7 DEF StartFails, serverVars, Restarted, Goto
      <3>2. ~Writing
        BY <1>0, <3>1, WriterHolds DEF Mutex
      <3>3. ~Writing'
        BY <1>0, <2>7, <3>2, GotoProperties DEF Writing, Restarted, StartFails
      <3>4. \A p \in procs' : pidfile = p => pidfile' = p
        BY <1>0, <2>7, <3>1, FoundProperties DEF StartFails, IsRunning
      <3>5. OneServer /\ Named /\ OneStarter
        BY <1>0, <3>1 DEF Known
      <3> QED
        BY <3>1, <3>2, <3>3, <3>4, <3>5, StillKnown
    <2>8. CASE StopCleanUp(c)
      <3>1. ~raced /\ pidfile \notin procs /\ procs' = procs /\ UNCHANGED gtVars
        BY <2>8 DEF StopCleanUp, RemovePidFile, serverVars
      <3>2. \E to : Goto(c, "stopped", to) /\ to # "write"
        BY <2>8 DEF StopCleanUp, RestartWithBackoff
      <3>3. ~Writing
        BY <1>0, <3>2, WriterHolds DEF Mutex, Goto
      <3>4. ~Writing'
        BY <1>0, <3>2, <3>3, GotoProperties DEF Writing
      <3>5. OneServer /\ Named /\ OneStarter
        BY <1>0, <3>1 DEF Known
      <3> QED
        BY <3>1, <3>3, <3>4, <3>5, StillKnown
    <2>9. CASE WriteFails(c)
      BY <2>9 DEF WriteFails
    <2> QED
      BY <1>1, <2>1, <2>2, <2>3, <2>4, <2>5, <2>6, <2>7, <2>8, <2>9 DEF Manage
  <1>2. CASE DaemonRestart
    <2>1. ~raced /\ ~Writing /\ procs' = procs /\ pidfile' = pidfile /\ UNCHANGED gtVars
      BY <1>2 DEF DaemonRestart, Writing, serverVars
    <2>2. ~Writing'
      BY <1>2 DEF DaemonRestart, Writing
    <2>3. OneServer /\ Named /\ OneStarter
      BY <1>0, <2>1 DEF Known
    <2> QED
      BY <2>1, <2>2, <2>3, StillKnown
  <1>3. CASE GtCheck
    <2>1. /\ ~raced /\ procs' = procs /\ process' = process /\ pc' = pc
          /\ gpc = "idle" /\ gpc' # "write" /\ pidfile' = GtFound
      BY <1>3 DEF GtCheck, serverVars
    <2>2. OneServer /\ Named /\ OneStarter
      BY <1>0, <2>1 DEF Known
    <2>3. \A p \in procs : pidfile = p => pidfile' = p
      BY <2>1 DEF GtFound
    <2> QED
      BY <2>1, <2>2, <2>3 DEF OneServer, Named, OneStarter, Writing
  <1>4. CASE GtSpawn
    <2>1. procs = {} /\ ~Writing /\ pc' = pc /\ gpc' = "write" /\ procs' = {gpid'}
      BY <1>4 DEF GtSpawn, Spawned, Writing
    <2> QED
      BY <2>1 DEF OneServer, Named, OneStarter, Writing
  <1>5. CASE GtWrite
    <2>1. ~raced /\ procs' = procs /\ pidfile' = gpid /\ gpc = "write" /\ gpc' = "verify" /\ pc' = pc
      BY <1>5 DEF GtWrite, serverVars
    <2>2. OneServer /\ OneStarter
      BY <1>0, <2>1 DEF Known
    <2> QED
      BY <2>1, <2>2 DEF OneServer, Named, OneStarter, Writing
  <1>6. CASE GtVerify
    <2>1. /\ ~raced /\ procs' = procs /\ gpc = "verify" /\ gpc' = "idle" /\ pc' = pc /\ process' = process
          /\ pidfile' = IF pidfile \in procs THEN pidfile ELSE None
      BY <1>6 DEF GtVerify, serverVars
    <2>2. OneServer /\ Named /\ OneStarter
      BY <1>0, <2>1 DEF Known
    <2> QED
      BY <2>1, <2>2 DEF OneServer, Named, OneStarter, Writing
  <1>7. CASE GtUnlink \/ GtStopCleanUp
    <2>1. /\ ~raced /\ procs' = procs /\ UNCHANGED <<process, pc, gpid>>
          /\ (gpc # "write" /\ gpc' # "write") \/ gpc' = gpc
          /\ pidfile \notin procs
      BY <1>7 DEF GtUnlink, GtStopCleanUp, RemovePidFile, serverVars
    <2>2. OneServer /\ Named /\ OneStarter
      BY <1>0, <2>1 DEF Known
    <2> QED
      BY <2>1, <2>2 DEF OneServer, Named, OneStarter, Writing
  <1>8. ASSUME ~raced, procs' \subseteq procs, UNCHANGED <<process, pc, gpc, gpid, pidfile>>
        PROVE OneServer' /\ Named' /\ OneStarter'
    <2>1. OneServer /\ Named /\ OneStarter
      BY <1>0, <1>8 DEF Known
    <2> QED
      BY <1>8, <2>1 DEF OneServer, Named, OneStarter, Writing
  <1>9. ASSUME NEW p \in Pids, Bind(p) \/ Fail(p) PROVE OneServer' /\ Named' /\ OneStarter'
    <2>1. ~raced /\ UNCHANGED <<process, pc, gpc, gpid, pidfile>>
      BY <1>9 DEF Bind, Fail, gtVars
    <2>2. procs' \subseteq procs
      BY <1>0, <1>9, KilledType DEF Bind, Fail
    <2> QED
      BY <1>8, <2>1, <2>2
  <1>10. CASE Tick \/ UNCHANGED vars
    <2>1. ~raced /\ UNCHANGED <<process, pc, gpc, gpid, pidfile, procs>>
      BY <1>10 DEF Tick, vars, gtVars, serverVars
    <2> QED
      BY <1>8, <2>1
  <1>11. CASE GtStop \/ GtCheckNoData
    <2>1. /\ ~raced /\ UNCHANGED <<process, pc, gpid, pidfile>> /\ Killed(GtFound)
          /\ (gpc # "write" /\ gpc' # "write") \/ gpc' = gpc
      BY <1>11 DEF GtStop, GtCheckNoData
    <2>2. OneServer /\ Named /\ OneStarter
      BY <1>0, <2>1 DEF Known
    <2>3. procs' \subseteq procs
      BY <1>0, <2>1, KilledType
    <2> QED
      BY <2>1, <2>2, <2>3 DEF OneServer, Named, OneStarter, Writing
  <1>12. CASE GtWriteFails
    <2>1. ~raced /\ gpc = "write" /\ pc' = pc /\ gpc' = "idle" /\ Killed(gpid)
      BY <1>12 DEF GtWriteFails
    <2>2. procs \subseteq {gpid} /\ ~Writing
      BY <1>0, <2>1 DEF Known, OneStarter
    <2>3. procs' = {} /\ ~Writing'
      BY <2>1, <2>2 DEF Killed, Writing
    <2> QED
      BY <2>1, <2>3 DEF OneServer, Named, OneStarter
  <1> QED
    BY <1>1, <1>2, <1>3, <1>4, <1>5, <1>6, <1>7, <1>9, <1>10, <1>11, <1>12 DEF Next, Gt

\* The PID file and the manager do not lose the running server: startLocked, stopLocked,
\* gt dolt start and gt dolt stop, with every crash and failing write, unless two starts
\* overlapped, the daemon failed to write the PID file or died before it did, or a stop
\* removed the PID file of a server that was started while it stopped the one before.
THEOREM ServerNotLost == Spec => []NoOrphan
  <1>1. Init => Tracking
    <2> SUFFICES ASSUME Init PROVE Known
      BY InitRestarts DEF Tracking
    <2> QED
      BY DEF Init, Known, OneServer, Named, OneStarter, Writing
  <1>2. Tracking => NoOrphan
    <2> SUFFICES ASSUME Tracking, port # None, ~raced PROVE Tracked
      BY DEF NoOrphan
    <2>1. port \in procs /\ Named
      BY DEF Tracking, Known, Restarts, TypeOK
    <2> QED
      BY <2>1 DEF Named, Tracked
  <1> QED
    BY <1>1, <1>2, NextKnown, PTL DEF Spec
=============================================================================
