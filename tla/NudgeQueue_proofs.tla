------------------------- MODULE NudgeQueue_proofs -------------------------
(***************************************************************************)
(* Proofs about NudgeQueue, for any number of nudges and drainers, any     *)
(* thresholds and any bounds.  The inductive invariant IInv is established *)
(* in layers: types, files, clocks, conservation, single possession.       *)
(***************************************************************************)
EXTENDS NudgeQueue, TLAPS

\* The typing layer: the types, and that a reading drainer has a nudge.
Typing == TypeOK /\ CurrentOK

LEMMA InitTyping == Init => Typing
  BY BoundAssumption, NoneAssumption DEF Init, Typing, TypeOK, CurrentOK

LEMMA NextTyping == Typing /\ [Next]_vars => Typing'
  <1> SUFFICES ASSUME Typing, [Next]_vars PROVE Typing'
    OBVIOUS
  <1> USE BoundAssumption, LimitAssumption
  <1> USE DEF Typing, TypeOK, CurrentOK, Files, Fates, File, Fault, senderVars, drainVars, outcomeVars
  <1>1. CASE Tick
    BY <1>1 DEF Tick
  <1>2. ASSUME NEW n \in Nudges, Enqueue(n) PROVE Typing'
    <2>1. CASE EnqueueReject(n)
      BY <2>1 DEF EnqueueReject
    <2>2. ASSUME NEW ttl \in {NormalTTL, UrgentTTL}, EnqueueCheck(n, ttl) PROVE Typing'
      BY <2>2 DEF EnqueueCheck
    <2>3. CASE EnqueueCreate(n)
      BY <2>3 DEF EnqueueCreate
    <2>4. CASE EnqueueWrite(n)
      BY <2>4 DEF EnqueueWrite
    <2>5. CASE EnqueueFail(n)
      BY <2>5 DEF EnqueueFail
    <2> QED
      BY <1>2, <2>1, <2>2, <2>3, <2>4, <2>5 DEF Enqueue
  <1>3. ASSUME NEW d \in Drainers, DrainStep(d) PROVE Typing'
    <2>1. CASE DrainStart(d)
      BY <2>1 DEF DrainStart
    <2>2. ASSUME NEW f \in Files, DrainSweepYoung(d, f) PROVE Typing'
      BY <2>2 DEF DrainSweepYoung
    <2>3. ASSUME NEW f \in Files, DrainRequeue(d, f) PROVE Typing'
      BY <2>3 DEF DrainRequeue, Without
    <2>4. CASE DrainSweepDone(d)
      BY <2>4 DEF DrainSweepDone
    <2>5. ASSUME NEW f \in Files, DrainClaim(d, f) PROVE Typing'
      BY <2>5 DEF DrainClaim
    <2>6. ASSUME NEW f \in Files, DrainClaimLost(d, f) PROVE Typing'
      BY <2>6 DEF DrainClaimLost
    <2>7. CASE DrainRead(d)
      BY <2>7 DEF DrainRead
    <2>8. CASE DrainReadVanished(d)
      BY <2>8 DEF DrainReadVanished, NextEntry
    <2>9. CASE DrainMalformed(d)
      BY <2>9 DEF DrainMalformed, NextEntry, RemoveClaim, Without
    <2>10. CASE DrainExpired(d)
      BY <2>10 DEF DrainExpired, NextEntry, RemoveClaim, Without
    <2>11. CASE DrainAppend(d)
      BY <2>11 DEF DrainAppend, NextEntry, RemoveClaim, Without
    <2>12. CASE DrainReturn(d)
      BY <2>12 DEF DrainReturn
    <2> QED
      BY <1>3, <2>1, <2>2, <2>3, <2>4, <2>5, <2>6, <2>7, <2>8, <2>9, <2>10, <2>11, <2>12
      DEF DrainStep
  <1>4. ASSUME NEW d \in Drainers, DrainFault(d) PROVE Typing'
    <2>1. ASSUME NEW f \in Files, DrainRequeueFail(d, f) PROVE Typing'
      BY <2>1 DEF DrainRequeueFail, Without
    <2>2. CASE DrainReadError(d)
      BY <2>2 DEF DrainReadError, NextEntry, Without
    <2>3. CASE DrainCrash(d)
      BY <2>3 DEF DrainCrash
    <2> QED
      BY <1>4, <2>1, <2>2, <2>3 DEF DrainFault
  <1>5. CASE UNCHANGED vars
    BY <1>5 DEF vars
  <1> QED
    BY <1>1, <1>2, <1>3, <1>4, <1>5 DEF Next

-----------------------------------------------------------------------------
\* The file layer: one file per nudge, files exist only for created nudges, and
\* every claim that a sweep still has to visit exists.
FilesOK == OneFilePerNudge /\ FilesCreated /\ Bodyless

LEMMA InitFiles == Init => FilesOK
  BY DEF Init, FilesOK, OneFilePerNudge, FilesCreated, Bodyless, BeforeCreate

LEMMA NextFiles == Typing /\ FilesOK /\ [Next]_vars => FilesOK'
  <1> SUFFICES ASSUME Typing, FilesOK, [Next]_vars PROVE FilesOK'
    OBVIOUS
  <1> USE NoneAssumption
  <1> USE DEF Typing, TypeOK, CurrentOK, FilesOK, OneFilePerNudge, FilesCreated, Bodyless, BeforeCreate, Files, File,
          Fault, senderVars, drainVars, outcomeVars
  <1>1. CASE Tick
    BY <1>1 DEF Tick
  <1>2. ASSUME NEW n \in Nudges, Enqueue(n) PROVE FilesOK'
    <2>1. CASE EnqueueReject(n)
      BY <2>1 DEF EnqueueReject
    <2>2. ASSUME NEW ttl \in {NormalTTL, UrgentTTL}, EnqueueCheck(n, ttl) PROVE FilesOK'
      BY <2>2 DEF EnqueueCheck
    <2>3. CASE EnqueueCreate(n)
      BY <2>3 DEF EnqueueCreate
    <2>4. CASE EnqueueWrite(n)
      BY <2>4 DEF EnqueueWrite
    <2>5. CASE EnqueueFail(n)
      BY <2>5 DEF EnqueueFail
    <2> QED
      BY <1>2, <2>1, <2>2, <2>3, <2>4, <2>5 DEF Enqueue
  <1>3. ASSUME NEW d \in Drainers, DrainStep(d) PROVE FilesOK'
    <2>1. CASE DrainStart(d)
      BY <2>1 DEF DrainStart
    <2>2. ASSUME NEW f \in Files, DrainSweepYoung(d, f) PROVE FilesOK'
      BY <2>2 DEF DrainSweepYoung
    <2>3. ASSUME NEW f \in Files, DrainRequeue(d, f) PROVE FilesOK'
      BY <2>3 DEF DrainRequeue, Without, SnapClaims
    <2>4. CASE DrainSweepDone(d)
      BY <2>4 DEF DrainSweepDone
    <2>5. ASSUME NEW f \in Files, DrainClaim(d, f) PROVE FilesOK'
      BY <2>5 DEF DrainClaim, IsNext, SnapJson
    <2>6. ASSUME NEW f \in Files, DrainClaimLost(d, f) PROVE FilesOK'
      BY <2>6 DEF DrainClaimLost
    <2>7. CASE DrainRead(d)
      BY <2>7 DEF DrainRead
    <2>8. CASE DrainReadVanished(d)
      BY <2>8 DEF DrainReadVanished, NextEntry
    <2>9. CASE DrainMalformed(d)
      BY <2>9 DEF DrainMalformed, NextEntry, RemoveClaim, Without, ClaimPath
    <2>10. CASE DrainExpired(d)
      BY <2>10 DEF DrainExpired, NextEntry, RemoveClaim, Without, ClaimPath
    <2>11. CASE DrainAppend(d)
      BY <2>11 DEF DrainAppend, NextEntry, RemoveClaim, Without, ClaimPath
    <2>12. CASE DrainReturn(d)
      BY <2>12 DEF DrainReturn
    <2> QED
      BY <1>3, <2>1, <2>2, <2>3, <2>4, <2>5, <2>6, <2>7, <2>8, <2>9, <2>10, <2>11, <2>12
      DEF DrainStep
  <1>4. ASSUME NEW d \in Drainers, DrainFault(d) PROVE FilesOK'
    <2>1. ASSUME NEW f \in Files, DrainRequeueFail(d, f) PROVE FilesOK'
      BY <2>1 DEF DrainRequeueFail, Without, SnapClaims
    <2>2. CASE DrainReadError(d)
      BY <2>2 DEF DrainReadError, NextEntry, Without, ClaimPath
    <2>3. CASE DrainCrash(d)
      BY <2>3 DEF DrainCrash
    <2> QED
      BY <1>4, <2>1, <2>2, <2>3 DEF DrainFault
  <1>5. CASE UNCHANGED vars
    BY <1>5 DEF vars
  <1> QED
    BY <1>1, <1>2, <1>3, <1>4, <1>5 DEF Next

\* The clock layer.
LEMMA InitTimes == Init => TimesOK
  BY BoundAssumption DEF Init, TimesOK

LEMMA NextTimes == Typing /\ FilesOK /\ TimesOK /\ [Next]_vars => TimesOK'
  <1> SUFFICES ASSUME Typing, FilesOK, TimesOK, [Next]_vars PROVE TimesOK'
    OBVIOUS
  <1> USE BoundAssumption
  <1> USE DEF Typing, TypeOK, FilesOK, Bodyless, BeforeCreate, TimesOK, Fault, senderVars, drainVars, outcomeVars
  <1>1. CASE Tick
    BY <1>1 DEF Tick
  <1>2. ASSUME NEW n \in Nudges, Enqueue(n) PROVE TimesOK'
    <2>1. CASE EnqueueReject(n)
      BY <2>1 DEF EnqueueReject
    <2>2. ASSUME NEW ttl \in {NormalTTL, UrgentTTL}, EnqueueCheck(n, ttl) PROVE TimesOK'
      BY <2>2 DEF EnqueueCheck
    <2>3. CASE EnqueueCreate(n)
      BY <2>3 DEF EnqueueCreate
    <2>4. CASE EnqueueWrite(n)
      BY <2>4 DEF EnqueueWrite
    <2>5. CASE EnqueueFail(n)
      BY <2>5 DEF EnqueueFail
    <2> QED
      BY <1>2, <2>1, <2>2, <2>3, <2>4, <2>5 DEF Enqueue
  <1>3. ASSUME NEW d \in Drainers, DrainStep(d) PROVE TimesOK'
    <2>1. CASE DrainStart(d)
      BY <2>1 DEF DrainStart
    <2>2. ASSUME NEW f \in Files, DrainSweepYoung(d, f) PROVE TimesOK'
      BY <2>2 DEF DrainSweepYoung
    <2>3. ASSUME NEW f \in Files, DrainRequeue(d, f) PROVE TimesOK'
      BY <2>3 DEF DrainRequeue
    <2>4. CASE DrainSweepDone(d)
      BY <2>4 DEF DrainSweepDone
    <2>5. ASSUME NEW f \in Files, DrainClaim(d, f) PROVE TimesOK'
      BY <2>5 DEF DrainClaim
    <2>6. ASSUME NEW f \in Files, DrainClaimLost(d, f) PROVE TimesOK'
      BY <2>6 DEF DrainClaimLost
    <2>7. CASE DrainRead(d)
      BY <2>7 DEF DrainRead
    <2>8. CASE DrainReadVanished(d)
      BY <2>8 DEF DrainReadVanished, NextEntry
    <2>9. CASE DrainMalformed(d)
      BY <2>9 DEF DrainMalformed, NextEntry, RemoveClaim
    <2>10. CASE DrainExpired(d)
      BY <2>10 DEF DrainExpired, NextEntry, RemoveClaim
    <2>11. CASE DrainAppend(d)
      BY <2>11 DEF DrainAppend, NextEntry, RemoveClaim
    <2>12. CASE DrainReturn(d)
      BY <2>12 DEF DrainReturn
    <2> QED
      BY <1>3, <2>1, <2>2, <2>3, <2>4, <2>5, <2>6, <2>7, <2>8, <2>9, <2>10, <2>11, <2>12
      DEF DrainStep
  <1>4. ASSUME NEW d \in Drainers, DrainFault(d) PROVE TimesOK'
    <2>1. ASSUME NEW f \in Files, DrainRequeueFail(d, f) PROVE TimesOK'
      BY <2>1 DEF DrainRequeueFail
    <2>2. CASE DrainReadError(d)
      BY <2>2 DEF DrainReadError, NextEntry
    <2>3. CASE DrainCrash(d)
      BY <2>3 DEF DrainCrash
    <2> QED
      BY <1>4, <2>1, <2>2, <2>3 DEF DrainFault
  <1>5. CASE UNCHANGED vars
    BY <1>5 DEF vars
  <1> QED
    BY <1>1, <1>2, <1>3, <1>4, <1>5 DEF Next

-----------------------------------------------------------------------------
\* The conservation layer.
LEMMA InitKept == Init => CreatedIsKept
  BY DEF Init, CreatedIsKept

\* A rename of a nudge's file keeps the nudge on disk ...
LEMMA RenameKeeps ==
  ASSUME NEW m, NEW f, NEW g, f.n = g.n, dir' = (dir \ {f}) \cup {g}, OnDisk(m)
  PROVE  OnDisk(m)'
  <1>1. PICK h \in dir : h.n = m
    BY DEF OnDisk
  <1>2. CASE h = f
    BY <1>1, <1>2 DEF OnDisk
  <1>3. CASE h # f
    BY <1>1, <1>3 DEF OnDisk
  <1> QED
    BY <1>2, <1>3

\* ... and removing it does not concern the other nudges.
LEMMA RemoveKeepsOthers ==
  ASSUME NEW m, NEW f, f.n # m, dir' = dir \ {f}, OnDisk(m)
  PROVE  OnDisk(m)'
  BY DEF OnDisk

LEMMA NextKept == Typing /\ CreatedIsKept /\ [Next]_vars => CreatedIsKept'
  <1> SUFFICES ASSUME Typing, CreatedIsKept, [Next]_vars,
                      NEW m \in Nudges, spc'[m] \in {"created", "ok"}
               PROVE  Kept(m)'
    BY DEF CreatedIsKept
  <1> USE DEF Typing, TypeOK, CurrentOK, CreatedIsKept, Kept, Resolved, Fault,
          senderVars, drainVars, outcomeVars
  <1>1. CASE Tick
    BY <1>1 DEF Tick, OnDisk
  <1>2. ASSUME NEW n \in Nudges, Enqueue(n) PROVE Kept(m)'
    <2>1. CASE EnqueueReject(n)
      BY <2>1 DEF EnqueueReject, OnDisk
    <2>2. ASSUME NEW ttl \in {NormalTTL, UrgentTTL}, EnqueueCheck(n, ttl) PROVE Kept(m)'
      BY <2>2 DEF EnqueueCheck, OnDisk
    <2>3. CASE EnqueueCreate(n)
      <3>1. CASE m = n
        <4>1. File(n, None) \in dir' /\ File(n, None).n = n
          BY <2>3 DEF EnqueueCreate, File
        <4> QED
          BY <3>1, <4>1 DEF OnDisk
      <3>2. CASE m # n
        BY <2>3, <3>2 DEF EnqueueCreate, OnDisk
      <3> QED
        BY <3>1, <3>2
    <2>4. CASE EnqueueWrite(n)
      BY <2>4 DEF EnqueueWrite, OnDisk
    <2>5. CASE EnqueueFail(n)
      BY <2>5 DEF EnqueueFail, OnDisk
    <2> QED
      BY <1>2, <2>1, <2>2, <2>3, <2>4, <2>5 DEF Enqueue
  <1>3. ASSUME NEW d \in Drainers, DrainStep(d) PROVE Kept(m)'
    <2>1. CASE DrainStart(d)
      BY <2>1 DEF DrainStart, OnDisk
    <2>2. ASSUME NEW f \in Files, DrainSweepYoung(d, f) PROVE Kept(m)'
      BY <2>2 DEF DrainSweepYoung, OnDisk
    <2>3. ASSUME NEW f \in Files, DrainRequeue(d, f) PROVE Kept(m)'
      <3>1. File(f.n, None).n = f.n
        BY DEF File
      <3>2. OnDisk(m) => OnDisk(m)'
        BY <2>3, <3>1, RenameKeeps DEF DrainRequeue
      <3> QED
        BY <2>3, <3>2 DEF DrainRequeue
    <2>4. CASE DrainSweepDone(d)
      BY <2>4 DEF DrainSweepDone, OnDisk
    <2>5. ASSUME NEW f \in Files, DrainClaim(d, f) PROVE Kept(m)'
      <3>1. File(f.n, d).n = f.n
        BY DEF File
      <3>2. OnDisk(m) => OnDisk(m)'
        BY <2>5, <3>1, RenameKeeps DEF DrainClaim
      <3> QED
        BY <2>5, <3>2 DEF DrainClaim
    <2>6. ASSUME NEW f \in Files, DrainClaimLost(d, f) PROVE Kept(m)'
      BY <2>6 DEF DrainClaimLost, OnDisk
    <2>7. CASE DrainRead(d)
      BY <2>7 DEF DrainRead, OnDisk
    <2>8. CASE DrainReadVanished(d)
      BY <2>8 DEF DrainReadVanished, NextEntry, OnDisk
    <2>9. CASE DrainMalformed(d)
      <3>1. ClaimPath(d).n = cur[d] /\ cur[d] \in Nudges
        BY <2>9 DEF DrainMalformed, ClaimPath, File
      <3>2. m # cur[d] /\ OnDisk(m) => OnDisk(m)'
        BY <2>9, <3>1, RemoveKeepsOthers DEF DrainMalformed, RemoveClaim, OnDisk
      <3>3. m = cur[d] => Kept(m)'
        BY <2>9, <3>1 DEF DrainMalformed
      <3> QED
        BY <2>9, <3>1, <3>2, <3>3 DEF DrainMalformed
    <2>10. CASE DrainExpired(d)
      <3>1. ClaimPath(d).n = cur[d] /\ cur[d] \in Nudges
        BY <2>10 DEF DrainExpired, ClaimPath, File
      <3>2. m # cur[d] /\ OnDisk(m) => OnDisk(m)'
        BY <2>10, <3>1, RemoveKeepsOthers DEF DrainExpired, RemoveClaim, OnDisk
      <3>3. m = cur[d] => Kept(m)'
        BY <2>10, <3>1 DEF DrainExpired
      <3> QED
        BY <2>10, <3>1, <3>2, <3>3 DEF DrainExpired
    <2>11. CASE DrainAppend(d)
      <3>1. ClaimPath(d).n = cur[d] /\ cur[d] \in Nudges
        BY <2>11 DEF DrainAppend, ClaimPath, File
      <3>2. m # cur[d] /\ OnDisk(m) => OnDisk(m)'
        BY <2>11, <3>1, RemoveKeepsOthers DEF DrainAppend, RemoveClaim, OnDisk
      <3>3. m = cur[d] => Kept(m)'
        BY <2>11, <3>1 DEF DrainAppend
      <3> QED
        BY <2>11, <3>1, <3>2, <3>3 DEF DrainAppend
    <2>12. CASE DrainReturn(d)
      BY <2>12 DEF DrainReturn, OnDisk
    <2> QED
      BY <1>3, <2>1, <2>2, <2>3, <2>4, <2>5, <2>6, <2>7, <2>8, <2>9, <2>10, <2>11, <2>12
      DEF DrainStep
  <1>4. ASSUME NEW d \in Drainers, DrainFault(d) PROVE Kept(m)'
    <2>1. ASSUME NEW f \in Files, DrainRequeueFail(d, f) PROVE Kept(m)'
      <3>1. m # f.n /\ OnDisk(m) => OnDisk(m)'
        BY <2>1, RemoveKeepsOthers DEF DrainRequeueFail
      <3>2. m = f.n => Kept(m)'
        BY <2>1 DEF DrainRequeueFail
      <3> QED
        BY <2>1, <3>1, <3>2 DEF DrainRequeueFail
    <2>2. CASE DrainReadError(d)
      <3>1. File(cur[d], None).n = cur[d] /\ ClaimPath(d).n = cur[d]
        BY DEF File, ClaimPath
      <3>2. OnDisk(m) => OnDisk(m)'
        BY <2>2, <3>1, RenameKeeps DEF DrainReadError, OnDisk
      <3> QED
        BY <2>2, <3>2 DEF DrainReadError
    <2>3. CASE DrainCrash(d)
      BY <2>3 DEF DrainCrash, OnDisk
    <2> QED
      BY <1>4, <2>1, <2>2, <2>3 DEF DrainFault
  <1>5. CASE UNCHANGED vars
    BY <1>5 DEF vars, OnDisk
  <1> QED
    BY <1>1, <1>2, <1>3, <1>4, <1>5 DEF Next

-----------------------------------------------------------------------------
\* The possession layer.  Untouched is what the depth check and the create need,
\* FreshOK what a claim needs, and a claim can only be taken back by a sweep
\* once the nudge is no longer fresh (OrphanNotFresh).
SingleOK == Untouched /\ FreshOK /\ AtMostOnceWhileFresh

LEMMA OrphanNotFresh ==
  ASSUME Typing, FilesOK, TimesOK, NEW d \in Drainers, NEW f \in SnapClaims(d), Orphaned(d, f)
  PROVE  f.n \in Nudges /\ ~Fresh(f.n)
  BY LimitAssumption DEF Typing, TypeOK, Files, FilesOK, FilesCreated, TimesOK, SnapClaims, Orphaned, Fresh

LEMMA InitSingle == Init => SingleOK
  BY DEF Init, SingleOK, Untouched, BeforeCreate, FreshOK, AtMostOnceWhileFresh, Holders, Working

LEMMA NextSingle == Typing /\ FilesOK /\ TimesOK /\ SingleOK /\ [Next]_vars => SingleOK'
  <1> SUFFICES ASSUME Typing, FilesOK, TimesOK, SingleOK, [Next]_vars PROVE SingleOK'
    OBVIOUS
  <1> USE NoneAssumption
  <1> USE DEF Typing, TypeOK, CurrentOK, SingleOK, Untouched, BeforeCreate, FreshOK,
          AtMostOnceWhileFresh, Holders, Working, Fresh, Files, File, Fault, senderVars, drainVars, outcomeVars
  <1>1. CASE Tick
    <2>1. ASSUME NEW m \in Nudges, Fresh(m)' PROVE Fresh(m)
      BY <1>1, <2>1, LimitAssumption DEF Tick
    <2> QED
      BY <1>1, <2>1 DEF Tick
  <1>2. ASSUME NEW n \in Nudges, Enqueue(n) PROVE SingleOK'
    <2>1. CASE EnqueueReject(n)
      BY <2>1 DEF EnqueueReject
    <2>2. ASSUME NEW ttl \in {NormalTTL, UrgentTTL}, EnqueueCheck(n, ttl) PROVE SingleOK'
      BY <2>2 DEF EnqueueCheck
    <2>3. CASE EnqueueCreate(n)
      BY <2>3 DEF EnqueueCreate
    <2>4. CASE EnqueueWrite(n)
      BY <2>4 DEF EnqueueWrite
    <2>5. CASE EnqueueFail(n)
      BY <2>5 DEF EnqueueFail
    <2> QED
      BY <1>2, <2>1, <2>2, <2>3, <2>4, <2>5 DEF Enqueue
  <1>3. ASSUME NEW d \in Drainers, DrainStep(d) PROVE SingleOK'
    <2>1. CASE DrainStart(d)
      BY <2>1 DEF DrainStart
    <2>2. ASSUME NEW f \in Files, DrainSweepYoung(d, f) PROVE SingleOK'
      BY <2>2 DEF DrainSweepYoung
    <2>3. ASSUME NEW f \in Files, DrainRequeue(d, f) PROVE SingleOK'
      <3>1. ~Fresh(f.n) /\ f.n \in Nudges
        BY <2>3, OrphanNotFresh DEF DrainRequeue
      <3>2. \A m \in Nudges \ {f.n} : File(m, None) \in dir' => File(m, None) \in dir
        BY <2>3 DEF DrainRequeue
      <3>3. UNCHANGED <<now, stamp, dpc, cur, mem, delivered, spc>>
        BY <2>3 DEF DrainRequeue
      <3> QED
        BY <3>1, <3>2, <3>3
    <2>4. CASE DrainSweepDone(d)
      BY <2>4 DEF DrainSweepDone
    <2>5. ASSUME NEW f \in Files, DrainClaim(d, f) PROVE SingleOK'
      <3>1. f = File(f.n, None) /\ f.n \in Nudges /\ f \in dir
        BY <2>5 DEF DrainClaim, IsNext, SnapJson
      <3>2. spc[f.n] \notin {"idle", "checked", "full"}
        BY <3>1 DEF FilesOK, FilesCreated, Bodyless, BeforeCreate
      <3>3. \A m \in Nudges : File(m, None) \in dir' => File(m, None) \in dir /\ m # f.n
        BY <2>5, <3>1 DEF DrainClaim
      <3>4. \A m \in Nudges, e \in Drainers :
              /\ Working(e, m)' <=> Working(e, m) \/ (e = d /\ m = f.n)
              /\ mem'[e] = mem[e]
        BY <2>5, <3>1 DEF DrainClaim
      <3>5. UNCHANGED <<now, stamp, delivered, spc>>
        BY <2>5 DEF DrainClaim
      <3>6. Untouched'
        BY <3>2, <3>4, <3>5
      <3>7. FreshOK'
        BY <3>1, <3>3, <3>4, <3>5
      <3>8. AtMostOnceWhileFresh'
        BY <3>1, <3>4, <3>5
      <3> QED
        BY <3>6, <3>7, <3>8
    <2>6. ASSUME NEW f \in Files, DrainClaimLost(d, f) PROVE SingleOK'
      BY <2>6 DEF DrainClaimLost
    <2>7. CASE DrainRead(d)
      BY <2>7 DEF DrainRead
    <2>8. CASE DrainReadVanished(d)
      BY <2>8 DEF DrainReadVanished, NextEntry
    <2>9. CASE DrainMalformed(d)
      BY <2>9 DEF DrainMalformed, NextEntry, RemoveClaim, Without, ClaimPath
    <2>10. CASE DrainExpired(d)
      BY <2>10 DEF DrainExpired, NextEntry, RemoveClaim, Without, ClaimPath
    <2>11. CASE DrainAppend(d)
      BY <2>11 DEF DrainAppend, NextEntry, RemoveClaim, Without, ClaimPath
    <2>12. CASE DrainReturn(d)
      BY <2>12 DEF DrainReturn
    <2> QED
      BY <1>3, <2>1, <2>2, <2>3, <2>4, <2>5, <2>6, <2>7, <2>8, <2>9, <2>10, <2>11, <2>12
      DEF DrainStep
  <1>4. ASSUME NEW d \in Drainers, DrainFault(d) PROVE SingleOK'
    <2>1. ASSUME NEW f \in Files, DrainRequeueFail(d, f) PROVE SingleOK'
      BY <2>1 DEF DrainRequeueFail, Without, SnapClaims
    <2>2. CASE DrainReadError(d)
      BY <2>2 DEF DrainReadError, NextEntry, Without, ClaimPath
    <2>3. CASE DrainCrash(d)
      BY <2>3 DEF DrainCrash
    <2> QED
      BY <1>4, <2>1, <2>2, <2>3 DEF DrainFault
  <1>5. CASE UNCHANGED vars
    BY <1>5 DEF vars
  <1> QED
    BY <1>1, <1>2, <1>3, <1>4, <1>5 DEF Next

-----------------------------------------------------------------------------
\* The layers together are an inductive invariant.
LEMMA Inductive == Spec => []IInv
  <1>1. Spec => []Typing
    BY InitTyping, NextTyping, PTL DEF Spec
  <1>2. Spec => []FilesOK
    BY <1>1, InitFiles, NextFiles, PTL DEF Spec
  <1>3. Spec => []TimesOK
    BY <1>1, <1>2, InitTimes, NextTimes, PTL DEF Spec
  <1>4. Spec => []CreatedIsKept
    BY <1>1, InitKept, NextKept, PTL DEF Spec
  <1>5. Spec => []SingleOK
    BY <1>1, <1>2, <1>3, InitSingle, NextSingle, PTL DEF Spec
  <1> QED
    BY <1>1, <1>2, <1>3, <1>4, <1>5, PTL DEF IInv, Typing, FilesOK, SingleOK

\* Every variable keeps its type under every operation of the queue.
THEOREM TypeCorrect == Spec => []TypeOK
  BY Inductive, PTL DEF IInv

\* Claims, unclaims and orphan sweeps of any number of concurrent Drains never
\* leave two files for one nudge.
THEOREM OneFile == Spec => []OneFilePerNudge
  BY Inductive, PTL DEF IInv

\* No interleaving of Enqueue and Drain, crashes and failing renames included,
\* makes an accepted nudge vanish without a trace.
THEOREM NothingLostSilently == Spec => []NoSilentLoss
  <1>1. CreatedIsKept => NoSilentLoss
    BY DEF CreatedIsKept, Kept, NoSilentLoss, Accepted
  <1> QED
    BY <1>1, Inductive, PTL DEF IInv

\* Rename-then-process is at-most-once delivery for every nudge no older than
\* the orphan threshold, for any number of concurrent Drains.
THEOREM AtMostOnce == Spec => []AtMostOnceWhileFresh
  BY Inductive, PTL DEF IInv
=============================================================================
