----------------------------- MODULE NudgeQueue -----------------------------
(***************************************************************************)
(* The per-session nudge queue, src/internal/nudge/queue.go: a directory   *)
(* of files that sender processes write (Enqueue) and hook processes empty *)
(* (Drain), with no lock between them.  Every file-system call that        *)
(* another process can observe is a step of its own.                       *)
(*                                                                         *)
(* A file name is a record [n, by]: nudge n's "<timestamp>-<hex>.json"     *)
(* when by = None, and "...json.claimed.<suffix>" with d's suffix when     *)
(* by = d.  Suffixes are random, so a claimed name that disappears never   *)
(* comes back; Snapshot entries for it are forgotten with it (Without).    *)
(***************************************************************************)
EXTENDS Integers, FiniteSets

CONSTANTS
    Nudges,         \* the Enqueue calls, one nudge each
    Drainers,       \* the processes that call Drain, again and again
    None,           \* "not claimed by anybody"
    MaxQueueDepth,  \* queue.go MaxQueueDepth
    StaleClaim,     \* queue.go staleClaimThreshold
    NormalTTL,      \* queue.go DefaultNormalTTL
    UrgentTTL,      \* queue.go DefaultUrgentTTL
    MaxTime,        \* bound: the clock stops here
    MaxFaults       \* bound: crashes and failing file-system calls

ASSUME NoneAssumption == None \notin Drainers
ASSUME LimitAssumption ==
    /\ MaxQueueDepth \in Nat \ {0}
    /\ StaleClaim \in Nat
    /\ NormalTTL \in Nat
    /\ UrgentTTL \in Nat
ASSUME BoundAssumption == MaxTime \in Nat /\ MaxFaults \in Nat

VARIABLES
    now,        \* the wall clock
    dir,        \* the file names in the queue directory
    body,       \* nudge -> what its file holds: os.WriteFile creates, then writes
    mtime,      \* nudge -> modification time of its file (kept by os.Rename)
    stamp,      \* nudge -> QueuedNudge.Timestamp
    expires,    \* nudge -> QueuedNudge.ExpiresAt
    spc,        \* nudge -> where its Enqueue call is
    dpc,        \* drainer -> where its Drain call is
    dnow,       \* drainer -> the running call's "now"
    snap,       \* drainer -> directory entries of ReadDir not yet visited
    cur,        \* drainer -> the nudge it has just claimed
    got,        \* drainer -> what ReadFile returned for it
    mem,        \* drainer -> the nudges appended to the result so far
    delivered,  \* nudge -> how often a Drain returned it (2: twice or more)
    fate,       \* nudge -> the ways in which it was given up
    faults      \* crashes and failing calls so far

senderVars  == <<body, mtime, stamp, expires, spc>>
drainVars   == <<dpc, dnow, snap, cur, got, mem>>
outcomeVars == <<delivered, fate>>
vars == <<now, dir, senderVars, drainVars, outcomeVars, faults>>

-----------------------------------------------------------------------------
Files == [n : Nudges, by : Drainers \cup {None}]
File(n, by) == [n |-> n, by |-> by]
Json == {f \in dir : f.by = None}

\* What is lost when a nudge's file is removed without being returned, or when
\* the process that had removed it dies.
Fates == {"malformed", "expired", "crashed", "dropped"}

TypeOK ==
    /\ now \in 0..MaxTime
    /\ dir \subseteq Files
    /\ body \in [Nudges -> {"none", "empty", "full"}]
    /\ mtime \in [Nudges -> 0..MaxTime]
    /\ stamp \in [Nudges -> 0..MaxTime]
    /\ expires \in [Nudges -> Nat]
    /\ spc \in [Nudges -> {"idle", "checked", "created", "ok", "full", "failed"}]
    /\ dpc \in [Drainers -> {"idle", "sweep", "claim", "read", "finish"}]
    /\ dnow \in [Drainers -> 0..MaxTime]
    /\ snap \in [Drainers -> SUBSET Files]
    /\ cur \in [Drainers -> Nudges \cup {None}]
    /\ got \in [Drainers -> {"none", "empty", "full"}]
    /\ mem \in [Drainers -> SUBSET Nudges]
    /\ delivered \in [Nudges -> 0..2]
    /\ fate \in [Nudges -> SUBSET Fates]
    /\ faults \in 0..MaxFaults

Init ==
    /\ now = 0
    /\ dir = {}
    /\ body = [n \in Nudges |-> "none"]
    /\ mtime = [n \in Nudges |-> 0]
    /\ stamp = [n \in Nudges |-> 0]
    /\ expires = [n \in Nudges |-> 0]
    /\ spc = [n \in Nudges |-> "idle"]
    /\ dpc = [d \in Drainers |-> "idle"]
    /\ dnow = [d \in Drainers |-> 0]
    /\ snap = [d \in Drainers |-> {}]
    /\ cur = [d \in Drainers |-> None]
    /\ got = [d \in Drainers |-> "none"]
    /\ mem = [d \in Drainers |-> {}]
    /\ delivered = [n \in Nudges |-> 0]
    /\ fate = [n \in Nudges |-> {}]
    /\ faults = 0

Tick ==
    /\ now < MaxTime
    /\ now' = now + 1
    /\ UNCHANGED <<dir, senderVars, drainVars, outcomeVars, faults>>

Fault == faults < MaxFaults /\ faults' = faults + 1

-----------------------------------------------------------------------------
(***************************************************************************)
(* Enqueue: read the depth, stamp the nudge, create the file, write it.    *)
(* No step of it is taken in the last StaleClaim + 1 ticks before the      *)
(* clock's bound, so that every orphaned claim can still grow stale.       *)
(***************************************************************************)
InHorizon == now + StaleClaim < MaxTime

\* The queue-full error: the depth check fails.
EnqueueReject(n) ==
    /\ spc[n] = "idle"
    /\ Cardinality(Json) >= MaxQueueDepth
    /\ spc' = [spc EXCEPT ![n] = "full"]
    /\ UNCHANGED <<now, dir, body, mtime, stamp, expires, drainVars, outcomeVars, faults>>

\* Mutant: the time-to-live is subtracted.
MutExpiryInThePast(n, ttl) ==
    /\ InHorizon
    /\ spc[n] = "idle"
    /\ Cardinality(Json) < MaxQueueDepth
    /\ spc' = [spc EXCEPT ![n] = "checked"]
    /\ stamp' = [stamp EXCEPT ![n] = now]
    /\ expires' = [expires EXCEPT ![n] = now - ttl]
    /\ UNCHANGED <<now, dir, body, mtime, drainVars, outcomeVars, faults>>

\* The depth check passes; the timestamp and the expiry are set.
EnqueueCheck(n, ttl) ==
    /\ InHorizon
    /\ spc[n] = "idle"
    /\ Cardinality(Json) < MaxQueueDepth
    /\ spc' = [spc EXCEPT ![n] = "checked"]
    /\ stamp' = [stamp EXCEPT ![n] = now]
    /\ expires' = [expires EXCEPT ![n] = now + ttl]
    /\ UNCHANGED <<now, dir, body, mtime, drainVars, outcomeVars, faults>>

\* os.WriteFile opens with O_CREATE: the name is visible, the file empty.
EnqueueCreate(n) ==
    /\ InHorizon
    /\ spc[n] = "checked"
    /\ spc' = [spc EXCEPT ![n] = "created"]
    /\ dir' = dir \cup {File(n, None)}
    /\ body' = [body EXCEPT ![n] = "empty"]
    /\ mtime' = [mtime EXCEPT ![n] = now]
    /\ UNCHANGED <<now, stamp, expires, drainVars, outcomeVars, faults>>

\* The write goes to the open file, whatever its name is now, or to nowhere if
\* it has been removed.  Enqueue returns nil.
EnqueueWrite(n) ==
    /\ InHorizon
    /\ spc[n] = "created"
    /\ spc' = [spc EXCEPT ![n] = "ok"]
    /\ body' = [body EXCEPT ![n] = "full"]
    /\ mtime' = [mtime EXCEPT ![n] = now]
    /\ UNCHANGED <<now, dir, stamp, expires, drainVars, outcomeVars, faults>>

\* The open or the write fails, or the sender is killed: Enqueue does not
\* return nil.  An empty file may stay behind.
EnqueueFail(n) ==
    /\ Fault
    /\ spc[n] \in {"checked", "created"}
    /\ spc' = [spc EXCEPT ![n] = "failed"]
    /\ UNCHANGED <<now, dir, body, mtime, stamp, expires, drainVars, outcomeVars>>

-----------------------------------------------------------------------------
(***************************************************************************)
(* Drain                                                                   *)
(***************************************************************************)
\* snap without a claimed name that has just ceased to exist.
Without(f) == [d \in Drainers |-> snap[d] \ {f}]

SnapClaims(d) == {f \in snap[d] : f.by # None}
SnapJson(d)   == {f \in snap[d] : f.by = None}

\* ReadDir, and time.Now() for the whole call.
DrainStart(d) ==
    /\ dpc[d] = "idle"
    /\ dir # {}
    /\ dpc' = [dpc EXCEPT ![d] = "sweep"]
    /\ dnow' = [dnow EXCEPT ![d] = now]
    /\ snap' = [snap EXCEPT ![d] = dir]
    /\ UNCHANGED <<now, dir, senderVars, cur, got, mem, outcomeVars, faults>>

\* Mutants: every claim counts as orphaned, or none does.
MutNoThreshold(d, f) == TRUE
MutNeverOrphaned(d, f) == FALSE

\* How old the claim f looks to d: the age of the file's contents, since a
\* rename leaves the modification time alone.
Orphaned(d, f) == dnow[d] - mtime[f.n] > StaleClaim

\* The sweep looks at a claim that is too young: it stays.
DrainSweepYoung(d, f) ==
    /\ dpc[d] = "sweep"
    /\ f \in SnapClaims(d)
    /\ ~Orphaned(d, f)
    /\ snap' = [snap EXCEPT ![d] = @ \ {f}]
    /\ UNCHANGED <<now, dir, senderVars, dpc, dnow, cur, got, mem, outcomeVars, faults>>

\* Mutants: the sweep copies the claim instead of renaming it, or deletes it.
MutCopyOrphan(d, f) ==
    /\ dpc[d] = "sweep"
    /\ f \in SnapClaims(d)
    /\ Orphaned(d, f)
    /\ dir' = dir \cup {File(f.n, None)}
    /\ snap' = [snap EXCEPT ![d] = @ \ {f}]
    /\ UNCHANGED <<now, senderVars, dpc, dnow, cur, got, mem, outcomeVars, faults>>

MutDeleteOrphan(d, f) ==
    /\ dpc[d] = "sweep"
    /\ f \in SnapClaims(d)
    /\ Orphaned(d, f)
    /\ dir' = dir \ {f}
    /\ snap' = Without(f)
    /\ UNCHANGED <<now, senderVars, dpc, dnow, cur, got, mem, outcomeVars, faults>>

\* The sweep takes a claim for orphaned and renames it back to .json.
DrainRequeue(d, f) ==
    /\ dpc[d] = "sweep"
    /\ f \in SnapClaims(d)
    /\ Orphaned(d, f)
    /\ dir' = (dir \ {f}) \cup {File(f.n, None)}
    /\ snap' = Without(f)
    /\ UNCHANGED <<now, senderVars, dpc, dnow, cur, got, mem, outcomeVars, faults>>

\* That rename fails: the claim is removed "as last resort".
DrainRequeueFail(d, f) ==
    /\ Fault
    /\ dpc[d] = "sweep"
    /\ f \in SnapClaims(d)
    /\ Orphaned(d, f)
    /\ dir' = dir \ {f}
    /\ snap' = Without(f)
    /\ fate' = [fate EXCEPT ![f.n] = @ \cup {"dropped"}]
    /\ UNCHANGED <<now, senderVars, dpc, dnow, cur, got, mem, delivered>>

DrainSweepDone(d) ==
    /\ dpc[d] = "sweep"
    /\ SnapClaims(d) = {}
    /\ dpc' = [dpc EXCEPT ![d] = "claim"]
    /\ UNCHANGED <<now, dir, senderVars, dnow, snap, cur, got, mem, outcomeVars, faults>>

\* Entries are visited by name, that is by timestamp; equal timestamps are
\* ordered by the random suffix.
IsNext(d, f) ==
    /\ f \in SnapJson(d)
    /\ \A g \in SnapJson(d) : stamp[f.n] <= stamp[g.n]

\* The claiming rename succeeds.
DrainClaim(d, f) ==
    /\ dpc[d] = "claim"
    /\ IsNext(d, f)
    /\ f \in dir
    /\ dir' = (dir \ {f}) \cup {File(f.n, d)}
    /\ snap' = [snap EXCEPT ![d] = @ \ {f}]
    /\ dpc' = [dpc EXCEPT ![d] = "read"]
    /\ cur' = [cur EXCEPT ![d] = f.n]
    /\ UNCHANGED <<now, senderVars, dnow, got, mem, outcomeVars, faults>>

\* ENOENT: somebody else has claimed or removed the file.
DrainClaimLost(d, f) ==
    /\ dpc[d] = "claim"
    /\ IsNext(d, f)
    /\ f \notin dir
    /\ snap' = [snap EXCEPT ![d] = @ \ {f}]
    /\ UNCHANGED <<now, dir, senderVars, dpc, dnow, cur, got, mem, outcomeVars, faults>>

\* The name under which d holds its current nudge.
ClaimPath(d) == File(cur[d], d)

\* d goes on to the next entry.
NextEntry(d) ==
    /\ dpc' = [dpc EXCEPT ![d] = "claim"]
    /\ cur' = [cur EXCEPT ![d] = None]
    /\ got' = [got EXCEPT ![d] = "none"]

DrainRead(d) ==
    /\ dpc[d] = "read"
    /\ ClaimPath(d) \in dir
    /\ dpc' = [dpc EXCEPT ![d] = "finish"]
    /\ got' = [got EXCEPT ![d] = body[cur[d]]]
    /\ UNCHANGED <<now, dir, senderVars, dnow, snap, cur, mem, outcomeVars, faults>>

\* The claim vanished between rename and read.
DrainReadVanished(d) ==
    /\ dpc[d] = "read"
    /\ ClaimPath(d) \notin dir
    /\ NextEntry(d)
    /\ UNCHANGED <<now, dir, senderVars, dnow, snap, mem, outcomeVars, faults>>

\* A transient read error: rename back, which may fail as well.
DrainReadError(d) ==
    /\ Fault
    /\ dpc[d] = "read"
    /\ ClaimPath(d) \in dir
    /\ NextEntry(d)
    /\ \/ /\ dir' = (dir \ {ClaimPath(d)}) \cup {File(cur[d], None)}
          /\ snap' = Without(ClaimPath(d))
       \/ UNCHANGED <<dir, snap>>
    /\ UNCHANGED <<now, senderVars, dnow, mem, outcomeVars>>

\* os.Remove(claimPath): a missing file is ignored; another failure leaves the
\* claim behind and only warns.
RemoveClaim(d) ==
    \/ /\ dir' = dir \ {ClaimPath(d)}
       /\ snap' = Without(ClaimPath(d))
       /\ UNCHANGED faults
    \/ Fault /\ UNCHANGED <<dir, snap>>

\* What was read does not parse.
DrainMalformed(d) ==
    /\ dpc[d] = "finish"
    /\ got[d] # "full"
    /\ NextEntry(d)
    /\ RemoveClaim(d)
    /\ fate' = [fate EXCEPT ![cur[d]] = @ \cup {"malformed"}]
    /\ UNCHANGED <<now, senderVars, dnow, mem, delivered>>

DrainExpired(d) ==
    /\ dpc[d] = "finish"
    /\ got[d] = "full"
    /\ dnow[d] > expires[cur[d]]
    /\ NextEntry(d)
    /\ RemoveClaim(d)
    /\ fate' = [fate EXCEPT ![cur[d]] = @ \cup {"expired"}]
    /\ UNCHANGED <<now, senderVars, dnow, mem, delivered>>

DrainAppend(d) ==
    /\ dpc[d] = "finish"
    /\ got[d] = "full"
    /\ dnow[d] <= expires[cur[d]]
    /\ NextEntry(d)
    /\ RemoveClaim(d)
    /\ mem' = [mem EXCEPT ![d] = @ \cup {cur[d]}]
    /\ UNCHANGED <<now, senderVars, dnow, outcomeVars>>

\* Drain returns; the hook injects what it returned.
DrainReturn(d) ==
    /\ dpc[d] = "claim"
    /\ SnapJson(d) = {}
    /\ dpc' = [dpc EXCEPT ![d] = "idle"]
    /\ delivered' = [n \in Nudges |-> IF n \in mem[d] /\ delivered[n] < 2
                                       THEN delivered[n] + 1 ELSE delivered[n]]
    /\ dnow' = [dnow EXCEPT ![d] = 0]
    /\ mem' = [mem EXCEPT ![d] = {}]
    /\ UNCHANGED <<now, dir, senderVars, snap, cur, got, fate, faults>>

\* The draining process dies.  What it had claimed stays claimed; what it had
\* removed is gone with it.
DrainCrash(d) ==
    /\ Fault
    /\ dpc[d] # "idle"
    /\ dpc' = [dpc EXCEPT ![d] = "idle"]
    /\ dnow' = [dnow EXCEPT ![d] = 0]
    /\ snap' = [snap EXCEPT ![d] = {}]
    /\ cur' = [cur EXCEPT ![d] = None]
    /\ got' = [got EXCEPT ![d] = "none"]
    /\ mem' = [mem EXCEPT ![d] = {}]
    /\ fate' = [n \in Nudges |-> IF n \in mem[d] THEN fate[n] \cup {"crashed"} ELSE fate[n]]
    /\ UNCHANGED <<now, dir, senderVars, delivered>>

-----------------------------------------------------------------------------
Enqueue(n) ==
    \/ EnqueueReject(n)
    \/ \E ttl \in {NormalTTL, UrgentTTL} : EnqueueCheck(n, ttl)
    \/ EnqueueCreate(n)
    \/ EnqueueWrite(n)
    \/ EnqueueFail(n)

\* The steps of a Drain that go well.
DrainStep(d) ==
    \/ DrainStart(d)
    \/ \E f \in Files : DrainSweepYoung(d, f) \/ DrainRequeue(d, f)
    \/ DrainSweepDone(d)
    \/ \E f \in Files : DrainClaim(d, f) \/ DrainClaimLost(d, f)
    \/ DrainRead(d)
    \/ DrainReadVanished(d)
    \/ DrainMalformed(d)
    \/ DrainExpired(d)
    \/ DrainAppend(d)
    \/ DrainReturn(d)

DrainFault(d) ==
    \/ \E f \in Files : DrainRequeueFail(d, f)
    \/ DrainReadError(d)
    \/ DrainCrash(d)

Next ==
    \/ Tick
    \/ \E n \in Nudges : Enqueue(n)
    \/ \E d \in Drainers : DrainStep(d) \/ DrainFault(d)

Spec == Init /\ [][Next]_vars

\* Time passes, a running Drain keeps running, and the agent keeps reaching
\* turn boundaries, at which its hook calls Drain again.
Fairness == WF_vars(Tick) /\ \A d \in Drainers : WF_vars(DrainStep(d))
FairSpec == Spec /\ Fairness

-----------------------------------------------------------------------------
(***************************************************************************)
(* Properties                                                              *)
(***************************************************************************)
Accepted(n) == spc[n] = "ok"
OnDisk(n) == \E f \in dir : f.n = n
Resolved(n) == delivered[n] > 0 \/ fate[n] # {}

\* The drain calls that hold n: between the claiming rename and the next
\* entry, or with n among the results.
Working(d, n) == dpc[d] \in {"read", "finish"} /\ cur[d] = n
Holders(n) == {d \in Drainers : Working(d, n) \/ n \in mem[d]}

\* Enqueue, Drain's claim, its unclaim and its orphan sweep only ever rename a
\* nudge's file: there are never two files for one nudge.
OneFilePerNudge == \A f, g \in dir : f.n = g.n => f = g

\* Rename, requeue and remove never lose an accepted nudge silently: it is on
\* disk, or in the result of a running Drain, or a Drain has returned it, or it
\* was given up in one of the ways Drain admits to (malformed, expired, the
\* last-resort remove, a crash after the remove).
NoSilentLoss ==
    \A n \in Nudges : Accepted(n) => OnDisk(n) \/ Resolved(n) \/ \E d \in Drainers : n \in mem[d]

\* Rename-then-process delivers a nudge at most once, however many Drains,
\* crashes and failing removes there are, as long as the nudge is no older than
\* the threshold of the orphan sweep.
Fresh(n) == now - stamp[n] <= StaleClaim
AtMostOnceWhileFresh == \A n \in Nudges : Fresh(n) =>
    /\ delivered[n] <= 1
    /\ Holders(n) # {} => delivered[n] = 0
    /\ \A d, e \in Holders(n) : d = e

\* Every accepted nudge is eventually returned by a Drain or given up, crashed
\* drainers and their orphaned claims included.
EventuallyResolved == \A n \in Nudges : Accepted(n) ~> Resolved(n)

-----------------------------------------------------------------------------
(***************************************************************************)
(* The inductive invariant behind the proofs (NudgeQueue_proofs).          *)
(***************************************************************************)
\* An Enqueue that has not created its file has left no trace.
BeforeCreate(n) == spc[n] \in {"idle", "checked", "full"}
Bodyless  == \A n \in Nudges : BeforeCreate(n) => body[n] = "none"
Untouched == \A n \in Nudges : BeforeCreate(n) => Holders(n) = {} /\ delivered[n] = 0

\* Files have been created, and a claim that a sweep still has to visit exists.
FilesCreated ==
    /\ \A f \in dir : body[f.n] # "none"
    /\ \A d \in Drainers : \A f \in snap[d] : f.by # None => f \in dir

\* A drainer past its claim has a current nudge.
CurrentOK == \A d \in Drainers : dpc[d] \in {"read", "finish"} => cur[d] \in Nudges

\* Clocks: nothing is stamped in the future, and a file is no older than the
\* timestamp in it.
TimesOK ==
    /\ \A d \in Drainers : dnow[d] <= now
    /\ \A n \in Nudges : stamp[n] <= now /\ (body[n] # "none" => stamp[n] <= mtime[n])

\* While a nudge is fresh its unclaimed file means that nobody has it, and a
\* drainer that is reading it has not appended it already.
FreshOK == \A n \in Nudges : Fresh(n) =>
    /\ File(n, None) \in dir => Holders(n) = {} /\ delivered[n] = 0
    /\ \A d \in Drainers : Working(d, n) => n \notin mem[d]

\* A created nudge is somewhere.
Kept(n) == OnDisk(n) \/ Resolved(n) \/ \E d \in Drainers : n \in mem[d]
CreatedIsKept == \A n \in Nudges : spc[n] \in {"created", "ok"} => Kept(n)

IInv ==
    /\ TypeOK /\ OneFilePerNudge /\ Bodyless /\ Untouched /\ FilesCreated /\ CurrentOK
    /\ TimesOK /\ FreshOK /\ AtMostOnceWhileFresh /\ CreatedIsKept
=============================================================================
