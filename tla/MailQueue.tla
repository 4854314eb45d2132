----------------------------- MODULE MailQueue -----------------------------
(***************************************************************************)
(* Two-phase delivery and work queues of the mail system:                  *)
(* src/internal/cmd/mail_queue.go (gt mail claim, gt mail release) and     *)
(* src/internal/mail/delivery.go (the acknowledgement labels).             *)
(*                                                                         *)
(* A message is a bead and all of its state is labels.  One bd command is  *)
(* one atomic step on the labels; between two bd commands of one gt        *)
(* process every other worker may run.  bd lists labels in lexicographic   *)
(* order and the readers keep the last label of a kind, so that they see   *)
(* the greatest one: workers are numbered by the order of their            *)
(* identities and time stamps, which have a resolution of one second, by   *)
(* the clock.  Messages are numbered by their creation time.               *)
(***************************************************************************)
EXTENDS Integers, FiniteSets

CONSTANTS
    Workers,    \* the identities that run gt mail commands, one command at a time
    Messages,   \* the messages
    None,       \* "no worker", "no label"
    MaxTime,    \* bound: the clock stops here
    MaxFaults   \* bound: killed gt processes and failing bd commands

ASSUME WorkerAssumption ==
    /\ IsFiniteSet(Workers) /\ Workers \subseteq Nat
    /\ None \notin Nat
ASSUME MessageAssumption == Messages \subseteq Nat
ASSUME BoundAssumption == MaxTime \in Nat /\ MaxFaults \in Nat

VARIABLES
    addressee,  \* message -> its recipient, None for a message to the queue
    now,        \* the wall clock, in seconds
    claimedBy,  \* message -> the workers of its claimed-by: labels
    claimedAt,  \* message -> the times of its claimed-at: labels
    ackedBy,    \* message -> the workers of its delivery-acked-by: labels
    ackedAt,    \* message -> the times of its delivery-acked-at: labels
    acked,      \* message -> whether it has the label delivery:acked
    pc,         \* worker -> where its gt command is
    todo,       \* worker -> the listed messages it has not tried yet
    cur,        \* worker -> the message its command is about
    seen,       \* worker -> the claim labels read by releaseQueueMessage
    stamp,      \* worker -> the time stamp its acknowledgement writes
    held,       \* worker -> the messages gt mail claim has handed to it
    crossed,    \* history: messages claimed over a winner, or whose claim
                \* labels were taken off by somebody else
    hurt,       \* history: messages with an interrupted command or with two
                \* releases at once
    restamped,  \* history: messages acknowledged without a look at the labels,
                \* or twice at once for one address
    faults      \* killed processes and failing commands so far

claimVars == <<claimedBy, claimedAt>>
ackVars   == <<ackedBy, ackedAt, acked>>
procVars  == <<pc, todo, cur, seen, stamp>>
histVars  == <<crossed, hurt, restamped>>
vars == <<addressee, now, claimVars, ackVars, procVars, held, histVars, faults>>

-----------------------------------------------------------------------------
Queued == {m \in Messages : addressee[m] = None}
Times  == 0..MaxTime
Pcs    == {"idle", "claim", "verify", "ack_read", "ack_by", "ack_at", "ack",
           "lose_read", "lose_remove", "rel_read", "rel_remove"}

\* The last label of a kind, as the parsers leave it.
Last(S) == IF S = {} THEN None ELSE CHOOSE x \in S : \A y \in S : y <= x

\* queueMessageInfo.ClaimedBy.
Claimant(m) == Last(claimedBy[m])

\* A queue message that listUnclaimedQueueMessages returns.
Unclaimed(m) == claimedBy[m] = {} /\ claimedAt[m] = {}

NoClaim == [by |-> None, at |-> None]

Holders(m) == {w \in Workers : m \in held[w]}

\* The workers whose verification has succeeded.
Winners(m) ==
    Holders(m) \cup {w \in Workers : cur[w] = m /\ pc[w] \in {"ack_read", "ack_by", "ack_at", "ack"}}

TypeOK ==
    /\ addressee \in [Messages -> Workers \cup {None}]
    /\ now \in Times
    /\ claimedBy \in [Messages -> SUBSET Workers]
    /\ claimedAt \in [Messages -> SUBSET Times]
    /\ ackedBy \in [Messages -> SUBSET Workers]
    /\ ackedAt \in [Messages -> SUBSET Times]
    /\ acked \in [Messages -> BOOLEAN]
    /\ pc \in [Workers -> Pcs]
    /\ todo \in [Workers -> SUBSET Queued]
    /\ cur \in [Workers -> Messages \cup {None}]
    /\ seen \in [Workers -> [by : Workers \cup {None}, at : Times \cup {None}]]
    /\ stamp \in [Workers -> Times]
    /\ held \in [Workers -> SUBSET Queued]
    /\ crossed \subseteq Messages
    /\ hurt \subseteq Messages
    /\ restamped \subseteq Messages
    /\ faults \in 0..MaxFaults

\* The messages have just been created: they have the label delivery:pending, which
\* nobody removes, and no claim or acknowledgement.
Init ==
    /\ addressee \in [Messages -> Workers \cup {None}]
    /\ now = 0
    /\ claimedBy = [m \in Messages |-> {}]
    /\ claimedAt = [m \in Messages |-> {}]
    /\ ackedBy = [m \in Messages |-> {}]
    /\ ackedAt = [m \in Messages |-> {}]
    /\ acked = [m \in Messages |-> FALSE]
    /\ pc = [w \in Workers |-> "idle"]
    /\ todo = [w \in Workers |-> {}]
    /\ cur = [w \in Workers |-> None]
    /\ seen = [w \in Workers |-> NoClaim]
    /\ stamp = [w \in Workers |-> 0]
    /\ held = [w \in Workers |-> {}]
    /\ crossed = {}
    /\ hurt = {}
    /\ restamped = {}
    /\ faults = 0

Tick ==
    /\ now < MaxTime
    /\ now' = now + 1
    /\ UNCHANGED <<claimVars, ackVars, procVars, held, histVars, faults>>

Goto(w, from, to) == pc[w] = from /\ pc' = [pc EXCEPT ![w] = to]

\* The end of a command's work on a message: its local variables go.
Forget(w) ==
    /\ cur' = [cur EXCEPT ![w] = None]
    /\ seen' = [seen EXCEPT ![w] = NoClaim]
    /\ stamp' = [stamp EXCEPT ![w] = 0]

Fault == faults < MaxFaults /\ faults' = faults + 1

-----------------------------------------------------------------------------
(***************************************************************************)
(* gt mail claim: list, then for each message, oldest first, add the claim *)
(* labels, read them back, and acknowledge or give the claim up.           *)
(***************************************************************************)
List(w) ==
    LET found == {m \in Queued : Unclaimed(m)} IN
    /\ found # {}
    /\ Goto(w, "idle", "claim")
    /\ todo' = [todo EXCEPT ![w] = found]
    /\ UNCHANGED <<now, claimVars, ackVars, cur, seen, stamp, held, histVars, faults>>

Claim(w) ==
    \E m \in todo[w] :
        /\ \A k \in todo[w] : m <= k
        /\ Goto(w, "claim", "verify")
        /\ cur' = [cur EXCEPT ![w] = m]
        /\ claimedBy' = [claimedBy EXCEPT ![m] = @ \cup {w}]
        /\ claimedAt' = [claimedAt EXCEPT ![m] = @ \cup {now}]
        /\ crossed' = IF Winners(m) = {} THEN crossed ELSE crossed \cup {m}
        /\ UNCHANGED <<now, ackVars, todo, seen, stamp, held, hurt, restamped, faults>>

\* Mutant: the claim is taken for granted, there is no post-claim verification.
MutUnverifiedClaim(w) ==
    /\ Goto(w, "verify", "ack_read")
    /\ UNCHANGED <<now, claimVars, ackVars, todo, cur, seen, stamp, held, histVars, faults>>

\* The post-claim verification: the last claimed-by label is the caller's.
VerifyWon(w) ==
    /\ Goto(w, "verify", "ack_read")
    /\ Claimant(cur[w]) = w
    /\ UNCHANGED <<now, claimVars, ackVars, todo, cur, seen, stamp, held, histVars, faults>>

\* It is somebody else's.
VerifyLost(w) ==
    /\ Goto(w, "verify", "lose_read")
    /\ Claimant(cur[w]) # w
    /\ UNCHANGED <<now, claimVars, ackVars, todo, cur, seen, stamp, held, histVars, faults>>

\* After a lost claim: the next candidate, or the end of the command.
Proceed(w, from) ==
    /\ todo' = [todo EXCEPT ![w] = @ \ {cur[w]}]
    /\ Goto(w, from, IF todo[w] = {cur[w]} THEN "idle" ELSE "claim")
    /\ Forget(w)

-----------------------------------------------------------------------------
(***************************************************************************)
(* releaseQueueMessage, for a claim that lost and for gt mail release: it  *)
(* reads the claim labels again and removes the ones it has read, whoever  *)
(* they belong to.                                                         *)
(***************************************************************************)
Releasing(m) ==
    {w \in Workers : pc[w] \in {"lose_remove", "rel_remove"} /\ cur[w] = m}

ReadClaim(w, from, to) ==
    LET m == cur[w] IN
    /\ Goto(w, from, to)
    /\ seen' = [seen EXCEPT ![w] = [by |-> Claimant(m), at |-> Last(claimedAt[m])]]
    /\ hurt' = IF Releasing(m) = {} THEN hurt ELSE hurt \cup {m}
    /\ UNCHANGED <<now, claimVars, ackVars, todo, cur, stamp, held, crossed, restamped, faults>>

RemoveLabels(w) ==
    LET m == cur[w] IN
    /\ claimedBy' = [claimedBy EXCEPT ![m] = @ \ {seen[w].by}]
    /\ claimedAt' = [claimedAt EXCEPT ![m] = @ \ {seen[w].at}]
    /\ crossed' = IF seen[w].by \in {w, None} THEN crossed ELSE crossed \cup {m}

LoseRead(w) == ReadClaim(w, "lose_read", "lose_remove")

\* Mutant: a lost claim leaves its labels on the message.
MutKeepStaleLabels(w) ==
    /\ Proceed(w, "lose_remove")
    /\ UNCHANGED <<now, claimVars, ackVars, held, histVars, faults>>

LoseRemove(w) ==
    /\ Proceed(w, "lose_remove")
    /\ RemoveLabels(w)
    /\ UNCHANGED <<now, ackVars, held, hurt, restamped, faults>>

\* The release fails: a warning, and on to the next candidate.
LoseFail(w) ==
    /\ Fault
    /\ \/ Proceed(w, "lose_read")
       \/ Proceed(w, "lose_remove")
    /\ hurt' = hurt \cup {cur[w]}
    /\ UNCHANGED <<now, claimVars, ackVars, held, crossed, restamped>>

\* gt mail release: refused unless the caller is the claimant.
Release(w, m) ==
    /\ m \in held[w]
    /\ Claimant(m) = w
    /\ Goto(w, "idle", "rel_read")
    /\ cur' = [cur EXCEPT ![w] = m]
    /\ UNCHANGED <<now, claimVars, ackVars, todo, seen, stamp, held, histVars, faults>>

RelRead(w) == ReadClaim(w, "rel_read", "rel_remove")

RelRemove(w) ==
    /\ Goto(w, "rel_remove", "idle")
    /\ RemoveLabels(w)
    /\ held' = [held EXCEPT ![w] = @ \ {cur[w]}]
    /\ Forget(w)
    /\ UNCHANGED <<now, ackVars, todo, hurt, restamped, faults>>

-----------------------------------------------------------------------------
(***************************************************************************)
(* AcknowledgeDeliveryBead: read the labels, then three label writes.      *)
(***************************************************************************)
\* gt mail inbox or check for the address of a direct message still pending.  The
\* address is a parameter (--identity, an argument) or the caller's: any number of
\* processes may acknowledge for one address at once.
Inbox(w, m) ==
    /\ addressee[m] # None /\ ~acked[m]
    /\ Goto(w, "idle", "ack_read")
    /\ cur' = [cur EXCEPT ![w] = m]
    /\ UNCHANGED <<now, claimVars, ackVars, todo, seen, stamp, held, histVars, faults>>

\* The identity in the labels: the address, or the worker that has claimed m.
Acker(w, m) == IF addressee[m] = None THEN w ELSE addressee[m]

\* Mutant: an earlier stamp is used again without a look whether there is one.
MutReuseAnyStamp(w, m) == Last(ackedAt[m])

\* Mutant: the labels that are there are not consulted.
MutFreshStamp(w, m) == now

\* The stamp of an earlier acknowledgement by the same identity alone is used again.
StampFor(w, m) ==
    IF ackedBy[m] = {Acker(w, m)} /\ Cardinality(ackedAt[m]) = 1
    THEN CHOOSE t \in ackedAt[m] : TRUE
    ELSE now

\* Another process has a stamp for the same message and address, not yet written.
Overlapped(w, m) ==
    /\ addressee[m] # None
    /\ \E v \in Workers \ {w} : cur[v] = m /\ pc[v] \in {"ack_by", "ack_at"}

AckRead(w) ==
    /\ Goto(w, "ack_read", "ack_by")
    /\ stamp' = [stamp EXCEPT ![w] = StampFor(w, cur[w])]
    /\ restamped' = IF Overlapped(w, cur[w]) THEN restamped \cup {cur[w]} ELSE restamped
    /\ UNCHANGED <<now, claimVars, ackVars, todo, cur, seen, held, crossed, hurt, faults>>

\* The read fails: a fresh stamp, and on.
AckReadFail(w) ==
    /\ Fault
    /\ Goto(w, "ack_read", "ack_by")
    /\ stamp' = [stamp EXCEPT ![w] = now]
    /\ restamped' = IF StampFor(w, cur[w]) = now /\ ~Overlapped(w, cur[w])
                    THEN restamped ELSE restamped \cup {cur[w]}
    /\ UNCHANGED <<now, claimVars, ackVars, todo, cur, seen, held, crossed, hurt>>

AckBy(w) ==
    /\ Goto(w, "ack_by", "ack_at")
    /\ ackedBy' = [ackedBy EXCEPT ![cur[w]] = @ \cup {Acker(w, cur[w])}]
    /\ UNCHANGED <<now, claimVars, ackedAt, acked, todo, cur, seen, stamp, held, histVars, faults>>

\* Mutant: delivery:acked is written before the time stamp.
MutAckFirst(w) ==
    /\ Goto(w, "ack_at", "ack")
    /\ acked' = [acked EXCEPT ![cur[w]] = TRUE]
    /\ UNCHANGED <<now, claimVars, ackedBy, ackedAt, todo, cur, seen, stamp, held, histVars, faults>>

AckAt(w) ==
    /\ Goto(w, "ack_at", "ack")
    /\ ackedAt' = [ackedAt EXCEPT ![cur[w]] = @ \cup {stamp[w]}]
    /\ UNCHANGED <<now, claimVars, ackedBy, acked, todo, cur, seen, stamp, held, histVars, faults>>

\* The command ends; gt mail claim has handed the message to its caller.
HandOver(w) ==
    /\ held' = IF addressee[cur[w]] = None THEN [held EXCEPT ![w] = @ \cup {cur[w]}] ELSE held
    /\ todo' = [todo EXCEPT ![w] = {}]
    /\ Forget(w)

Ack(w) ==
    /\ Goto(w, "ack", "idle")
    /\ acked' = [acked EXCEPT ![cur[w]] = TRUE]
    /\ HandOver(w)
    /\ UNCHANGED <<now, claimVars, ackedBy, ackedAt, histVars, faults>>

\* A label write fails: the acknowledgement is cut short, the claim stands.
AckFail(w) ==
    /\ Fault
    /\ \E at \in {"ack_by", "ack_at", "ack"} : Goto(w, at, "idle")
    /\ HandOver(w)
    /\ UNCHANGED <<now, claimVars, ackVars, histVars>>

\* The process is killed, or gt mail claim or release returns an error.
Crash(w) ==
    /\ Fault
    /\ pc[w] # "idle"
    /\ pc' = [pc EXCEPT ![w] = "idle"]
    /\ todo' = [todo EXCEPT ![w] = {}]
    /\ hurt' = hurt \cup (({cur[w]} \cap Queued) \ held[w])
    /\ Forget(w)
    /\ UNCHANGED <<now, claimVars, ackVars, held, crossed, restamped>>

-----------------------------------------------------------------------------
Step(w) ==
    \/ Claim(w) \/ VerifyWon(w) \/ VerifyLost(w)
    \/ LoseRead(w) \/ LoseRemove(w) \/ LoseFail(w)
    \/ RelRead(w) \/ RelRemove(w)
    \/ AckRead(w) \/ AckReadFail(w) \/ AckBy(w) \/ AckAt(w) \/ Ack(w) \/ AckFail(w)
    \/ Crash(w)

Next ==
    /\ \/ Tick
       \/ \E w \in Workers :
            \/ List(w)
            \/ Step(w)
            \/ \E m \in Messages : Release(w, m) \/ Inbox(w, m)
    /\ UNCHANGED addressee

Spec == Init /\ [][Next]_vars

-----------------------------------------------------------------------------
(***************************************************************************)
(* Properties                                                              *)
(***************************************************************************)
\* The acknowledgement is crash safe (DeliveryAckLabelSequence: "state remains
\* pending until the final ack label write succeeds"): a message that parses as
\* acked names its acker and its time, whichever processes died, failed or
\* overlapped between the label writes.
AckedIsAttributed ==
    \A m \in Messages : acked[m] => ackedBy[m] # {} /\ ackedAt[m] # {}

\* Retries of an acknowledgement are idempotent (DeliveryAckLabelSequenceIdempotent:
\* "retries produce the exact same label set instead of appending duplicate
\* timestamps"): as long as one identity alone has acknowledged a message it has at
\* most one time stamp, wherever earlier attempts died.  Two acknowledgements for
\* one address at once, or a failed read of the labels, do write a second one.
OneStampPerSoleAcker ==
    \A m \in Messages \ restamped :
        Cardinality(ackedBy[m]) = 1 => Cardinality(ackedAt[m]) <= 1

\* What the post-claim verification of gt mail claim does achieve: claims written
\* before any of them was verified have one winner.  Two workers are handed the same
\* message only if one claimed it after the other's verification, or if somebody's
\* release took off a claim that was not his.
OneHolderUnlessCrossed ==
    \A m \in Queued \ crossed : Cardinality(Holders(m)) <= 1

\* Giving up a lost claim must not take the message out of the queue: a message that
\* gt mail claim does not list is in somebody's hands or some command is still
\* working on it, unless a command was interrupted or two releases overlapped.
NotStranded ==
    \A m \in Queued \ hurt :
        \/ Unclaimed(m)
        \/ Holders(m) # {}
        \/ \E w \in Workers : cur[w] = m
=============================================================================
