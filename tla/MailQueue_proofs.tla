------------------------- MODULE MailQueue_proofs -------------------------
(***************************************************************************)
(* Proofs about MailQueue, for any finite set of workers, any messages and *)
(* any bounds: types, the acknowledgement labels, the one holder of a      *)
(* message, and that no message is stranded.                               *)
(***************************************************************************)
EXTENDS MailQueue, FiniteSetTheorems, WellFoundedInduction, TLAPS

-----------------------------------------------------------------------------
(***************************************************************************)
(* The greatest label.                                                     *)
(***************************************************************************)
\* A finite set of numbers that is not empty has a greatest element: a least set
\* without one would have a smaller subset without one.
LEMMA MaxExists ==
  ASSUME NEW S, S \subseteq Nat, IsFiniteSet(S), S # {}
  PROVE  \E x \in S : \A y \in S : y <= x
  <1> DEFINE HasMax(T) == \E x \in T : \A y \in T : y <= x
             Bad == {T \in SUBSET S : T # {} /\ ~HasMax(T)}
  <1>1. SUFFICES ASSUME Bad # {} PROVE FALSE
    OBVIOUS
  <1>2. IsWellFoundedOn(StrictSubsetOrdering(S), FiniteSubsetsOf(S))
    BY FS_StrictSubsetOrderingWellFounded, Zenon
  <1>3. FiniteSubsetsOf(S) = SUBSET S
    BY FS_FiniteSubsetsOfFinite, Zenon
  <1>4. PICK T \in Bad : \A U \in Bad : ~(<<U, T>> \in StrictSubsetOrdering(S))
    <2> HIDE DEF Bad
    <2>1. Bad \subseteq SUBSET S
      BY DEF Bad
    <2>2. IsWellFoundedOn(StrictSubsetOrdering(S), SUBSET S)
      BY <1>2, <1>3, Zenon
    <2>3. Bad # {}
      BY <1>1
    <2> QED
      BY <2>1, <2>2, <2>3, WFMin, Zenon
  <1>5. PICK x \in T : TRUE
    OBVIOUS
  <1>6. T \ {x} \notin Bad
    BY <1>4, <1>5 DEF StrictSubsetOrdering
  <1>7. CASE T \ {x} = {}
    BY <1>5, <1>7
  <1>8. CASE HasMax(T \ {x})
    <2>1. PICK y \in T \ {x} : \A z \in T \ {x} : z <= y
      BY <1>8
    <2>2. x \in Nat /\ y \in Nat /\ \A z \in T : z \in Nat
      BY <1>5
    <2>3. HasMax(T)
      <3>1. CASE x <= y
        BY <2>1, <2>2, <3>1
      <3>2. CASE y <= x
        BY <1>5, <2>1, <2>2, <3>2
      <3> QED
        BY <2>2, <3>1, <3>2
    <2> QED
      BY <2>3
  <1> QED
    BY <1>6, <1>7, <1>8

\* What the label parsers return: the greatest label, None if there is none.
LEMMA LastProperties ==
  ASSUME NEW S, S \subseteq Nat, IsFiniteSet(S)
  PROVE  /\ S = {} => Last(S) = None
         /\ S # {} => Last(S) \in S /\ \A y \in S : y <= Last(S)
  <1>1. CASE S = {}
    BY <1>1 DEF Last
  <1>2. CASE S # {}
    <2>1. \E x \in S : \A y \in S : y <= x
      BY <1>2, MaxExists
    <2> QED
      BY <1>2, <2>1 DEF Last
  <1> QED
    BY <1>1, <1>2

\* Label sets are finite.
LEMMA LabelsFinite ==
  ASSUME TypeOK, NEW m \in Messages
  PROVE  /\ IsFiniteSet(claimedBy[m]) /\ IsFiniteSet(claimedAt[m])
         /\ IsFiniteSet(ackedBy[m]) /\ IsFiniteSet(ackedAt[m])
  <1>1. IsFiniteSet(Workers)
    BY WorkerAssumption
  <1>2. IsFiniteSet(Times)
    BY FS_Interval, BoundAssumption DEF Times
  <1>3. /\ claimedBy[m] \in SUBSET Workers /\ claimedAt[m] \in SUBSET Times
        /\ ackedBy[m] \in SUBSET Workers /\ ackedAt[m] \in SUBSET Times
    BY DEF TypeOK
  <1> QED
    BY <1>1, <1>2, <1>3, FS_Subset

\* The claim that releaseQueueMessage reads is on the message, if there is any.
LEMMA ClaimRead ==
  ASSUME TypeOK, NEW m \in Messages
  PROVE  /\ claimedBy[m] = {} => Claimant(m) = None
         /\ claimedBy[m] # {} => Claimant(m) \in claimedBy[m] /\ \A v \in claimedBy[m] : v <= Claimant(m)
         /\ claimedAt[m] = {} => Last(claimedAt[m]) = None
         /\ claimedAt[m] # {} => Last(claimedAt[m]) \in claimedAt[m]
  <1>1. claimedBy[m] \subseteq Nat /\ claimedAt[m] \subseteq Nat
    <2>1. claimedBy[m] \subseteq Workers /\ claimedAt[m] \subseteq Times
      BY DEF TypeOK
    <2>2. Times \subseteq Nat
      BY BoundAssumption DEF Times
    <2> QED
      BY <2>1, <2>2, WorkerAssumption
  <1> QED
    BY <1>1, LabelsFinite, LastProperties DEF Claimant

LEMMA VerifiedIsLast ==
  ASSUME TypeOK, NEW m \in Messages, NEW w \in Workers, Claimant(m) = w
  PROVE  w \in claimedBy[m] /\ \A u \in claimedBy[m] : u <= w
  <1>1. claimedBy[m] # {}
    BY ClaimRead, WorkerAssumption
  <1>2. Claimant(m) \in claimedBy[m] /\ \A v \in claimedBy[m] : v <= Claimant(m)
    BY <1>1, ClaimRead
  <1> QED
    BY <1>2

\* An acknowledgement's stamp is the time of the clock or one that is on the message.
LEMMA StampType ==
  ASSUME TypeOK, NEW w, NEW m \in Messages
  PROVE  StampFor(w, m) \in Times
  <1>1. ackedAt[m] \subseteq Times /\ now \in Times
    BY DEF TypeOK
  <1>2. Cardinality(ackedAt[m]) = 1 => ackedAt[m] # {}
    BY FS_EmptySet
  <1> QED
    BY <1>1, <1>2 DEF StampFor

-----------------------------------------------------------------------------
(***************************************************************************)
(* The typing layer: types, and what a command at a step is working on.    *)
(***************************************************************************)
Commands ==
    \A w \in Workers :
        /\ pc[w] \in {"idle", "claim"} <=> cur[w] = None
        /\ pc[w] \in {"verify", "lose_read", "lose_remove"} => cur[w] \in todo[w]
        /\ pc[w] \in {"rel_read", "rel_remove"} => cur[w] \in held[w]
Typing == TypeOK /\ Commands

LEMMA InitTyping == Init => Typing
  <1> SUFFICES ASSUME Init PROVE Typing
    OBVIOUS
  <1> USE WorkerAssumption, BoundAssumption DEF Init
  <1>1. TypeOK
    BY DEF TypeOK, Times, Pcs, Queued, NoClaim
  <1>2. Commands
    BY DEF Commands
  <1> QED
    BY <1>1, <1>2 DEF Typing

LEMMA NextTyping == Typing /\ [Next]_vars => Typing'
  <1> SUFFICES ASSUME Typing, [Next]_vars PROVE Typing'
    OBVIOUS
  <1> USE WorkerAssumption, MessageAssumption, BoundAssumption
  <1> USE DEF Typing, TypeOK, Commands, Pcs, claimVars, ackVars, procVars, histVars, Goto
  <1>a. addressee' = addressee /\ Queued' = Queued
    BY DEF Next, vars, Queued
  <1>b. 0 \in Times /\ NoClaim \in [by : Workers \cup {None}, at : Times \cup {None}]
    BY DEF Times, NoClaim
  <1> USE <1>a, <1>b
  <1>1. CASE Tick
    BY <1>1 DEF Tick, Times
  <1>2. ASSUME NEW w \in Workers, List(w) PROVE Typing'
    BY <1>2 DEF List, Queued
  <1>3. ASSUME NEW w \in Workers, Step(w) PROVE Typing'
    <2>1. CASE Claim(w)
      <3> PICK m \in todo[w] : Claim(w)!(m)
        BY <2>1 DEF Claim
      <3>1. m \in Messages /\ m \in Queued
        BY DEF Queued
      <3>2. TypeOK'
        BY <3>1
      <3>3. Commands'
        BY <3>1
      <3> QED
        BY <3>2, <3>3
    <2>2. CASE VerifyWon(w)
      BY <2>2 DEF VerifyWon, Queued
    <2>3. CASE VerifyLost(w)
      BY <2>3 DEF VerifyLost
    <2>4. CASE LoseRead(w)
      <3>1. cur[w] \in Messages
        BY <2>4 DEF LoseRead, ReadClaim
      <3>2. Claimant(cur[w]) \in Workers \cup {None} /\ Last(claimedAt[cur[w]]) \in Times \cup {None}
        BY <3>1, ClaimRead
      <3> QED
        BY <2>4, <3>1, <3>2 DEF LoseRead, ReadClaim
    <2>5. CASE LoseRemove(w)
      <3>1. cur[w] \in Messages
        BY <2>5 DEF LoseRemove, Proceed, Forget, RemoveLabels
      <3>2. TypeOK'
        BY <2>5, <3>1 DEF LoseRemove, Proceed, Forget, RemoveLabels
      <3>3. Commands'
        BY <2>5, <3>1 DEF LoseRemove, Proceed, Forget, RemoveLabels
      <3> QED
        BY <3>2, <3>3
    <2>6. CASE LoseFail(w)
      <3>1. faults' \in 0..MaxFaults
        BY <2>6 DEF LoseFail, Fault
      <3>2. cur[w] \in Messages
        BY <2>6 DEF LoseFail, Proceed
      <3>3. /\ todo' \in [Workers -> SUBSET Queued] /\ pc' \in [Workers -> Pcs]
            /\ cur' \in [Workers -> Messages \cup {None}] /\ stamp' \in [Workers -> Times]
            /\ seen' \in [Workers -> [by : Workers \cup {None}, at : Times \cup {None}]]
        BY <2>6, <3>2 DEF LoseFail, Proceed, Forget
      <3>4. TypeOK'
        BY <2>6, <3>1, <3>2, <3>3 DEF LoseFail
      <3>5. Commands'
        BY <2>6, <3>2 DEF LoseFail, Proceed, Forget
      <3> QED
        BY <3>4, <3>5
    <2>7. CASE RelRead(w)
      <3>1. cur[w] \in Messages
        BY <2>7 DEF RelRead, ReadClaim
      <3>2. Claimant(cur[w]) \in Workers \cup {None} /\ Last(claimedAt[cur[w]]) \in Times \cup {None}
        BY <3>1, ClaimRead
      <3> QED
        BY <2>7, <3>1, <3>2 DEF RelRead, ReadClaim
    <2>8. CASE RelRemove(w)
      <3>1. cur[w] \in Messages
        BY <2>8 DEF RelRemove, RemoveLabels, Forget
      <3>2. TypeOK'
        BY <2>8, <3>1 DEF RelRemove, RemoveLabels, Forget
      <3>3. Commands'
        BY <2>8, <3>1 DEF RelRemove, RemoveLabels, Forget
      <3> QED
        BY <3>2, <3>3
    <2>9. CASE AckRead(w)
      <3>1. StampFor(w, cur[w]) \in Times
        BY <2>9, StampType DEF AckRead
      <3>2. cur[w] \in Messages
        BY <2>9 DEF AckRead
      <3>3. TypeOK'
        BY <2>9, <3>1, <3>2 DEF AckRead
      <3>4. Commands'
        BY <2>9, <3>2 DEF AckRead
      <3> QED
        BY <3>3, <3>4
    <2>10. CASE AckReadFail(w)
      <3>1. faults' \in 0..MaxFaults
        BY <2>10 DEF AckReadFail, Fault
      <3>2. cur[w] \in Messages
        BY <2>10 DEF AckReadFail
      <3>3. TypeOK'
        BY <2>10, <3>1, <3>2 DEF AckReadFail
      <3>4. Commands'
        BY <2>10, <3>2 DEF AckReadFail
      <3> QED
        BY <3>3, <3>4
    <2>11. CASE AckBy(w)
      <3>1. cur[w] \in Messages
        BY <2>11 DEF AckBy
      <3>2. Acker(w, cur[w]) \in Workers
        <4>1. addressee[cur[w]] \in Workers \cup {None}
          BY <3>1
        <4> QED
          BY <4>1, Zenon DEF Acker
      <3> QED
        BY <2>11, <3>1, <3>2 DEF AckBy
    <2>12. CASE AckAt(w)
      <3>1. cur[w] \in Messages /\ stamp[w] \in Times
        BY <2>12 DEF AckAt
      <3>2. ackedAt' \in [Messages -> SUBSET Times]
        BY <2>12, <3>1 DEF AckAt
      <3>3. TypeOK'
        BY <2>12, <3>2 DEF AckAt
      <3>4. Commands'
        BY <2>12, <3>1 DEF AckAt
      <3> QED
        BY <3>3, <3>4
    <2>13. CASE Ack(w)
      <3>1. cur[w] \in Messages
        BY <2>13 DEF Ack
      <3>2. held' \in [Workers -> SUBSET Queued] /\ todo' \in [Workers -> SUBSET Queued]
        BY <2>13, <3>1 DEF Ack, HandOver, Queued
      <3>3. acked' \in [Messages -> BOOLEAN]
        BY <2>13 DEF Ack
      <3>4. TypeOK'
        BY <2>13, <3>1, <3>2, <3>3 DEF Ack, HandOver, Forget
      <3>5. Commands'
        BY <2>13, <3>1 DEF Ack, HandOver, Forget
      <3> QED
        BY <3>4, <3>5
    <2>14. CASE AckFail(w)
      <3>1. cur[w] \in Messages
        BY <2>14 DEF AckFail
      <3>2. held' \in [Workers -> SUBSET Queued] /\ todo' \in [Workers -> SUBSET Queued]
        BY <2>14, <3>1 DEF AckFail, HandOver, Queued
      <3>3. faults' \in 0..MaxFaults
        BY <2>14 DEF AckFail, Fault
      <3>4. TypeOK'
        BY <2>14, <3>1, <3>2, <3>3 DEF AckFail, HandOver, Forget
      <3>5. Commands'
        BY <2>14, <3>1 DEF AckFail, HandOver, Forget
      <3> QED
        BY <3>4, <3>5
    <2>15. CASE Crash(w)
      <3>1. faults' \in 0..MaxFaults
        BY <2>15 DEF Crash, Fault
      <3>2. hurt' \subseteq Messages
        BY <2>15 DEF Crash, Queued
      <3>3. TypeOK'
        BY <2>15, <3>1, <3>2 DEF Crash, Forget
      <3>4. Commands'
        BY <2>15 DEF Crash, Forget
      <3> QED
        BY <3>3, <3>4
    <2> QED
      BY <1>3, <2>1, <2>2, <2>3, <2>4, <2>5, <2>6, <2>7, <2>8, <2>9, <2>10, <2>11, <2>12, <2>13,
         <2>14, <2>15 DEF Step
  <1>4. ASSUME NEW w \in Workers, NEW m \in Messages, Release(w, m) PROVE Typing'
    BY <1>4 DEF Release
  <1>5. ASSUME NEW w \in Workers, NEW m \in Messages, Inbox(w, m) PROVE Typing'
    BY <1>5 DEF Inbox
  <1>6. CASE UNCHANGED vars
    BY <1>6 DEF vars
  <1> QED
    BY <1>1, <1>2, <1>3, <1>4, <1>5, <1>6 DEF Next

\* The model's variables keep their types: claims and holdings are of queue messages, and
\* what a release has read of the labels is a worker and a time, or nothing.
THEOREM TypeCorrect == Spec => []TypeOK
  <1>1. Typing => TypeOK
    BY DEF Typing
  <1> QED
    BY <1>1, InitTyping, NextTyping, PTL DEF Spec

-----------------------------------------------------------------------------
(***************************************************************************)
(* The acknowledgement layer: the labels are written in the order          *)
(* delivery-acked-by, delivery-acked-at, delivery:acked, and none is taken *)
(* off again.                                                              *)
(***************************************************************************)
Order ==
    /\ \A m \in Messages : ackedAt[m] # {} => ackedBy[m] # {}
    /\ \A m \in Messages : addressee[m] # None => ackedBy[m] \subseteq {addressee[m]}
    /\ \A w \in Workers : pc[w] \in {"ack_at", "ack"} => Acker(w, cur[w]) \in ackedBy[cur[w]]
    /\ \A w \in Workers : pc[w] = "ack" => ackedAt[cur[w]] # {}
Acks == Order /\ AckedIsAttributed

LEMMA InitAcks == Init => Acks
  BY DEF Init, Acks, Order, AckedIsAttributed

LEMMA NextAcks == Typing /\ Acks /\ [Next]_vars => Acks'
  <1> SUFFICES ASSUME Typing, Acks, [Next]_vars PROVE Acks'
    OBVIOUS
  <1> USE WorkerAssumption
  <1> USE DEF Typing, TypeOK, Commands, Acks, Order, AckedIsAttributed, claimVars, ackVars,
          procVars, histVars, Goto, Acker
  <1>a. addressee' = addressee /\ Queued' = Queued
    BY DEF Next, vars, Queued
  <1> USE <1>a
  <1>1. CASE Tick
    BY <1>1 DEF Tick
  <1>2. ASSUME NEW w \in Workers, List(w) PROVE Acks'
    BY <1>2 DEF List, Unclaimed
  <1>3. ASSUME NEW w \in Workers, Step(w) PROVE Acks'
    <2>1. CASE Claim(w)
      BY <2>1 DEF Claim
    <2>2. CASE VerifyWon(w)
      BY <2>2 DEF VerifyWon, Queued
    <2>3. CASE VerifyLost(w)
      BY <2>3 DEF VerifyLost
    <2>4. CASE LoseRead(w)
      BY <2>4 DEF LoseRead, ReadClaim
    <2>5. CASE LoseRemove(w)
      BY <2>5 DEF LoseRemove, Proceed, Forget, RemoveLabels
    <2>6. CASE LoseFail(w)
      BY <2>6 DEF LoseFail, Proceed, Forget, Fault
    <2>7. CASE RelRead(w)
      BY <2>7 DEF RelRead, ReadClaim
    <2>8. CASE RelRemove(w)
      BY <2>8 DEF RelRemove, RemoveLabels, Forget
    <2>9. CASE AckRead(w)
      BY <2>9 DEF AckRead
    <2>10. CASE AckReadFail(w)
      BY <2>10 DEF AckReadFail, Fault
    <2>11. CASE AckBy(w)
      BY <2>11 DEF AckBy
    <2>12. CASE AckAt(w)
      <3>1. cur[w] \in Messages /\ stamp[w] \in ackedAt'[cur[w]] /\ \A m \in Messages : ackedAt[m] \subseteq ackedAt'[m]
        BY <2>12 DEF AckAt
      <3>2. \A m \in Messages : m # cur[w] => ackedAt'[m] = ackedAt[m]
        BY <2>12 DEF AckAt
      <3>3. pc[w] = "ack_at" /\ pc' = [pc EXCEPT ![w] = "ack"] /\ UNCHANGED <<ackedBy, acked, cur>>
        BY <2>12 DEF AckAt
      <3>4. Order'
        BY <3>1, <3>2, <3>3
      <3>5. AckedIsAttributed'
        BY <3>1, <3>3
      <3> QED
        BY <3>4, <3>5
    <2>13. CASE Ack(w)
      BY <2>13 DEF Ack, HandOver, Forget
    <2>14. CASE AckFail(w)
      BY <2>14 DEF AckFail, HandOver, Forget, Fault
    <2>15. CASE Crash(w)
      BY <2>15 DEF Crash, Fault, Forget
    <2> QED
      BY <1>3, <2>1, <2>2, <2>3, <2>4, <2>5, <2>6, <2>7, <2>8, <2>9, <2>10, <2>11, <2>12, <2>13,
         <2>14, <2>15 DEF Step
  <1>4. ASSUME NEW w \in Workers, NEW m \in Messages, Release(w, m) PROVE Acks'
    BY <1>4 DEF Release
  <1>5. ASSUME NEW w \in Workers, NEW m \in Messages, Inbox(w, m) PROVE Acks'
    BY <1>5 DEF Inbox
  <1>6. CASE UNCHANGED vars
    BY <1>6 DEF vars
  <1> QED
    BY <1>1, <1>2, <1>3, <1>4, <1>5, <1>6 DEF Next

\* A message that parses as acked names its acker and its time, whichever gt processes
\* die or overlap and whichever bd commands fail.
THEOREM AckIsAttributed == Spec => []AckedIsAttributed
  <1>1. Acks => AckedIsAttributed
    BY DEF Acks
  <1> QED
    BY <1>1, InitTyping, NextTyping, InitAcks, NextAcks, PTL DEF Spec

-----------------------------------------------------------------------------
(***************************************************************************)
(* The stamp layer: while one identity alone has acknowledged a message,   *)
(* the stamp it is about to write is the one that is there.  For a direct  *)
(* message this needs that no two processes are writing at once.           *)
(***************************************************************************)
Writing(w, m) == cur[w] = m /\ pc[w] \in {"ack_by", "ack_at"}
Alone ==
    \A m \in Messages \ restamped, v, w \in Workers :
        addressee[m] # None /\ Writing(v, m) /\ Writing(w, m) => v = w
OneStamp ==
    \A m \in Messages \ restamped, w \in Workers : ackedBy[m] = {Acker(w, m)} =>
        /\ \A s, t \in ackedAt[m] : s = t
        /\ Writing(w, m) => ackedAt[m] \subseteq {stamp[w]}
Stamps == Alone /\ OneStamp

LEMMA InitStamps == Init => Stamps
  BY DEF Init, Stamps, Alone, OneStamp, Writing

\* What AcknowledgeDeliveryBead finds: the stamp of a sole acker is used again.
LEMMA StampIsReused ==
  ASSUME TypeOK, NEW w, NEW m \in Messages, ackedBy[m] = {Acker(w, m)}, \A s, t \in ackedAt[m] : s = t
  PROVE  ackedAt[m] \subseteq {StampFor(w, m)}
  <1>1. CASE ackedAt[m] = {}
    BY <1>1
  <1>2. CASE ackedAt[m] # {}
    <2>1. PICK t \in ackedAt[m] : ackedAt[m] = {t}
      BY <1>2
    <2>2. Cardinality(ackedAt[m]) = 1
      BY <2>1, FS_Singleton
    <2> QED
      BY <2>1, <2>2 DEF StampFor
  <1> QED
    BY <1>1, <1>2

LEMMA NextStamps == Typing /\ Order /\ Stamps /\ [Next]_vars => Stamps'
  <1> SUFFICES ASSUME Typing, Order, Stamps, [Next]_vars PROVE Stamps'
    OBVIOUS
  <1> USE WorkerAssumption, MessageAssumption
  <1> USE DEF Typing, TypeOK, Commands, Order, Stamps, Alone, OneStamp, Writing, Acker, claimVars, ackVars, procVars, histVars, Goto
  <1>a. addressee' = addressee /\ Queued' = Queued
    BY DEF Next, vars, Queued
  <1> USE <1>a
  <1>1. CASE Tick
    BY <1>1 DEF Tick
  <1>2. ASSUME NEW w \in Workers, List(w) PROVE Stamps'
    BY <1>2 DEF List, Unclaimed
  <1>3. ASSUME NEW w \in Workers, Step(w) PROVE Stamps'
    <2>1. CASE Claim(w)
      <3> PICK m \in todo[w] : Claim(w)!(m)
        BY <2>1 DEF Claim
      <3> QED
        OBVIOUS
    <2>2. CASE VerifyWon(w)
      BY <2>2 DEF VerifyWon
    <2>3. CASE VerifyLost(w)
      BY <2>3 DEF VerifyLost
    <2>4. CASE LoseRead(w)
      BY <2>4 DEF LoseRead, ReadClaim
    <2>5. CASE LoseRemove(w)
      BY <2>5 DEF LoseRemove, Proceed, Forget, RemoveLabels
    <2>6. CASE LoseFail(w)
      BY <2>6 DEF LoseFail, Proceed, Forget, Fault
    <2>7. CASE RelRead(w)
      <3>1. /\ pc[w] = "rel_read" /\ pc' = [pc EXCEPT ![w] = "rel_remove"]
            /\ UNCHANGED <<ackedBy, ackedAt, cur, stamp, restamped>>
        BY <2>7 DEF RelRead, ReadClaim
      <3>2. \A v \in Workers, m \in Messages : Writing(v, m)' => Writing(v, m)
        BY <3>1
      <3> QED
        BY <3>1, <3>2
    <2>8. CASE RelRemove(w)
      BY <2>8 DEF RelRemove, RemoveLabels, Forget
    <2>9. CASE AckRead(w)
      <3> DEFINE c == cur[w]
      <3>1. c \in Messages
        BY <2>9 DEF AckRead
      <3>2. /\ pc'[w] = "ack_by" /\ \A v \in Workers \ {w} : stamp'[v] = stamp[v] /\ pc'[v] = pc[v]
            /\ UNCHANGED <<ackedBy, ackedAt, cur>> /\ restamped \subseteq restamped'
        BY <2>9, <3>1 DEF AckRead
      <3>3. c \notin restamped' => stamp'[w] = StampFor(w, c) /\ ~Overlapped(w, c)
        BY <2>9, <3>1 DEF AckRead
      <3>4. Alone'
        BY <3>1, <3>2, <3>3 DEF Overlapped
      <3>5. c \notin restamped' /\ ackedBy[c] = {Acker(w, c)} => ackedAt[c] \subseteq {stamp'[w]}
        <4>1. SUFFICES ASSUME c \notin restamped', ackedBy[c] = {Acker(w, c)}
                      PROVE  ackedAt[c] \subseteq {stamp'[w]}
          OBVIOUS
        <4>2. \A s, t \in ackedAt[c] : s = t
          BY <3>1, <3>2, <4>1
        <4>3. ackedAt[c] \subseteq {StampFor(w, c)}
          BY <3>1, <4>1, <4>2, StampIsReused
        <4> QED
          BY <3>3, <4>1, <4>3
      <3>6. OneStamp'
        BY <3>1, <3>2, <3>5
      <3> QED
        BY <3>4, <3>6
    <2>10. CASE AckReadFail(w)
      <3> DEFINE c == cur[w]
      <3>1. c \in Messages
        BY <2>10 DEF AckReadFail
      <3>2. /\ pc'[w] = "ack_by" /\ \A v \in Workers \ {w} : stamp'[v] = stamp[v] /\ pc'[v] = pc[v]
            /\ UNCHANGED <<ackedBy, ackedAt, cur>> /\ restamped \subseteq restamped'
        BY <2>10, <3>1 DEF AckReadFail
      <3>3. c \notin restamped' => stamp'[w] = StampFor(w, c) /\ ~Overlapped(w, c)
        BY <2>10, <3>1 DEF AckReadFail
      <3>4. Alone'
        BY <3>1, <3>2, <3>3 DEF Overlapped
      <3>5. c \notin restamped' /\ ackedBy[c] = {Acker(w, c)} => ackedAt[c] \subseteq {stamp'[w]}
        <4>1. SUFFICES ASSUME c \notin restamped', ackedBy[c] = {Acker(w, c)}
                      PROVE  ackedAt[c] \subseteq {stamp'[w]}
          OBVIOUS
        <4>2. \A s, t \in ackedAt[c] : s = t
          BY <3>1, <3>2, <4>1
        <4>3. ackedAt[c] \subseteq {StampFor(w, c)}
          BY <3>1, <4>1, <4>2, StampIsReused
        <4> QED
          BY <3>3, <4>1, <4>3
      <3>6. OneStamp'
        BY <3>1, <3>2, <3>5
      <3> QED
        BY <3>4, <3>6
    <2>11. CASE AckBy(w)
      <3> DEFINE c == cur[w]
      <3>1. /\ c \in Messages /\ pc[w] = "ack_by" /\ pc'[w] = "ack_at"
            /\ UNCHANGED <<ackedAt, cur, stamp, restamped>>
        BY <2>11 DEF AckBy
      <3>2. \A v \in Workers : v # w => pc'[v] = pc[v]
        BY <2>11 DEF AckBy
      <3>3. ackedBy'[c] = ackedBy[c] \cup {Acker(w, c)} /\ \A m \in Messages : m # c => ackedBy'[m] = ackedBy[m]
        BY <2>11, <3>1 DEF AckBy
      <3>4. Alone'
        BY <3>1, <3>2
      <3>5. \A v \in Workers : ackedBy'[c] = {Acker(v, c)} => ackedBy[c] = {Acker(v, c)} \/ ackedAt[c] = {}
        <4>1. ackedBy[c] = {} => ackedAt[c] = {}
          BY <3>1
        <4> QED
          BY <3>3, <4>1
      <3>6. OneStamp'
        BY <3>1, <3>2, <3>3, <3>5
      <3> QED
        BY <3>4, <3>6
    <2>12. CASE AckAt(w)
      <3> DEFINE c == cur[w]
      <3>1. /\ c \in Messages /\ pc[w] = "ack_at" /\ pc'[w] = "ack"
            /\ UNCHANGED <<ackedBy, cur, stamp, restamped>>
        BY <2>12 DEF AckAt
      <3>2. \A v \in Workers : v # w => pc'[v] = pc[v]
        BY <2>12 DEF AckAt
      <3>3. ackedAt'[c] = ackedAt[c] \cup {stamp[w]} /\ \A m \in Messages : m # c => ackedAt'[m] = ackedAt[m]
        BY <2>12, <3>1 DEF AckAt
      <3>4. Alone'
        BY <3>1, <3>2
      <3>5. ASSUME c \notin restamped, NEW v \in Workers, ackedBy[c] = {Acker(v, c)}
            PROVE  ackedAt'[c] = {stamp[w]} /\ ~Writing(v, c)'
        <4>1. Acker(w, c) = Acker(v, c)
          BY <3>1, <3>5
        <4>2. ackedAt[c] \subseteq {stamp[w]}
          BY <3>1, <3>5, <4>1
        <4>3. v = w \/ addressee[c] # None
          BY <4>1
        <4>4. ackedAt'[c] = {stamp[w]}
          BY <3>3, <4>2
        <4>5. ASSUME Writing(v, c)' PROVE FALSE
          <5>1. v # w /\ Writing(v, c) /\ Writing(w, c)
            BY <3>1, <3>2, <4>5
          <5> QED
            BY <3>1, <3>5, <4>3, <5>1
        <4> QED
          BY <4>4, <4>5
      <3>6. \A m \in Messages, v \in Workers : m # c /\ Writing(v, m)' => Writing(v, m)
        BY <3>1, <3>2
      <3>7. ASSUME NEW m \in Messages \ restamped', NEW v \in Workers,
                   (ackedBy[m] = {Acker(v, m)})'
            PROVE  /\ \A s, t \in ackedAt'[m] : s = t
                   /\ Writing(v, m)' => ackedAt'[m] \subseteq {stamp'[v]}
        <4>1. m \in Messages \ restamped /\ ackedBy[m] = {Acker(v, m)} /\ stamp' = stamp
          BY <3>1, <3>7
        <4>2. CASE m = c
          <5>1. c \notin restamped /\ ackedBy[c] = {Acker(v, c)}
            BY <4>1, <4>2
          <5>2. ackedAt'[c] = {stamp[w]} /\ ~Writing(v, c)'
            BY <3>5, <5>1
          <5>3. ackedAt'[m] = {stamp[w]}
            BY <4>2, <5>2
          <5>4. ~Writing(v, m)'
            BY <3>1, <4>2, <5>2
          <5> QED
            BY <5>3, <5>4
        <4>3. CASE m # c
          BY <3>3, <3>6, <4>1, <4>3
        <4> QED
          BY <4>2, <4>3
      <3>8. OneStamp'
        BY <3>7
      <3> QED
        BY <3>4, <3>8
    <2>13. CASE Ack(w)
      BY <2>13 DEF Ack, HandOver, Forget
    <2>14. CASE AckFail(w)
      BY <2>14 DEF AckFail, HandOver, Forget, Fault
    <2>15. CASE Crash(w)
      BY <2>15 DEF Crash, Fault, Forget
    <2> QED
      BY <1>3, <2>1, <2>2, <2>3, <2>4, <2>5, <2>6, <2>7, <2>8, <2>9, <2>10, <2>11, <2>12, <2>13,
         <2>14, <2>15 DEF Step
  <1>4. ASSUME NEW w \in Workers, NEW m \in Messages, Release(w, m) PROVE Stamps'
    BY <1>4 DEF Release
  <1>5. ASSUME NEW w \in Workers, NEW m \in Messages, Inbox(w, m) PROVE Stamps'
    BY <1>5 DEF Inbox
  <1>6. CASE UNCHANGED vars
    BY <1>6 DEF vars
  <1> QED
    BY <1>1, <1>2, <1>3, <1>4, <1>5, <1>6 DEF Next

\* Retries of an acknowledgement are idempotent: as long as one identity alone has
\* acknowledged a message it has at most one time stamp, unless a read of its labels
\* has failed or two processes have acknowledged it for one address at once.
THEOREM RetriesKeepTheStamp == Spec => []OneStampPerSoleAcker
  <1>1. Typing /\ Order /\ Stamps => OneStampPerSoleAcker
    <2> SUFFICES ASSUME Typing, Order, Stamps, NEW m \in Messages \ restamped, Cardinality(ackedBy[m]) = 1
                 PROVE  Cardinality(ackedAt[m]) <= 1
      BY DEF OneStampPerSoleAcker
    <2>1. IsFiniteSet(ackedBy[m]) /\ IsFiniteSet(ackedAt[m])
      BY LabelsFinite DEF Typing
    <2>2. PICK w : ackedBy[m] = {w}
      BY <2>1, FS_Singleton
    <2>3. w \in Workers /\ w = Acker(w, m)
      BY <2>2 DEF Typing, TypeOK, Order, Acker
    <2>4. \A s, t \in ackedAt[m] : s = t
      BY <2>2, <2>3 DEF Stamps, OneStamp
    <2>5. CASE ackedAt[m] = {}
      BY <2>5, FS_EmptySet
    <2>6. CASE ackedAt[m] # {}
      <3>1. PICK t \in ackedAt[m] : ackedAt[m] = {t}
        BY <2>4, <2>6
      <3>2. Cardinality({t}) = 1
        BY FS_Singleton
      <3> QED
        BY <3>1, <3>2
    <2> QED
      BY <2>5, <2>6
  <1>2. Acks => Order
    BY DEF Acks
  <1> QED
    BY <1>1, <1>2, InitTyping, NextTyping, InitAcks, NextAcks, InitStamps, NextStamps, PTL DEF Spec

-----------------------------------------------------------------------------
(***************************************************************************)
(* The claim layer: on a message that was not crossed, a winner has the    *)
(* last claimed-by label, and whoever has lost or is still to verify does  *)
(* not hold the message.                                                   *)
(***************************************************************************)
WinnerIsLast ==
    \A m \in Queued \ crossed, v \in Workers :
        v \in Winners(m) => v \in claimedBy[m] /\ \A u \in claimedBy[m] : u <= v
LoserHasNothing ==
    \A m \in Queued \ crossed, w \in Workers :
        cur[w] = m /\ pc[w] \in {"verify", "lose_read", "lose_remove"} => m \notin held[w]
Claims == WinnerIsLast /\ LoserHasNothing

LEMMA InitClaims == Init => Claims
  BY DEF Init, Claims, WinnerIsLast, LoserHasNothing, Winners, Holders

LEMMA NextClaims == Typing /\ Claims /\ [Next]_vars => Claims'
  <1> SUFFICES ASSUME Typing, Claims, [Next]_vars PROVE Claims'
    OBVIOUS
  <1> USE WorkerAssumption, MessageAssumption
  <1> USE DEF Typing, TypeOK, Commands, Claims, WinnerIsLast, LoserHasNothing, Winners, Holders,
          claimVars, ackVars, procVars, histVars, Goto
  <1>a. addressee' = addressee /\ Queued' = Queued
    BY DEF Next, vars, Queued
  <1> USE <1>a
  <1>1. CASE Tick
    BY <1>1 DEF Tick
  <1>2. ASSUME NEW w \in Workers, List(w) PROVE Claims'
    BY <1>2 DEF List, Unclaimed
  <1>3. ASSUME NEW w \in Workers, Step(w) PROVE Claims'
    <2>1. CASE Claim(w)
      BY <2>1 DEF Claim
    <2>2. CASE VerifyWon(w)
      <3>1. cur[w] \in Messages /\ w # None /\ Claimant(cur[w]) = w
        BY <2>2 DEF VerifyWon
      <3>2. w \in claimedBy[cur[w]] /\ \A u \in claimedBy[cur[w]] : u <= w
        BY <3>1, VerifiedIsLast
      <3>3. Claims'
        BY <2>2, <3>1, <3>2 DEF VerifyWon
      <3> QED
        BY <3>3
    <2>3. CASE VerifyLost(w)
      BY <2>3 DEF VerifyLost
    <2>4. CASE LoseRead(w)
      BY <2>4 DEF LoseRead, ReadClaim
    <2>5. CASE LoseRemove(w)
      BY <2>5 DEF LoseRemove, Proceed, Forget, RemoveLabels
    <2>6. CASE LoseFail(w)
      BY <2>6 DEF LoseFail, Proceed, Forget, Fault
    <2>7. CASE RelRead(w)
      BY <2>7 DEF RelRead, ReadClaim
    <2>8. CASE RelRemove(w)
      BY <2>8 DEF RelRemove, RemoveLabels, Forget
    <2>9. CASE AckRead(w)
      BY <2>9 DEF AckRead
    <2>10. CASE AckReadFail(w)
      BY <2>10 DEF AckReadFail, Fault
    <2>11. CASE AckBy(w)
      BY <2>11 DEF AckBy
    <2>12. CASE AckAt(w)
      BY <2>12 DEF AckAt
    <2>13. CASE Ack(w)
      BY <2>13 DEF Ack, HandOver, Forget
    <2>14. CASE AckFail(w)
      BY <2>14 DEF AckFail, HandOver, Forget, Fault
    <2>15. CASE Crash(w)
      BY <2>15 DEF Crash, Fault, Forget
    <2> QED
      BY <1>3, <2>1, <2>2, <2>3, <2>4, <2>5, <2>6, <2>7, <2>8, <2>9, <2>10, <2>11, <2>12, <2>13,
         <2>14, <2>15 DEF Step
  <1>4. ASSUME NEW w \in Workers, NEW m \in Messages, Release(w, m) PROVE Claims'
    BY <1>4 DEF Release
  <1>5. ASSUME NEW w \in Workers, NEW m \in Messages, Inbox(w, m) PROVE Claims'
    BY <1>5 DEF Inbox, Queued
  <1>6. CASE UNCHANGED vars
    BY <1>6 DEF vars
  <1> QED
    BY <1>1, <1>2, <1>3, <1>4, <1>5, <1>6 DEF Next

\* The post-claim verification leaves one holder: two workers are handed the same message
\* only if one claimed it after the other's verification, or if somebody's release took
\* off a claim that was not his.
THEOREM OneHolder == Spec => []OneHolderUnlessCrossed
  <1>1. Typing /\ Claims => OneHolderUnlessCrossed
    <2> SUFFICES ASSUME Typing, Claims, NEW m \in Queued \ crossed
                 PROVE  Cardinality(Holders(m)) <= 1
      BY DEF OneHolderUnlessCrossed
    <2>1. \A v \in Holders(m) : v \in Workers /\ v \in claimedBy[m] /\ \A u \in claimedBy[m] : u <= v
      BY DEF Claims, WinnerIsLast, Winners, Holders
    <2>2. ASSUME NEW u \in Holders(m), NEW v \in Holders(m) PROVE u = v
      <3>1. u \in Nat /\ v \in Nat /\ u <= v /\ v <= u
        BY <2>1, WorkerAssumption
      <3> QED
        BY <3>1
    <2>3. CASE Holders(m) = {}
      BY <2>3, FS_EmptySet
    <2>4. CASE Holders(m) # {}
      <3>1. PICK v \in Holders(m) : Holders(m) = {v}
        BY <2>2, <2>4
      <3>2. Cardinality(Holders(m)) = 1
        BY <3>1, FS_Singleton
      <3> QED
        BY <3>2
    <2> QED
      BY <2>3, <2>4
  <1> QED
    BY <1>1, InitTyping, NextTyping, InitClaims, NextClaims, PTL DEF Spec

-----------------------------------------------------------------------------
(***************************************************************************)
(* The balance layer.  Every claim writes one claimed-by and one           *)
(* claimed-at label, and every release takes off one of each, though not   *)
(* always its own: so a message has never more labels of a kind than there *)
(* are workers with a claim on it, as long as no command was interrupted   *)
(* and no two releases overlapped.  A holder that has listed the message   *)
(* once more, as somebody took off his labels, does not count before he    *)
(* claims it again.                                                        *)
(***************************************************************************)
Working(m) == {w \in Workers : cur[w] = m \/ (m \in held[w] /\ m \notin todo[w])}

Fits(L, W) == Cardinality(L) <= Cardinality(W)

Balanced(m) ==
    /\ Fits(claimedBy[m], Working(m)) /\ Fits(claimedAt[m], Working(m))
    /\ \A w \in Releasing(m) :
         /\ Releasing(m) = {w}
         /\ Fits(claimedBy[m] \ {seen[w].by}, Working(m) \ {w})
         /\ Fits(claimedAt[m] \ {seen[w].at}, Working(m) \ {w})
Balance == \A m \in Queued \ hurt : Balanced(m)

LEMMA InitBalance == Init => Balance
  <1> SUFFICES ASSUME Init, NEW m \in Queued PROVE Balanced(m)
    BY DEF Balance
  <1>1. claimedBy[m] = {} /\ claimedAt[m] = {} /\ Working(m) = {} /\ Releasing(m) = {}
    BY WorkerAssumption, MessageAssumption DEF Init, Queued, Working, Releasing
  <1> QED
    BY <1>1, FS_EmptySet DEF Balanced, Fits

LEMMA NoLabelFits ==
  ASSUME NEW W, IsFiniteSet(W)
  PROVE  Fits({}, W)
  BY FS_EmptySet, FS_CardinalityType DEF Fits

LEMMA MoreFits ==
  ASSUME NEW L, NEW W, IsFiniteSet(L), NEW V, IsFiniteSet(V), W \subseteq V, Fits(L, W)
  PROVE  Fits(L, V)
  <1>1. IsFiniteSet(W) /\ Cardinality(W) <= Cardinality(V)
    BY FS_Subset
  <1>2. Cardinality(L) \in Nat /\ Cardinality(W) \in Nat /\ Cardinality(V) \in Nat
    BY <1>1, FS_CardinalityType
  <1> QED
    BY <1>1, <1>2 DEF Fits

LEMMA ClaimFits ==
  ASSUME NEW L, NEW W, IsFiniteSet(L), IsFiniteSet(W), NEW l, NEW w, w \notin W, Fits(L, W)
  PROVE  Fits(L \cup {l}, W \cup {w})
  <1>1. Cardinality(L) \in Nat /\ Cardinality(W) \in Nat
    BY FS_CardinalityType
  <1>2. Cardinality(W \cup {w}) = Cardinality(W) + 1
    BY FS_AddElement
  <1>3. Cardinality(L \cup {l}) = Cardinality(L) \/ Cardinality(L \cup {l}) = Cardinality(L) + 1
    BY FS_AddElement
  <1> QED
    BY <1>1, <1>2, <1>3 DEF Fits

LEMMA ReleaseFits ==
  ASSUME NEW L, NEW W, IsFiniteSet(L), IsFiniteSet(W), NEW l \in L, NEW w, Fits(L, W)
  PROVE  Fits(L \ {l}, W \ {w})
  <1>1. Cardinality(L) \in Nat /\ Cardinality(W) \in Nat
    BY FS_CardinalityType
  <1>2. Cardinality(L \ {l}) = Cardinality(L) - 1
    BY FS_RemoveElement
  <1>3. Cardinality(W \ {w}) = Cardinality(W) - 1 \/ Cardinality(W \ {w}) = Cardinality(W)
    BY FS_RemoveElement
  <1> QED
    BY <1>1, <1>2, <1>3 DEF Fits

LEMMA WorkingFinite == \A m : IsFiniteSet(Working(m)) /\ \A w : IsFiniteSet(Working(m) \ {w})
  <1> SUFFICES ASSUME NEW m PROVE IsFiniteSet(Working(m)) /\ \A w : IsFiniteSet(Working(m) \ {w})
    OBVIOUS
  <1>1. Working(m) \in SUBSET Workers
    BY DEF Working
  <1>2. IsFiniteSet(Working(m))
    BY <1>1, WorkerAssumption, FS_Subset
  <1> QED
    BY <1>2, FS_RemoveElement

\* A step that leaves the labels of m and what is known of them alone, and takes nobody's
\* claim on m away.
Quiet(m) ==
    /\ claimedBy'[m] = claimedBy[m] /\ claimedAt'[m] = claimedAt[m]
    /\ Working(m) \subseteq Working(m)'
    /\ Releasing(m)' \subseteq Releasing(m)
    /\ \A w \in Releasing(m)' : seen'[w] = seen[w]

LEMMA QuietStep ==
  ASSUME TypeOK, NEW m \in Messages, Balanced(m), Quiet(m)
  PROVE  Balanced(m)'
  <1>1. IsFiniteSet(claimedBy[m]) /\ IsFiniteSet(claimedAt[m])
    BY LabelsFinite
  <1>2. IsFiniteSet(Working(m)') /\ \A w : IsFiniteSet(Working(m)' \ {w})
    <2>1. Working(m)' \in SUBSET Workers
      BY DEF Working
    <2>2. IsFiniteSet(Working(m)')
      BY <2>1, WorkerAssumption, FS_Subset
    <2> QED
      BY <2>2, FS_RemoveElement
  <1>3. Fits(claimedBy[m], Working(m)') /\ Fits(claimedAt[m], Working(m)')
    BY <1>1, <1>2, MoreFits DEF Balanced, Quiet
  <1>4. ASSUME NEW w \in Releasing(m)'
        PROVE  /\ Releasing(m)' = {w}
               /\ Fits(claimedBy[m] \ {seen[w].by}, Working(m)' \ {w})
               /\ Fits(claimedAt[m] \ {seen[w].at}, Working(m)' \ {w})
    <2>1. w \in Releasing(m) /\ Releasing(m) = {w}
      BY <1>4 DEF Quiet, Balanced
    <2>2. Releasing(m)' = {w}
      BY <1>4, <2>1 DEF Quiet
    <2>3. IsFiniteSet(claimedBy[m] \ {seen[w].by}) /\ IsFiniteSet(claimedAt[m] \ {seen[w].at})
      BY <1>1, FS_RemoveElement
    <2>4. Working(m) \ {w} \subseteq Working(m)' \ {w}
      BY DEF Quiet
    <2>5. Fits(claimedBy[m] \ {seen[w].by}, Working(m)' \ {w})
      BY <1>2, <2>1, <2>3, <2>4, MoreFits DEF Balanced
    <2>6. Fits(claimedAt[m] \ {seen[w].at}, Working(m)' \ {w})
      BY <1>2, <2>1, <2>3, <2>4, MoreFits DEF Balanced
    <2> QED
      BY <2>2, <2>5, <2>6
  <1>5. /\ claimedBy'[m] = claimedBy[m] /\ claimedAt'[m] = claimedAt[m]
        /\ \A w \in Releasing(m)' : seen'[w] = seen[w]
    BY DEF Quiet
  <1> QED
    BY <1>3, <1>4, <1>5 DEF Balanced

LEMMA UnclaimedStep ==
  ASSUME NEW m, claimedBy'[m] = {}, claimedAt'[m] = {}, Balanced(m), Releasing(m)' \subseteq Releasing(m)
  PROVE  Balanced(m)'
  <1>1. IsFiniteSet(Working(m)') /\ \A w : IsFiniteSet(Working(m)' \ {w})
    <2>1. Working(m)' \in SUBSET Workers
      BY DEF Working
    <2>2. IsFiniteSet(Working(m)')
      BY <2>1, WorkerAssumption, FS_Subset
    <2> QED
      BY <2>2, FS_RemoveElement
  <1>2. \A w : claimedBy'[m] \ {seen'[w].by} = {} /\ claimedAt'[m] \ {seen'[w].at} = {}
    OBVIOUS
  <1>3. Fits({}, Working(m)') /\ \A w : Fits({}, Working(m)' \ {w})
    BY <1>1, NoLabelFits
  <1>4. \A w \in Releasing(m)' : Releasing(m)' = {w}
    BY DEF Balanced
  <1>5. Fits(claimedBy'[m], Working(m)') /\ Fits(claimedAt'[m], Working(m)')
    BY <1>3
  <1>6. \A w : /\ Fits(claimedBy'[m] \ {seen'[w].by}, Working(m)' \ {w})
               /\ Fits(claimedAt'[m] \ {seen'[w].at}, Working(m)' \ {w})
    BY <1>2, <1>3
  <1> QED
    BY <1>4, <1>5, <1>6, Zenon DEF Balanced

\* The steps that are not quiet: a claim, ...
LEMMA ClaimStep ==
  ASSUME Typing, NEW w \in Workers, NEW m \in todo[w], Claim(w)!(m), Balanced(m)
  PROVE  Balanced(m)'
  <1> USE DEF Typing, TypeOK
  <1>1. m \in Messages /\ m \in Queued /\ cur[w] = None /\ pc[w] = "claim" /\ m # None
    BY MessageAssumption, WorkerAssumption DEF Commands, Goto, Queued
  <1>2. w \notin Working(m) /\ Working(m)' = Working(m) \cup {w}
    BY <1>1 DEF Working
  <1>3. Releasing(m)' = Releasing(m) /\ w \notin Releasing(m)
    BY <1>1 DEF Releasing, Goto
  <1>4. claimedBy'[m] = claimedBy[m] \cup {w} /\ claimedAt'[m] = claimedAt[m] \cup {now} /\ seen' = seen
    BY <1>1
  <1>5. IsFiniteSet(claimedBy[m]) /\ IsFiniteSet(claimedAt[m]) /\ IsFiniteSet(Working(m))
    BY <1>1, LabelsFinite, WorkingFinite
  <1>6. Fits(claimedBy'[m], Working(m)') /\ Fits(claimedAt'[m], Working(m)')
    <2> HIDE DEF Typing, TypeOK
    <2>1. Fits(claimedBy[m], Working(m)) /\ Fits(claimedAt[m], Working(m))
      BY DEF Balanced
    <2>2. Fits(claimedBy[m] \cup {w}, Working(m) \cup {w})
      BY <1>2, <1>5, <2>1, ClaimFits
    <2>3. Fits(claimedAt[m] \cup {now}, Working(m) \cup {w})
      BY <1>2, <1>5, <2>1, ClaimFits
    <2> QED
      BY <1>2, <1>4, <2>2, <2>3
  <1>7. ASSUME NEW v \in Releasing(m)
        PROVE  /\ Fits(claimedBy'[m] \ {seen[v].by}, Working(m)' \ {v})
               /\ Fits(claimedAt'[m] \ {seen[v].at}, Working(m)' \ {v})
    <2> HIDE DEF Typing, TypeOK
    <2> DEFINE B == claimedBy[m] \ {seen[v].by}
               A == claimedAt[m] \ {seen[v].at}
               V == Working(m) \ {v}
    <2>1. IsFiniteSet(B) /\ IsFiniteSet(A) /\ IsFiniteSet(V)
      BY <1>5, FS_RemoveElement
    <2>2. Fits(B, V) /\ Fits(A, V)
      BY <1>7 DEF Balanced
    <2>3. w \notin V /\ V \cup {w} = Working(m)' \ {v}
      BY <1>2, <1>3, <1>7
    <2>4. IsFiniteSet(V \cup {w})
      BY <2>1, FS_AddElement
    <2>5. claimedBy'[m] \ {seen[v].by} \in {B, B \cup {w}}
      BY <1>4
    <2>6. claimedAt'[m] \ {seen[v].at} \in {A, A \cup {now}}
      BY <1>4
    <2> HIDE DEF A, B, V
    <2>7. Fits(B \cup {w}, V \cup {w}) /\ Fits(A \cup {now}, V \cup {w})
      BY <2>1, <2>2, <2>3, ClaimFits
    <2>8. Fits(B, V \cup {w}) /\ Fits(A, V \cup {w})
      BY <2>1, <2>2, <2>4, MoreFits
    <2> QED
      BY <2>3, <2>5, <2>6, <2>7, <2>8
  <1> HIDE DEF Typing, TypeOK
  <1> QED
    BY <1>3, <1>4, <1>6, <1>7 DEF Balanced

\* ... the read of releaseQueueMessage ...
LEMMA ReadStep ==
  ASSUME Typing, NEW w \in Workers, NEW from, NEW to \in {"lose_remove", "rel_remove"},
         ReadClaim(w, from, to), NEW m \in Messages, m = cur[w], m \notin hurt', Balanced(m)
  PROVE  Balanced(m)'
  <1>1. Releasing(m) = {} /\ claimedBy' = claimedBy /\ claimedAt' = claimedAt
    BY DEF ReadClaim, claimVars
  <1>2. Working(m)' = Working(m) /\ w \in Working(m)
    BY DEF ReadClaim, Working
  <1>3. Releasing(m)' = {w}
    BY <1>1 DEF Typing, TypeOK, ReadClaim, Goto, Releasing
  <1>4. seen'[w].by = Claimant(m) /\ seen'[w].at = Last(claimedAt[m])
    BY DEF Typing, TypeOK, ReadClaim
  <1>5. IsFiniteSet(claimedBy[m]) /\ IsFiniteSet(claimedAt[m]) /\ IsFiniteSet(Working(m))
        /\ IsFiniteSet(Working(m) \ {w})
    BY LabelsFinite, WorkingFinite DEF Typing
  <1>6. Fits(claimedBy[m], Working(m)) /\ Fits(claimedAt[m], Working(m))
    BY DEF Balanced
  <1>7. Fits(claimedBy[m] \ {Claimant(m)}, Working(m) \ {w})
    <2>1. CASE claimedBy[m] = {}
      BY <1>5, <2>1, NoLabelFits
    <2>2. CASE claimedBy[m] # {}
      <3>1. Claimant(m) \in claimedBy[m]
        BY <2>2, ClaimRead DEF Typing
      <3> QED
        BY <1>5, <1>6, <3>1, ReleaseFits
    <2> QED
      BY <2>1, <2>2
  <1>8. Fits(claimedAt[m] \ {Last(claimedAt[m])}, Working(m) \ {w})
    <2>1. CASE claimedAt[m] = {}
      BY <1>5, <2>1, NoLabelFits
    <2>2. CASE claimedAt[m] # {}
      <3>1. Last(claimedAt[m]) \in claimedAt[m]
        BY <2>2, ClaimRead DEF Typing
      <3> QED
        BY <1>5, <1>6, <3>1, ReleaseFits
    <2> QED
      BY <2>1, <2>2
  <1> QED
    BY <1>1, <1>2, <1>3, <1>4, <1>6, <1>7, <1>8 DEF Balanced

\* ... and its removal of the labels it has read.
LEMMA RemoveStep ==
  ASSUME Typing, NEW w \in Workers, NEW m \in Messages, w \in Releasing(m), Balanced(m),
         RemoveLabels(w), Working(m) \ {w} \subseteq Working(m)', Releasing(m)' = {}
  PROVE  Balanced(m)'
  <1>1. cur[w] = m
    BY DEF Releasing
  <1>2. claimedBy'[m] = claimedBy[m] \ {seen[w].by} /\ claimedAt'[m] = claimedAt[m] \ {seen[w].at}
    BY <1>1 DEF RemoveLabels, Typing, TypeOK
  <1>3. Fits(claimedBy'[m], Working(m) \ {w}) /\ Fits(claimedAt'[m], Working(m) \ {w})
    BY <1>2 DEF Balanced
  <1>4. IsFiniteSet(claimedBy'[m]) /\ IsFiniteSet(claimedAt'[m])
    <2>1. IsFiniteSet(claimedBy[m]) /\ IsFiniteSet(claimedAt[m])
      BY LabelsFinite DEF Typing
    <2>2. /\ IsFiniteSet(claimedBy[m] \ {seen[w].by})
          /\ IsFiniteSet(claimedAt[m] \ {seen[w].at})
      BY <2>1, FS_RemoveElement
    <2> QED
      BY <1>2, <2>2
  <1>5. IsFiniteSet(Working(m)')
    <2>1. Working(m)' \in SUBSET Workers
      BY DEF Working
    <2> QED
      BY <2>1, WorkerAssumption, FS_Subset
  <1>6. Fits(claimedBy'[m], Working(m)') /\ Fits(claimedAt'[m], Working(m)')
    BY <1>3, <1>4, <1>5, MoreFits
  <1> QED
    BY <1>6 DEF Balanced

LEMMA NextBalance == Typing /\ Balance /\ [Next]_vars => Balance'
  <1> SUFFICES ASSUME Typing, Balance, [Next]_vars, NEW k \in Queued \ hurt' PROVE Balanced(k)'
    BY DEF Balance, Next, vars, Queued
  <1> USE WorkerAssumption, MessageAssumption
  <1> USE DEF Typing, TypeOK, Commands, claimVars, ackVars, procVars, histVars, Goto
  <1>a. addressee' = addressee /\ Queued' = Queued
    BY DEF Next, vars, Queued
  <1>b. k \in Messages /\ k # None /\ (k \notin hurt => Balanced(k))
    BY DEF Balance, Queued
  <1> USE <1>a, <1>b
  <1>1. CASE Tick
    <2>1. k \notin hurt /\ Quiet(k)
      BY <1>1 DEF Tick, Quiet, Working, Releasing
    <2> QED
      BY <2>1, QuietStep, <1>b
  <1>2. ASSUME NEW w \in Workers, List(w) PROVE Balanced(k)'
    <2>1. Working(k)' = Working(k) \/ Unclaimed(k) \/ Working(k) \subseteq Working(k)'
      BY <1>2 DEF List, Working
    <2>2. /\ claimedBy' = claimedBy /\ claimedAt' = claimedAt /\ seen' = seen /\ hurt' = hurt
          /\ Releasing(k)' \subseteq Releasing(k)
      BY <1>2 DEF List, Releasing
    <2>3. CASE Unclaimed(k)
      BY <2>2, <2>3, UnclaimedStep DEF Unclaimed
    <2>4. CASE ~Unclaimed(k)
      <3>1. Quiet(k)
        BY <2>1, <2>2, <2>4 DEF Quiet
      <3> QED
        BY <2>2, <3>1, QuietStep
    <2> QED
      BY <2>3, <2>4
  <1>3. ASSUME NEW w \in Workers, Step(w) PROVE Balanced(k)'
    <2>1. CASE Claim(w)
      <3> PICK m \in todo[w] : Claim(w)!(m)
        BY <2>1 DEF Claim
      <3>1. hurt' = hurt
        OBVIOUS
      <3>2. CASE k = m
        BY <3>1, <3>2, ClaimStep
      <3>3. CASE k # m
        <4>1. Quiet(k)
          BY <3>3 DEF Quiet, Working, Releasing
        <4> QED
          BY <3>1, <4>1, QuietStep
      <3> QED
        BY <3>2, <3>3
    <2>2. CASE VerifyWon(w)
      <3>1. k \notin hurt /\ Quiet(k)
        BY <2>2 DEF VerifyWon, Quiet, Working, Releasing
      <3> QED
        BY <3>1, QuietStep, <1>b
    <2>3. CASE VerifyLost(w)
      <3>1. k \notin hurt /\ Quiet(k)
        BY <2>3 DEF VerifyLost, Quiet, Working, Releasing
      <3> QED
        BY <3>1, QuietStep, <1>b
    <2>4. CASE LoseRead(w)
      <3>1. cur[w] \in Messages /\ k \notin hurt
        BY <2>4 DEF LoseRead, ReadClaim
      <3>2. CASE k = cur[w]
        BY <2>4, <3>1, <3>2, ReadStep DEF LoseRead
      <3>3. CASE k # cur[w]
        <4>1. Quiet(k)
          BY <2>4, <3>3 DEF LoseRead, ReadClaim, Quiet, Working, Releasing
        <4> QED
          BY <3>1, <4>1, QuietStep
      <3> QED
        BY <3>2, <3>3
    <2>5. CASE LoseRemove(w)
      <3>1. cur[w] \in Messages /\ k \notin hurt
        BY <2>5 DEF LoseRemove, Proceed, Forget, RemoveLabels
      <3>2. CASE k = cur[w]
        <4>1. w \in Releasing(k) /\ Releasing(k) = {w}
          BY <2>5, <3>1, <3>2 DEF LoseRemove, Proceed, Forget, RemoveLabels, Releasing, Balanced
        <4>2. Working(k) \ {w} \subseteq Working(k)'
          BY <2>5, <3>1, <3>2 DEF LoseRemove, Proceed, Forget, RemoveLabels, Working
        <4>3. Releasing(k)' = {}
          BY <2>5, <4>1 DEF LoseRemove, Proceed, Forget, RemoveLabels, Releasing
        <4>4. RemoveLabels(w)
          BY <2>5 DEF LoseRemove
        <4> QED
          BY <3>1, <4>1, <4>2, <4>3, <4>4, RemoveStep
      <3>3. CASE k # cur[w]
        <4>1. Quiet(k)
          BY <2>5, <3>1, <3>3 DEF LoseRemove, Proceed, Forget, RemoveLabels, Quiet, Working,
             Releasing
        <4> QED
          BY <3>1, <4>1, QuietStep
      <3> QED
        BY <3>2, <3>3
    <2>6. CASE LoseFail(w)
      <3>1. cur[w] \in Messages /\ k # cur[w] /\ k \notin hurt
        BY <2>6 DEF LoseFail, Proceed
      <3>2. cur' = [cur EXCEPT ![w] = None] /\ todo' = [todo EXCEPT ![w] = todo[w] \ {cur[w]}]
        BY <2>6 DEF LoseFail, Proceed, Forget
      <3>3. seen' = [seen EXCEPT ![w] = NoClaim] /\ UNCHANGED <<claimedBy, claimedAt, held>>
        BY <2>6 DEF LoseFail, Proceed, Forget
      <3>4. \A v \in Workers : v # w => pc'[v] = pc[v]
        BY <2>6 DEF LoseFail, Proceed
      <3>5. Working(k) \subseteq Working(k)'
        BY <3>1, <3>2, <3>3 DEF Working
      <3>6. Releasing(k)' \subseteq Releasing(k) /\ w \notin Releasing(k)'
        BY <3>1, <3>2, <3>4 DEF Releasing
      <3>7. Quiet(k)
        BY <3>3, <3>5, <3>6 DEF Quiet, Releasing
      <3> QED
        BY <3>1, <3>7, QuietStep
    <2>7. CASE RelRead(w)
      <3>1. cur[w] \in Messages /\ k \notin hurt
        BY <2>7 DEF RelRead, ReadClaim
      <3>2. CASE k = cur[w]
        BY <2>7, <3>1, <3>2, ReadStep DEF RelRead
      <3>3. CASE k # cur[w]
        <4>1. Quiet(k)
          BY <2>7, <3>3 DEF RelRead, ReadClaim, Quiet, Working, Releasing
        <4> QED
          BY <3>1, <4>1, QuietStep
      <3> QED
        BY <3>2, <3>3
    <2>8. CASE RelRemove(w)
      <3>1. cur[w] \in Messages /\ k \notin hurt
        BY <2>8 DEF RelRemove, RemoveLabels, Forget
      <3>2. CASE k = cur[w]
        <4>1. w \in Releasing(k) /\ Releasing(k) = {w}
          BY <2>8, <3>1, <3>2 DEF RelRemove, RemoveLabels, Forget, Releasing, Balanced
        <4>2. Working(k) \ {w} \subseteq Working(k)'
          BY <2>8, <3>1, <3>2 DEF RelRemove, RemoveLabels, Forget, Working
        <4>3. Releasing(k)' = {}
          BY <2>8, <4>1 DEF RelRemove, RemoveLabels, Forget, Releasing
        <4>4. RemoveLabels(w)
          BY <2>8 DEF RelRemove
        <4> QED
          BY <3>1, <4>1, <4>2, <4>3, <4>4, RemoveStep
      <3>3. CASE k # cur[w]
        <4>1. Quiet(k)
          BY <2>8, <3>1, <3>3 DEF RelRemove, RemoveLabels, Forget, Quiet, Working, Releasing
        <4> QED
          BY <3>1, <4>1, QuietStep
      <3> QED
        BY <3>2, <3>3
    <2>9. CASE AckRead(w)
      <3>1. k \notin hurt /\ Quiet(k)
        BY <2>9 DEF AckRead, Quiet, Working, Releasing
      <3> QED
        BY <3>1, QuietStep, <1>b
    <2>10. CASE AckReadFail(w)
      <3>1. k \notin hurt /\ Quiet(k)
        BY <2>10 DEF AckReadFail, Fault, Quiet, Working, Releasing
      <3> QED
        BY <3>1, QuietStep, <1>b
    <2>11. CASE AckBy(w)
      <3>1. k \notin hurt /\ Quiet(k)
        BY <2>11 DEF AckBy, Quiet, Working, Releasing
      <3> QED
        BY <3>1, QuietStep, <1>b
    <2>12. CASE AckAt(w)
      <3>1. k \notin hurt /\ Quiet(k)
        BY <2>12 DEF AckAt, Quiet, Working, Releasing
      <3> QED
        BY <3>1, QuietStep, <1>b
    <2>13. CASE Ack(w)
      <3>1. k \notin hurt /\ Quiet(k)
        BY <2>13 DEF Ack, HandOver, Forget, Queued, Quiet, Working, Releasing
      <3> QED
        BY <3>1, QuietStep, <1>b
    <2>14. CASE AckFail(w)
      <3>1. k \notin hurt /\ Quiet(k)
        BY <2>14 DEF AckFail, HandOver, Forget, Fault, Queued, Quiet, Working, Releasing
      <3> QED
        BY <3>1, QuietStep, <1>b
    <2>15. CASE Crash(w)
      <3>1. k \notin hurt /\ Quiet(k)
        BY <2>15 DEF Crash, Fault, Forget, Queued, Quiet, Working, Releasing
      <3> QED
        BY <3>1, QuietStep, <1>b
    <2> QED
      BY <1>3, <2>1, <2>2, <2>3, <2>4, <2>5, <2>6, <2>7, <2>8, <2>9, <2>10, <2>11, <2>12, <2>13,
         <2>14, <2>15 DEF Step
  <1>4. ASSUME NEW w \in Workers, NEW m \in Messages, Release(w, m) PROVE Balanced(k)'
    <2>1. k \notin hurt /\ Quiet(k)
      BY <1>4 DEF Release, Quiet, Working, Releasing
    <2> QED
      BY <2>1, QuietStep, <1>b
  <1>5. ASSUME NEW w \in Workers, NEW m \in Messages, Inbox(w, m) PROVE Balanced(k)'
    <2>1. k \notin hurt /\ Quiet(k)
      BY <1>5 DEF Inbox, Quiet, Working, Releasing
    <2> QED
      BY <2>1, QuietStep, <1>b
  <1>6. CASE UNCHANGED vars
    <2>1. k \notin hurt /\ Quiet(k)
      BY <1>6 DEF vars, Quiet, Working, Releasing
    <2> QED
      BY <2>1, QuietStep, <1>b
  <1> QED
    BY <1>1, <1>2, <1>3, <1>4, <1>5, <1>6 DEF Next


\* Giving a claim up does not take the message out of the queue: a message that gt mail
\* claim does not list is in somebody's hands or some command is still working on it,
\* unless a command was interrupted or two releases overlapped.
THEOREM NothingStranded == Spec => []NotStranded
  <1>1. Typing /\ Balance => NotStranded
    <2> SUFFICES ASSUME Typing, Balance, NEW m \in Queued \ hurt,
                        Holders(m) = {}, ~\E w \in Workers : cur[w] = m
                 PROVE  Unclaimed(m)
      BY DEF NotStranded
    <2>1. m \in Messages /\ Working(m) = {}
      BY DEF Working, Holders, Queued
    <2>2. Fits(claimedBy[m], {}) /\ Fits(claimedAt[m], {})
      BY <2>1 DEF Balance, Balanced
    <2>3. IsFiniteSet(claimedBy[m]) /\ IsFiniteSet(claimedAt[m])
      BY <2>1, LabelsFinite DEF Typing
    <2>4. Cardinality(claimedBy[m]) = 0 /\ Cardinality(claimedAt[m]) = 0
      BY <2>2, <2>3, FS_EmptySet, FS_CardinalityType DEF Fits
    <2> QED
      BY <2>3, <2>4, FS_EmptySet DEF Unclaimed
  <1> QED
    BY <1>1, InitTyping, NextTyping, InitBalance, NextBalance, PTL DEF Spec
=============================================================================
