----------------------------- MODULE MergeQueue -----------------------------
(***************************************************************************)
(* What a merge queue promises: merge requests are submitted, their        *)
(* changes land on the target branch one at a time, and a request is       *)
(* finished as merged only after its change has landed.  The promise is    *)
(* the one of the MR states in src/internal/refinery (open, closed as      *)
(* merged, closed as rejected).                                            *)
(***************************************************************************)
CONSTANT MRs
VARIABLES landed, state

Init == landed = {} /\ state = [m \in MRs |-> "none"]

Submit(m) ==
    /\ state[m] = "none"
    /\ state' = [state EXCEPT ![m] = "open"]
    /\ UNCHANGED landed

Land(m) ==
    /\ state[m] # "none" /\ m \notin landed
    /\ landed' = landed \cup {m}
    /\ UNCHANGED state

\* A request that was rejected while its change was being pushed is recorded
\* as merged, because it is.
Finish(m) ==
    /\ m \in landed /\ state[m] \in {"open", "rejected"}
    /\ state' = [state EXCEPT ![m] = "merged"]
    /\ UNCHANGED landed

Reject(m) ==
    /\ state[m] = "open"
    /\ state' = [state EXCEPT ![m] = "rejected"]
    /\ UNCHANGED landed

Next == \E m \in MRs : Submit(m) \/ Land(m) \/ Finish(m) \/ Reject(m)

Spec == Init /\ [][Next]_<<landed, state>>
=============================================================================
