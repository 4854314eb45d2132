---------------------------- MODULE MCDoltServer ----------------------------
(* Model-checking instance of DoltServer.                                    *)
EXTENDS DoltServer, TLC

\* Prune keeps what SelectSeq selects, on sequences of up to four restart times.
ASSUME PruneAssumption ==
    \A n \in 0..4 : \A s \in [1..n -> 0..Window] :
        Prune(s) = SelectSeq(s, LAMBDA age : age < Window)
=============================================================================
