----------------------------- MODULE MCMailQueue -----------------------------
(* Model-checking instance of MailQueue: workers and messages are numbers,   *)
(* ordered as bd lists them, so that no symmetry applies.                    *)
EXTENDS MailQueue
=============================================================================
