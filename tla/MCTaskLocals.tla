------------------------------ MODULE MCTaskLocals ------------------------------
(***************************************************************************)
(* Small instances of TaskLocals: one worker thread and three requests,    *)
(* one behind each middleware and one behind none.  A word has two bits.   *)
(***************************************************************************)
EXTENDS TaskLocals

CONSTANTS r1, r2, r3

MCRequests == {r1, r2, r3}
MCModes == [r \in MCRequests |-> CASE r = r1 -> "pagination"
                                   [] r = r2 -> "attach"
                                   [] r = r3 -> "none"]
================================================================================
