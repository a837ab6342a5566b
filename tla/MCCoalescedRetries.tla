--------------------------- MODULE MCCoalescedRetries ---------------------------
(***************************************************************************)
(* A small instance of CoalescedRetries: three attempts with one key, the  *)
(* first on a worker of its own.                                           *)
(***************************************************************************)
EXTENDS CoalescedRetries

CONSTANTS a1, a2, a3, ka, w1, w2

MCRequests == {a1, a2, a3}
MCKeys == {ka}
MCWorkers == {w1, w2}
MCKeyOf == [r \in MCRequests |-> ka]
MCWorkerOf == [r \in MCRequests |-> IF r = a1 THEN w1 ELSE w2]
================================================================================
