----------------------------- MODULE MCIdempotency -----------------------------
(***************************************************************************)
(* A small instance of Idempotency: three attempts with one key, so that a *)
(* late first owner, its successor and a third request meet, and one       *)
(* request without a key.                                                  *)
(***************************************************************************)
EXTENDS Idempotency

CONSTANTS a1, a2, a3, p1, ka

MCRequests == {a1, a2, a3, p1}
MCKeys == {ka}
MCKeyOf == [r \in MCRequests |-> IF r = p1 THEN NoKey ELSE ka]
================================================================================
