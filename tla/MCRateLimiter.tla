----------------------------- MODULE MCRateLimiter -----------------------------
(***************************************************************************)
(* A small instance of RateLimiter: three requests of one identity against *)
(* a limit of two, and one without identity, long enough for requests to   *)
(* fall out of the window.                                                 *)
(***************************************************************************)
EXTENDS RateLimiter, TLC

CONSTANTS q1, q2, q3, q4, id

MCRequests == {q1, q2, q3, q4}
MCIds == {id}

MCIdOf == [r \in MCRequests |-> IF r = q4 THEN NoId ELSE id]

\* Requests of the same identity may change places.
MCSymmetry == Permutations({q1, q2, q3})
================================================================================
