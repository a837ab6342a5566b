---------------------------- MODULE MCSingleflight ----------------------------
(***************************************************************************)
(* Small instances of Singleflight: three requests of one key and one of   *)
(* another, so that a key sees a leader with two followers and a second    *)
(* leader after the first, spread over two workers.                        *)
(***************************************************************************)
EXTENDS Singleflight

CONSTANTS r1, r2, r3, r4, k1, k2, w1, w2

MCRequests == {r1, r2, r3, r4}
MCKeys == {k1, k2}
MCWorkers == {w1, w2}

MCKeyOf == [r \in MCRequests |-> IF r = r4 THEN k2 ELSE k1]

\* r1 shares its worker with r4; r2 and r3 run on the other one.
MCTwoWorkers == [r \in MCRequests |-> IF r \in {r1, r4} THEN w1 ELSE w2]
===============================================================================
