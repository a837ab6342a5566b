---------------------------- MODULE MCCacheStaleness ----------------------------
(***************************************************************************)
(* A small instance of CacheStaleness: four requests over three keys with  *)
(* room for two entries, so that the cache fills, a key is stored twice    *)
(* and entries are evicted, expire, are deleted and cleared.               *)
(***************************************************************************)
EXTENDS CacheStaleness, TLC

CONSTANTS c1, c2, c3, c4, ka, kb, kc

MCTasks == {c1, c2, c3, c4}
MCKeys == {ka, kb, kc}

MCKeyOf == [t \in MCTasks |-> CASE t \in {c1, c2} -> ka
                                [] t = c3 -> kb
                                [] t = c4 -> kc]

\* The two requests of ka may change places.
MCSymmetry == Permutations({c1, c2})
================================================================================
