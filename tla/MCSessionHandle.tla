---------------------------- MODULE MCSessionHandle ----------------------------
(***************************************************************************)
(* Small instances of SessionHandle: a handler and two tasks it spawned.   *)
(***************************************************************************)
EXTENDS SessionHandle

CONSTANTS h, t1, t2

MCTasks == {h, t1, t2}
================================================================================
