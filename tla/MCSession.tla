------------------------------- MODULE MCSession -------------------------------
(***************************************************************************)
(* Small instances of Session: three requests, one through each form of    *)
(* the middleware, with one session in the store and two unused ids.       *)
(***************************************************************************)
EXTENDS Session

CONSTANTS s1, s2, s3, i0, i1, i2

MCRequests == {s1, s2, s3}
MCIds == {i0, i1, i2}
MCStored == {i0}

MCModes == [r \in MCRequests |-> CASE r = s1 -> "optional"
                                   [] r = s2 -> "required"
                                   [] r = s3 -> "required_session"]
================================================================================
