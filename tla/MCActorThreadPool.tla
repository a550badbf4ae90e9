-------------------------- MODULE MCActorThreadPool --------------------------
(***************************************************************************)
(* Small instances of ActorThreadPool; the configurations give the sets.   *)
(***************************************************************************)
EXTENDS ActorThreadPoolProperties

CONSTANTS a1, a2, sub1, sub2, w1, w2, k1, k2, k3, k4
=============================================================================
