---------------------------- MODULE MCInterconnect ----------------------------
(* Two CPUs with a service each, and a FIFO that holds two frames.         *)
EXTENDS CCDSS

CONSTANTS c0, c1, t0, t1, s0, s1

MCCpu == (t0 :> c0) @@ (t1 :> c1)
MCFrames == Messages
MCOwner == (s0 :> t0) @@ (s1 :> t1)
=============================================================================
