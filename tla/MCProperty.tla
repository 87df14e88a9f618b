----------------------------- MODULE MCProperty -----------------------------
EXTENDS FusionProperty, TLC

CONSTANTS p1, p2, t1, t2, t3, f1, f2

\* The master, with one thread, and two threads of another application.
MCFid == (t1 :> f1) @@ (t2 :> f2) @@ (t3 :> f2)
=============================================================================
