----------------------------- MODULE MCSkirmish -----------------------------
EXTENDS FusionSkirmish, TLC

CONSTANTS s1, t1, t2, t3, f1, f2

\* Two threads of one application and one of another.
MCFid == (t1 :> f1) @@ (t2 :> f1) @@ (t3 :> f2)
=============================================================================
