------------------------------- MODULE MCRef --------------------------------
EXTENDS FusionRef, TLC

CONSTANTS r1, r2, r3, t1, t2, f1, f2

MCFid == (t1 :> f1) @@ (t2 :> f2)
MCMaxGlobal == (r1 :> 1) @@ (r2 :> 0) @@ (r3 :> 0)

\* Two applications on two references, and one on three, enough for a
\* reference that inherits what another one inherits; and two that fork.
Forking == {[refs |-> {r1}, threads |-> {t1, t2}, fork |-> TRUE]}
TwoOneForking == {[refs |-> {r1, r2}, threads |-> {t1, t2}, fork |-> FALSE],
                  [refs |-> {r1, r2, r3}, threads |-> {t1}, fork |-> FALSE]} \cup Forking
=============================================================================
