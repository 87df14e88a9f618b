------------------------------ MODULE MCWorld -------------------------------
EXTENDS FusionWorld, TLC

CONSTANTS f1, f2, r1, w1, t1, t2, c1, s1

\* f1 owns the call, with a dispatcher and another thread; two threads of f2
\* call.
MCFid == (r1 :> f1) @@ (w1 :> f1) @@ (t1 :> f2) @@ (t2 :> f2)
MCReader == (f1 :> r1) @@ (f2 :> None)

Calm == {[api |-> 8, env |-> {}]}
MCDevs == {[api |-> 8, env |-> {"oneway", "destroy"}], [api |-> 8, env |-> {"signal"}]}
=============================================================================
