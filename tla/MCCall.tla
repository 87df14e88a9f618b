------------------------------- MODULE MCCall -------------------------------
EXTENDS FusionCall, TLC

CONSTANTS f1, f2, r1, w1, t1, t2, c1

\* f1 owns the calls, with a dispatcher and a worker thread; two threads of
\* f2 call.
MCFid == (r1 :> f1) @@ (w1 :> f1) @@ (t1 :> f2) @@ (t2 :> f2)
MCReader == (f1 :> r1) @@ (f2 :> None)

World(major, env) == [api |-> major, env |-> env]

\* The old and the new API, with and without what disturbs a call.
MCDevs == {World(3, {"oneway", "destroy"}), World(3, {"destroy"}),
           World(8, {"oneway", "destroy"}),
           World(8, {"oneway", "signal", "destroy", "defer"}),
           World(8, {"oneway", "signal", "destroy", "leave", "defer"})}
Leaving == {World(8, {"leave"})}
=============================================================================
