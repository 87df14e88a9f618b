----------------------------- MODULE MCBroadcast -----------------------------
EXTENDS FusionBroadcast, TLC

CONSTANTS f1, f2, f3, t1, t2, t3, p1, p2, p3

\* Each fusionee has one thread, which makes its ioctls and reads.
MCFid == (t1 :> f1) @@ (t2 :> f2) @@ (t3 :> f3)
MCReader == (f1 :> t1) @@ (f2 :> t2) @@ (f3 :> t3)

NoFork == [f \in Fusionees |-> None]
Two == {f1, f2}

\* The child f3 of f2 is there in the worlds that fork, and no other is
\* there but for the fusionees named.
World(env, there, dispatchers) ==
  [env |-> env, there |-> there, dispatchers |-> dispatchers, parent |-> NoFork,
   reactor |-> "gone", pools |-> {}, channels |-> {1}, most |-> 1, alone |-> TRUE]
Forking(w) == [w EXCEPT !.parent[f3] = f2]
Reactor(w) == [w EXCEPT !.reactor = "unborn"]
PoolsOf(w, ps) == [w EXCEPT !.pools = ps]

Leaving == Reactor(World({"attach", "callback", "leave"}, Two, {f1}))

MCStarts == {
  Reactor([World({"attach", "callback", "destroy"}, Two, Two) EXCEPT !.most = 2]),
  Reactor([World({"attach", "detach"}, Two, {f1}) EXCEPT !.channels = {1, 2}]),
  Reactor(World({"attach", "callback", "detach"}, Two, {f1})),
  Reactor(World({"attach", "callback"}, Fusionees, {f1})),
  Reactor(World({"attach", "callback", "leave", "destroy"}, Two, {f1})),
  Forking(Reactor(World({"attach", "callback", "leave", "destroy"}, {f2, f3}, {f2}))),
  [Leaving EXCEPT !.env = @ \cup {"signal", "destroy"}, !.alone = FALSE],
  Forking(PoolsOf(World({"attach", "leave"}, Fusionees, {}), {p1})),
  Forking(PoolsOf(World({"attach"}, {f2, f3}, {f2}), {p1})),
  PoolsOf(World({"attach"}, Two, Two), {p1}),
  PoolsOf(World({"attach", "leave"}, Two, {f1}), {p1}),
  PoolsOf(World({"attach", "detach"}, Two, {f1}), {p1}),
  PoolsOf(World({"destroy"}, {f1}, {}), {p1, p2, p3})}
=============================================================================
