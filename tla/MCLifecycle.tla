----------------------------- MODULE MCLifecycle -----------------------------
EXTENDS FusionLifecycle, TLC

CONSTANTS p1, p2, p3, m1, m2, m3

\* p3 complies with the others, and they do not when it is the master.
MCApi == (p1 :> [major |-> 8, minor |-> 1])
      @@ (p2 :> [major |-> 8, minor |-> 1])
      @@ (p3 :> [major |-> 8, minor |-> 0])

World(env, alive, killers, targets) ==
  [env |-> env, alive |-> alive, clients |-> Procs, killers |-> killers, targets |-> targets]
Two == {p1, p2}

MCStarts == {
  World({"force"}, Procs, {}, {}),
  World({"close", "force"}, Two, {}, {}),
  World({"exit", "again"}, {p1, p3}, {p1}, {0, 1}),
  World({}, Two, Two, {0}),
  World({"ignore"}, Two, {p1}, {2}),
  [World({"fork"}, Two, {p1}, {0}) EXCEPT !.clients = Two]}
=============================================================================
