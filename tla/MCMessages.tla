----------------------------- MODULE MCMessages -----------------------------
EXTENDS FusioneeMessages, TLC

CONSTANTS f1, r1, w1, w2, k1, k2, k3

MCFid == (r1 :> f1) @@ (w1 :> f1) @@ (w2 :> f1)
MCReader == (f1 :> r1)

\* Calls of two keys, and a message that is not tracked (a plain
\* FUSION_SEND_MESSAGE).
MCMessage == {[id |-> k1, tracked |-> TRUE], [id |-> k2, tracked |-> TRUE],
              [id |-> k3, tracked |-> FALSE]}
=============================================================================
