------------------------- MODULE MCFastPublication -------------------------
(* Two clients: the first retries or reuses a key, the second follows up.   *)
EXTENDS FastPublication

CONSTANTS a, c1, c2, k1, k2

Ask(o, w, e) == [op |-> o, owner |-> w, expected |-> e]

MCAsks ==
    {<<c1, k1, Ask("claim", a, 1)>>, <<c2, k1, Ask("promote", None, 1)>>,
     <<c2, k2, Ask("heartbeat", a, 2)>>}
=============================================================================
