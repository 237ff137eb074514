---------------------------- MODULE MCEventStore ----------------------------
(* Small instances of EventStore: three requests to two streams.            *)
EXTENDS EventStore, TLC

CONSTANTS r1, r2, r3, s1, s2

MCReqs == {r1, r2, r3}
MCStreams == {s1, s2}
MCStreamOf == (r1 :> s1) @@ (r2 :> s1) @@ (r3 :> s2)

\* Two requests to one stream may change places.
MCSymmetry == Permutations({r1, r2})
=============================================================================
