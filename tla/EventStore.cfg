\* Three appends to two streams, with failing calls, kills and power failures.
SPECIFICATION Spec
CONSTANTS
    r1 = r1  r2 = r2  r3 = r3  s1 = s1  s2 = s2
    Torn = Torn  None = None
    Reqs <- MCReqs
    Streams <- MCStreams
    StreamOf <- MCStreamOf
SYMMETRY MCSymmetry
INVARIANTS AckedSurvives AckedServed IdDenotesOneEvent KilledStoreReopens
CHECK_DEADLOCK FALSE
