\* The same appends; any refusal is an error.
SPECIFICATION Spec
CONSTANTS
    r1 = r1  r2 = r2  r3 = r3  s1 = s1  s2 = s2
    Torn = Torn  None = None
    Reqs <- MCReqs
    Streams <- MCStreams
    StreamOf <- MCStreamOf
SYMMETRY MCSymmetry
INVARIANT CrashIsRepaired
CHECK_DEADLOCK FALSE
