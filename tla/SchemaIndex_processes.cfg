\* Two oosai processes and one command in flight at a time.
CONSTANTS
    a1 = a1  b1 = b1  a3 = a3  bad = bad
    None = None
    Keys <- MCKeys
    Ids <- MCIds
    Sources = {a1, b1, bad}
    NameOf <- MCNameOf
    Saves <- MCSaves
    Procs = {p1, p2}
    Tasks = {t1}
SYMMETRY Symmetry
SPECIFICATION Spec
INVARIANTS CleanBootReconciles SearchableUnlessExcused
PROPERTIES LiveChunkKept ImplementsDerivedIndex
