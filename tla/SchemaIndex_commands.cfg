\* One oosai process, two commands in flight at a time; every task and every
\* boot is scheduled.
CONSTANTS
    a1 = a1  b1 = b1  a3 = a3  bad = bad
    None = None
    Keys = {1, 3}
    Ids = {1}
    Sources = {a1, b1, a3, bad}
    NameOf <- MCNameOf
    Saves <- OneIdSaves
    Procs = {p1}
    Tasks = {t1, t2}
SPECIFICATION FairSpec
PROPERTIES CommandAnswered BackfillEnds
