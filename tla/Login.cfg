\* Two attempts, the browser, oosiam and the admin panel.
SPECIFICATION Spec
CONSTANTS
    a1 = a1  a2 = a2  admin = admin  staff = staff  boss = boss
    code1 = code1  code2 = code2  None = None
    Attempts <- MCAttempts
    Users <- MCUsers
    Admin = admin
    Groups <- MCGroups
    Codes <- MCCodes
    CodeTtl = 1
    MaxClock = 2
SYMMETRY MCSymmetry
INVARIANTS AnswerIsForThisLogin CodeGrantsOnce RevocationTakesHold
