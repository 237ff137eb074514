\* Two chat turns under one turnId, and a plain turn.
SPECIFICATION FairSpec
CONSTANTS
    chat1 = chat1  chat2 = chat2  ask = ask
    id1 = id1  id2 = id2
    None = None
    Turns <- MCTurns
    TurnIds <- MCTurnIds
    IdOf <- MCIdOf
    KindOf <- MCKind
    MAX_STEPS = 2
    MaxCalls = 1
INVARIANTS TranscriptComplete RegistryExact StreamMatchesTrace
PROPERTIES CancelStopsWork CancelIsNoFailure TurnAnswered
