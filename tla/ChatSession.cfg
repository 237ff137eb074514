\* Turns of every kind, and chats opened and deleted meanwhile.
SPECIFICATION FairSpec
CONSTANTS
    first = first  second = second  third = third
    chatA = chatA  chatB = chatB  None = None
    Sends <- ThreeSends
    KindOf <- OneEach
    Chats <- MCChats
    MaxSends = 2
    MaxLoads = 2
INVARIANTS SettledBubbleIsOwn ChatsDoNotMix
PROPERTIES BusyClears
