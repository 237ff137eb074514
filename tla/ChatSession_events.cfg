\* An event of another turn fills the bubble.
SPECIFICATION Spec
CONSTANTS
    first = first  second = second  third = third
    chatA = chatA  chatB = chatB  None = None
    Sends <- TwoSends
    KindOf <- AllChat
    Chats <- MCChats
    MaxSends = 2
    MaxLoads = 1
INVARIANTS EventsFillOwnBubble
