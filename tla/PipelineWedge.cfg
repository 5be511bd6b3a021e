\* Two messages and a channel of one place.
SPECIFICATION FairSpec
CONSTANTS
    c1 = c1
    None = None
    Messages = {m1, m2}
    Chats = {c1}
    Chat <- MCOneChat
    Triggers = {classify_and_route}
    Capacity = 1
    MaxIterations = 1
    MaxCalls = 1
    MaxRounds = 1
CHECK_DEADLOCK FALSE
PROPERTY RunsToQuiescence
