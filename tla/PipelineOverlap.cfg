\* A message arrives while a turn of its chat is calling tools.
SPECIFICATION Spec
CONSTANTS
    c1 = c1
    None = None
    Messages = {m1, m2}
    Chats = {c1}
    Chat <- MCOneChat
    Triggers = {classify_and_route}
    Capacity = 4
    MaxIterations = 1
    MaxCalls = 1
    MaxRounds = 4
CHECK_DEADLOCK FALSE
INVARIANT ToolRoundsBounded
