CONSTANT MaxClients = 2
SPECIFICATION FairSpec
INVARIANT TypeOK
INVARIANT AcceptsPending
INVARIANT AnsweredUnlessRemoved
PROPERTY ListenSpec
PROPERTY ListenerFollows
PROPERTY ClosePropagates
CHECK_DEADLOCK FALSE
