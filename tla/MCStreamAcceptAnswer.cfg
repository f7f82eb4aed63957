CONSTANT MaxClients = 2
SPECIFICATION Spec
INVARIANT AcceptedOrClosed
CHECK_DEADLOCK FALSE
