SPECIFICATION FairSpec
CONSTANT MaxGeneration = 4
INVARIANTS NoLeakedSocket
PROPERTIES QuietAfterClose ConnectSettles
CHECK_DEADLOCK FALSE
