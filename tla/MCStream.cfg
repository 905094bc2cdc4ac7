CONSTANT MaxData = 4
SPECIFICATION FairSpec
CHECK_DEADLOCK FALSE
INVARIANTS FedIsRun NothingMissedLater EofIsLast EndIsTold ReaderUnbroken
PROPERTY EveryOpenEnds
