SPECIFICATION Spec
PROPERTIES
    NodeFollows
    ClientsAreTold
    InterruptedIsFinished
    RefusalEnds
CHECK_DEADLOCK FALSE
