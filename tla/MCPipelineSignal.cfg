\* The comment at read.cpp:547 against the unlocked notification.

SPECIFICATION FairSpec
CONSTANTS
    q3a = q3a
    q3b = q3b
    d3a = d3a
    d3b = d3b
    q4 = q4
    Q3 <- Q3Tasks
    Q4 <- Q4Tasks
    Destroyer <- DestroyerOf
    NrWorkers = 2

PROPERTIES Q2Starts
CHECK_DEADLOCK FALSE
