SPECIFICATION FairSpec
CONSTANTS
    Unparsable = Unparsable
    Int32 = 16
    p1 = p1
    p2 = p2
    Processes = {p1, p2}
    Busy = {p1}
    File <- MCFile
    Environments <- MCEnvironments
    Step = 10
    MaxDelay = 10
    JobTime = 20
    MaxFaults = 2
INVARIANTS ReadyIsFresh AliveIsReady
PROPERTIES StopIsGraceful ReadyAgain
CHECK_DEADLOCK FALSE
