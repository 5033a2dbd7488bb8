SPECIFICATION FairSpec
CONSTANTS
    Slots = {1, 2}
    Client <- Clients
    TEST1_BUF_SIZE = 2
    TEST_ITERATIONS = 2
    Scenarios <- AloneOrTogether
INVARIANTS
    AloneSucceeds

    
CHECK_DEADLOCK FALSE
