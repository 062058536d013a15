SPECIFICATION ChannelsSpec
CONSTANTS
    Channels = {1, 2, 3, 4}
    Fds = {0, 1, 2}
    FdOf <- MCFdOf
    Happenings <- MCHappenings
    InitEventListSize = 1
    Careful = TRUE
INVARIANTS
    AssertsHold
PROPERTIES
    ImplementsPoller
CHECK_DEADLOCK FALSE
