SPECIFICATION FairSpec
CONSTANTS
    Commands = {stop, start}
    Pollers = {service, operator}
    Service = service
    MaxTime = 1
    None = None
INVARIANTS OutcomesAreTrue RunsOnce
PROPERTIES EveryCommandSettles FollowsQueue
CHECK_DEADLOCK FALSE
