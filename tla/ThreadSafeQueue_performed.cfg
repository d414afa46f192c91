\* performedTasksQueue: three workers push, the loop drains.
CONSTANTS
    NoThread = NoThread
    Pushers = {w1, w2, w3}
    Waiters = {}
    Pollers = {loop}
    MaxPushes = 5
SPECIFICATION FairDrainSpec
INVARIANTS DrainFinds
PROPERTIES PerformedAreTaken
