\* tasksQueue: the loop pushes, three workers wait.
CONSTANTS
    NoThread = NoThread
    Pushers = {loop}
    Waiters = {w1, w2, w3}
    Pollers = {}
    MaxPushes = 5
SPECIFICATION FairSpec
INVARIANTS NoLostWakeup
PROPERTIES Linearizable
