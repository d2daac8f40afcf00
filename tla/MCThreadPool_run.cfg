SPECIFICATION FairSpec
CONSTANTS
    Worker = {w1, w2, w3}
    Task = {t1, t2, t3, t4}
    MaxThreads = 2
INVARIANTS CountersExact FinishedJoinable NoTaskAbandoned
PROPERTIES ThreadsFrozenOnJoin PoolSpec
CHECK_DEADLOCK FALSE
