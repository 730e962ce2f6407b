\* Three workers and two submitting threads, three tasks: more workers than
\* tasks and fewer workers than tasks both occur along the way.
CONSTANTS
    Worker = {w1, w2, w3}
    Submitter = {s1, s2}
    Task = {t1, t2, t3}
    NoTask = NoTask
SPECIFICATION FairSpec
INVARIANTS OneWorkerPerTask NoLostWakeup
PROPERTIES EveryTaskRuns DestructorReturns ImplementsExecutor
CHECK_DEADLOCK FALSE
