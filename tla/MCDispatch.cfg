CONSTANTS
    p = p
    q = q
    u1 = u1
    u2 = u2
    z1 = z1
    z2 = z2
    mon = mon
    i1 = i1
    i2 = i2
    o = o
    Planner = {p, q}
    Unit = {u1, u2}
    Zero = {z1, z2}
    Monitor = {mon}
    Stale = {q}
    NoUuid = NoUuid
    Nobody = Nobody
    MayLeave = {u1}
    Scenarios <- MCScenarios
    MaxRefused = 1
SPECIFICATION FairSpec
INVARIANTS OneUnitOneAnswer MonitorsFollow
PROPERTIES WorkIsAnswered GreetingEnds
CHECK_DEADLOCK FALSE
