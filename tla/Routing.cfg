\* New pairs on an open subscription, configured pools on a closed one, and
\* sample events, with requests that put the made-up pool into the repository.
SPECIFICATION Spec
CONSTANTS
    old = old
    v3 = v3
    n1 = n1
    n2 = n2
    n3 = n3
    fork = fork
    w = w
    x = x
    y = y
    z = z
    t0 = t0
    t1 = t1
    Sample = Sample
    Factory = Factory
    Copycat = Copycat
    Anything = Anything
    Absent = Absent
    Pools = {old, v3, n1, n2, n3, fork, Sample}
    V3Pools = {v3}
    Foreign = {fork}
    Tokens = {w, x, y, z, t0, t1}
    TokensOf <- MCTokensOf
    Configs <- MCConfigs
    MaxLogs = 5
INVARIANTS
    TypeOK
    EachLogOnceInItsPool
    FollowsWhatConnects
\* every log handled
CHECK_DEADLOCK FALSE
