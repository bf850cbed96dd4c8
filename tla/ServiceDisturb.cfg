\* One request for a V3 swap and one for a V2 pool that is known.
SPECIFICATION Spec
CONSTANTS
    V3Live = V3Live
    q1 = q1
    q2 = q2
    p1 = p1
    p2 = p2
    p3 = p3
    p4 = p4
    tokA = tokA
    tokB = tokB
    tokC = tokC
    tokS = tokS
    tokU = tokU
    Sample = Sample
    V3Sample = V3Sample
    Absent = Absent
    Pools = {Sample, p1, p2, p3, p4}
    V3Pools = {V3Sample, V3Live}
    Tokens = {tokA, tokB, tokC, tokS, tokU}
    Requests = {q1, q2}
    Asked = {Sample, p1}
    FirstKnown <- MCFirstKnown
    TokensOf <- MCTokensOf
    SampleState <- MCSampleState
    FirstState <- MCFirstState
    NewStates <- MCNewStates
    Followed = {p1}
    Amounts = {10}
    V3Amounts = {200, 990}
    MaxU128 = 1000
    MaxU256 = 20000000
    FeeDenom = 400
    V2Fee = 1
    V3Fee = 4
    Q = 200
    V3SqrtPrice = 200
    OverflowChecks = FALSE
    MaxHops = 4
    SampleEvents = TRUE
    MaxUpdates = 1
    Iterations = 2
INVARIANT RequestsDoNotDisturb
\* a service or a command that has ended
CHECK_DEADLOCK FALSE
