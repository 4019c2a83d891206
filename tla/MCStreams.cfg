CONSTANTS
    s1 = s1
    s2 = s2
    s3 = s3
    m1 = m1
    m2 = m2
    Stream = {s1, s2, s3}
    Member = {m1, m2}
    NoStream = NoStream
    MemberOf <- MCMemberOf
SPECIFICATION StreamSpec
INVARIANT PublishReachesConnected
CHECK_DEADLOCK FALSE
