SPECIFICATION AdmissionSpec
CONSTANTS
    t1 = t1
    t2 = t2
    t3 = t3
    s1 = s1
    s2 = s2
    s3 = s3
    Tokens = {t1, t2, t3}
    Sessions = {s1, s2, s3}
    OwnerSession = s1
    NoSession = none
    MaxRedemptions = 2
    MaxTtl = 1
    Retention = 1
    MaxTime = 3
    MaxGroupMembers = 3
    MaxActiveInvites = 2
SYMMETRY MCSymmetry
INVARIANTS
    JudgesAgree
    AdmissionSafe
PROPERTIES
    RedeemedMeansReserved
    InviteEndsForGood
