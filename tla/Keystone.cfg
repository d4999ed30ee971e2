\* Two requests present a token; the margin is as large as the timeout.
SPECIFICATION FairSpec
CONSTANTS
    Requests = {r1, r2}
    Subjects = {t1}
    SubjectLife = 2
    Lifetime = 3
    Timeout = 1
    Skew = 1
    MaxRevocations = 2
INVARIANT TypeOK
INVARIANT ServiceTokenLiveAtUse
INVARIANT AdmittedWasConfirmed
PROPERTY GoneStaysGone
PROPERTY Answered
PROPERTY ServiceRecovers
