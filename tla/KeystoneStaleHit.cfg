\* A context outlives its token in the cache.
SPECIFICATION Spec
CONSTANTS
    Requests = {r1}
    Subjects = {t1}
    SubjectLife = 1
    Lifetime = 3
    Timeout = 1
    Skew = 1
    MaxRevocations = 0
PROPERTY HitsAreLive
