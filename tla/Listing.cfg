\* Three ids, two keys, up to two rows each; every page has room for them.
SPECIFICATION Spec
CONSTANTS
    Ids = {1, 2, 3}
    Keys = {1, 2}
    MaxCopies = 2
    Limits = {0, 2, 7}
    MaxInt = 7
    MaxChanges = 2
INVARIANT SteadyReturned
 
 
