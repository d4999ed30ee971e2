\* Every filter of up to five characters.
SPECIFICATION Spec
CONSTANTS
    Chars = {" ", "(", "=", "<", "!", "'", "dq", "w", "and"}
    Keywords = {"and"}
    MaxLen = 5
    MaxTokens = 7
INVARIANT Partition
INVARIANT Whole
PROPERTY EndsOrStuck
CHECK_DEADLOCK FALSE
