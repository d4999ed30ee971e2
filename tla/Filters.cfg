\* Flat filters of up to six parts, and trees of depth three.
SPECIFICATION FilterSpec
CONSTANTS
    None = None
    NaN = NaN
    NoBody = NoBody
    NoResource = NoResource
    Pending = Pending
    Fields = {"a", "b"}
    NilText = 50
    MaxWritten = 6
    MaxHeight = 2
    Values <- MCValues
    Printed <- MCPrinted
    Patterns <- MCPatterns
    Comparisons <- MCComparisons
    Strays <- MCStrays
    Trees <- MCTrees
    Height <- MCHeight
    Writable <- MCWritable
INVARIANT FlatMeansTree
INVARIANT BeginningParsed
INVARIANT OrderedAlike
\* A request has one answer.
CHECK_DEADLOCK FALSE
