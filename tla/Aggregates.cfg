\* Two resources, two metrics, two timestamps.
SPECIFICATION AggregateSpec
CONSTANTS
    Gone = Gone
    Failed = Failed
    Unasked = Unasked
    NoExpr = NoExpr
    MaxLevel = 4
    Largest = 5
    ParseFloat <- MCParseFloat
    Exprs <- MCExprs
    Level <- MCLevel
    Rests <- MCRests
    Matched <- MCMatched
    Answers <- MCAnswers
INVARIANT StatusExplained
INVARIANT TimesExplained
INVARIANT SExprMeansTree
INVARIANT NonFiniteExplained
\* A request has one answer.
CHECK_DEADLOCK FALSE
