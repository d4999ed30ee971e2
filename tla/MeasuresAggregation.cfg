SPECIFICATION Spec
CONSTANTS
    Second <- MCSecond
    Minute <- MCMinute
    Hour <- MCHour
    MaxDuration <- MCMaxDuration
    Now <- MCNow
    Scrape <- MCMinute
    MaxPoints = 41
    Requests <- MCRequests
    Configs <- MCConfigs
    Stores <- MCStores
    Codes <- MCCodes
INVARIANT AggregationHonoured
\* A request has one answer.
CHECK_DEADLOCK FALSE
