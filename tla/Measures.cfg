\* Every request of the family against three configurations and three stores.
SPECIFICATION Spec
CONSTANTS
    Second <- MCSecond
    Minute <- MCMinute
    Hour <- MCHour
    MaxDuration <- MCMaxDuration
    Now <- MCNow
    Scrape <- MCMinute
    MaxPoints = 41
    Requests <- MCRequests
    Configs <- MCConfigs
    Stores <- MCStores
    Codes <- MCCodes
INVARIANT ProperAnswered
INVARIANT Covered
INVARIANT EachCounted
INVARIANT RateSeen
INVARIANT StatusOfSeries
\* A request has one answer.
CHECK_DEADLOCK FALSE
