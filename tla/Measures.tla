------------------------------- MODULE Measures -------------------------------
(* Measures of one metric: the parameters of a request, the range query the  *)
(* proxy makes of them and the measures it makes of the answer               *)
(* (internal/server/service.go, internal/prom/client.go and the queries of   *)
(* internal/catalog/definitions.go), with the archive policy that names the  *)
(* granularities (internal/server/server.go).                                *)
(*                                                                           *)
(* Time is counted in ticks, Second of them in a second.  A granularity is a *)
(* record: its form, its length in ticks if Go parses it as a duration,      *)
(* whether PromQL reads the same text as a duration, and its letter if it is *)
(* a calendar unit.  A bare number has no letter in it.                      *)
EXTENDS Integers, FiniteSetsExt, Functions

CONSTANTS
    Second, Minute, Hour,   \* in ticks
    MaxDuration,            \* largest time.Duration, 2^63 - 1 ns, in ticks
    Now,                    \* time of the request
    Scrape,                 \* Prometheus scrapes every Scrape ticks
    MaxPoints,              \* instants Prometheus evaluates in one range query
    Requests,               \* what clients ask
    Configs,                \* the api section of the configuration
    Stores,                 \* what Prometheus has, by series
    Codes                   \* StatusMap of a status metric

ASSUME MeasuresAssumption ==
    /\ Second \in Nat \ {0} /\ Minute \in Nat \ {0} /\ Hour \in Nat \ {0}
    /\ Minute % Second = 0 /\ Hour % Minute = 0
    /\ Scrape \in 1..Minute
    /\ MaxDuration \in Nat /\ 24 * 8760 * Hour <= MaxDuration

VARIABLES
    request,   \* what the client asks
    config,
    store,
    params,    \* measureParams, or Unset
    streams,   \* decoded answer of Prometheus: values by series and instant
    status,    \* of the response, 0 while there is none
    series,    \* measures of the response, by time
    policy     \* granularities and points of the archive policy

vars == <<request, config, store, params, streams, status, series, policy>>

Unset == [start |-> 0, end |-> 0, step |-> 0, window |-> 0, promql |-> FALSE, aggregation |-> ""]
Nothing == [x \in {} |-> 0]
-----------------------------------------------------------------------------
(* normalizeGranularity: a bare number is given the unit "s".                *)
NormalizeGranularity(g) == IF g.form = "bare" THEN [g EXCEPT !.form = "duration"] ELSE g

Steps == [W |-> 168, M |-> 720, Q |-> 2160, H |-> 4368, Y |-> 8760]     \* hours
Windows == [W |-> 168, M |-> 720, Q |-> 2160, H |-> 4380, Y |-> 8760]

Granularity ==
    {g \in [form : {"none", "bare", "duration", "calendar", "other"}, ticks : Int,
            promql : BOOLEAN, unit : STRING] :
        g.form = "calendar" => g.unit \in DOMAIN Steps}
Stamp == {"none", "at", "bad"}

(* What may be asked, configured (Validate of internal/config/config.go) and *)
(* scraped.                                                                  *)
ASSUME InputsAssumption ==
    /\ Now \in Int /\ MaxPoints \in Nat
    /\ Requests \subseteq
          [route : {"measures", "aggregate", "policy"},
           kind : {"plain", "summed", "rate", "presence", "status"},
           granularity : Granularity, resample : Granularity, start : Stamp, stop : Stamp,
           at : Int \X Int, aggregation : STRING, method : STRING]
    /\ \A c \in Configs :
          /\ c.default \in Granularity /\ c.default.form # "none"
          /\ c.aggregation \in c.aggregations
    /\ \A have \in Stores :
          /\ IsFiniteSet(DOMAIN have)
          /\ \A s \in DOMAIN have :
                have[s].from \in Int /\ have[s].to \in Int /\ have[s].high \subseteq Int

ParsePromStep(g) == IF g.form = "calendar" THEN Steps[g.unit] * Hour ELSE g.ticks

(* Mutant: the half year is left with the window of the quarter. *)
PromWindowQuarter(g) ==
    IF g.form = "calendar"
    THEN Windows[IF g.unit = "H" THEN "Q" ELSE g.unit] * Hour
    ELSE g.ticks

PromWindow(g) == IF g.form = "calendar" THEN Windows[g.unit] * Hour ELSE g.ticks

(* Product of a constant and a time.Duration, which wraps.                   *)
WrapDuration(n) == ((n + MaxDuration + 1) % (2 * (MaxDuration + 1))) - (MaxDuration + 1)

OutputGranularity ==
    IF request.resample.form # "none" THEN NormalizeGranularity(request.resample)
    ELSE IF request.granularity.form # "none" THEN NormalizeGranularity(request.granularity)
    ELSE config.default

EndOf == IF request.stop = "none" THEN Now ELSE request.at[2]

(* Mutant: the sign of the default is lost. *)
StartOfForward ==
    IF request.start = "none"
    THEN EndOf + WrapDuration(24 * ParsePromStep(OutputGranularity))
    ELSE request.at[1]

StartOf ==
    IF request.start = "none"
    THEN EndOf + WrapDuration(-24 * ParsePromStep(OutputGranularity))
    ELSE request.at[1]

AggregationOf == IF request.aggregation = "" THEN config.aggregation ELSE request.aggregation

Improper ==
    \/ OutputGranularity.form \notin {"duration", "calendar"}
    \/ "bad" \in {request.start, request.stop}
    \/ StartOf >= EndOf
    \/ AggregationOf \notin config.aggregations

ParamsOf ==
    [start |-> StartOf, end |-> EndOf,
     step |-> ParsePromStep(OutputGranularity),
     window |-> PromWindow(OutputGranularity),
     promql |-> OutputGranularity.form = "calendar" \/ OutputGranularity.promql,
     aggregation |-> IF request.route = "aggregate" /\ request.method # ""
                     THEN request.method ELSE AggregationOf]
-----------------------------------------------------------------------------
(* Prometheus: what it has of a series at an instant.                        *)
Present(t) == {s \in DOMAIN store : store[s].from <= t /\ t <= store[s].to}
Level(s, t) == IF t \in store[s].high THEN 7 ELSE 2

Sum(f) == FoldFunction(+, 0, f)
Summed(f) == IF DOMAIN f = {} THEN f ELSE [x \in {"sum"} |-> Sum(f)]

(* Mutant: rates look back no further than the window. *)
MinRateLookbackWindow(window) == window

MinRateLookback(window) == IF window < 2 * Minute THEN 2 * Minute ELSE window

(* The scrapes of a series that a rate at an instant can use.                *)
Scraped(s, t, lookback) ==
    {k \in ((t - lookback) \div Scrape + 1)..(t \div Scrape) : s \in Present(k * Scrape)}

(* The expression inside the window, for each kind of metric: one series per *)
(* match of a selector, their sum over the join, a sum of rates.             *)
Inner(t) ==
    IF request.kind = "plain" THEN [s \in Present(t) |-> Level(s, t)]
    ELSE IF request.kind = "summed" THEN Summed([s \in Present(t) |-> Level(s, t)])
    ELSE Summed([s \in {r \in DOMAIN store :
                          Cardinality(Scraped(r, t, MinRateLookback(params.window))) >= 2}
                   |-> 1])

(* rangeWrapped: <function>((expr)[window:window]); a subquery is evaluated  *)
(* at the multiples of its step.                                             *)
SubqueryStep(window) == window
Subquery(t, window) ==
    LET step == SubqueryStep(window)
    IN {k * step : k \in ((t - window) \div step + 1)..(t \div step)}

OverTime(f) ==
    CASE params.aggregation = "max" -> Max(Range(f))
      [] params.aggregation = "min" -> Min(Range(f))
      [] params.aggregation = "sum" -> Sum(f)
      [] params.aggregation = "count" -> Cardinality(DOMAIN f)
      [] params.aggregation = "last" -> f[Max(DOMAIN f)]
      [] OTHER -> Sum(f) \div Cardinality(DOMAIN f)

RangeWrapped(t) ==
    LET at == [u \in Subquery(t, params.window) |-> Inner(u)]
    IN [s \in UNION {DOMAIN at[u] : u \in DOMAIN at} |->
          OverTime([u \in {v \in DOMAIN at : s \in DOMAIN at[v]} |-> at[u][s]])]

ValueAt(t) ==
    IF request.kind = "presence" THEN Summed([s \in Present(t) |-> 1])
    ELSE IF request.kind = "status" THEN [s \in Present(t) |-> Level(s, t)]
    ELSE RangeWrapped(t)

UsesWindow == request.kind \in {"plain", "summed", "rate"}
-----------------------------------------------------------------------------
(* QueryRange sends whole seconds, and parsePoint keeps whole seconds.       *)
SecondOf(t) == (t \div Second) * Second

Instants ==
    LET start == SecondOf(params.start) end == SecondOf(params.end)
    IN {start + k * params.step : k \in 0..((end - start) \div params.step)}

Refused ==
    \/ params.step <= 0
    \/ (SecondOf(params.end) - SecondOf(params.start)) \div params.step >= MaxPoints
    \/ UsesWindow /\ (~params.promql \/ params.window <= 0)

Matrix ==
    LET values == [t \in Instants |-> ValueAt(t)]
    IN [s \in UNION {DOMAIN values[t] : t \in Instants} |->
          [t \in {u \in Instants : s \in DOMAIN values[u]} |-> values[t][s]]]

Points(m) == UNION {{<<s, t>> : t \in DOMAIN m[s]} : s \in DOMAIN m}
Times(m) == {SecondOf(p[2]) : p \in Points(m)}

(* Mutant: a later series replaces the earlier ones. *)
RangeStreamsToMeasuresLast(m) ==
    [sec \in Times(m) |-> LET p == CHOOSE p \in Points(m) : SecondOf(p[2]) = sec IN m[p[1]][p[2]]]

RangeStreamsToMeasures(m) ==
    [sec \in Times(m) |->
        Sum([p \in {q \in Points(m) : SecondOf(q[2]) = sec} |-> m[p[1]][p[2]]])]

(* The code of a label, and of labels the map does not have.                 *)
(* Mutant: they count as an error. *)
CodeOrError(s) == IF store[s].label \in DOMAIN Codes THEN Codes[store[s].label] ELSE Codes["ERROR"]

Code(s) == IF store[s].label \in DOMAIN Codes THEN Codes[store[s].label] ELSE Codes["UNKNOWN"]

(* The order in which Prometheus may send series. *)
Orders(names) == Injection(names, 1..Cardinality(names))

(* The series later in the answer overwrites the earlier one.                *)
LabelStatusMeasures(m, order) ==
    [sec \in Times(m) |->
        LET here == {p[1] : p \in {q \in Points(m) : SecondOf(q[2]) = sec}}
        IN Code(CHOOSE s \in here : \A t \in here : order[t] <= order[s])]
-----------------------------------------------------------------------------
Init ==
    /\ request \in Requests /\ config \in Configs /\ store \in Stores
    /\ params = Unset /\ streams = Nothing
    /\ status = 0 /\ series = Nothing /\ policy = Nothing

Fail(code) == status' = code /\ UNCHANGED <<streams, series, policy>>

(* An error of measureParamsFromRequest is 400 in handleAggregates, and goes *)
(* through writeErr in the handlers of measures.                             *)
RejectParams ==
    /\ request.route # "policy" /\ status = 0 /\ params = Unset
    /\ Improper
    /\ Fail(IF request.route = "aggregate" THEN 400 ELSE 502)
    /\ UNCHANGED <<request, config, store, params>>

MeasureParamsFromRequest ==
    /\ request.route # "policy" /\ status = 0 /\ params = Unset
    /\ ~Improper
    /\ params' = ParamsOf
    /\ UNCHANGED <<request, config, store, streams, status, series, policy>>

QueryFails ==
    /\ status = 0 /\ params # Unset
    /\ Fail(502)
    /\ UNCHANGED <<request, config, store, params>>

QueryRange ==
    /\ status = 0 /\ params # Unset /\ ~Refused
    /\ streams' = Matrix
    /\ status' = 200
    /\ IF request.kind = "status"
       THEN \E order \in Orders(DOMAIN store) : series' = LabelStatusMeasures(streams', order)
       ELSE series' = RangeStreamsToMeasures(streams')
    /\ UNCHANGED <<request, config, store, params, policy>>

(* syntheticArchivePolicy: calendar units do not parse as durations and are  *)
(* left out; Go divides towards zero, and by zero it panics.                 *)
WholeWeek(ticks) == IF ticks > 0 THEN (168 * Hour) \div ticks ELSE 0
PolicyPoints(g) == Max({1, WholeWeek(g.ticks)})
PolicyPanics == \E g \in config.supported : g.form = "duration" /\ g.ticks = 0

SyntheticArchivePolicy ==
    /\ request.route = "policy" /\ status = 0
    /\ ~PolicyPanics
    /\ policy' = [g \in {h \in config.supported : h.form = "duration"} |-> PolicyPoints(g)]
    /\ status' = 200
    /\ UNCHANGED <<request, config, store, params, streams, series>>

PanicInPolicy ==
    /\ request.route = "policy" /\ status = 0
    /\ PolicyPanics
    /\ Fail(-1)
    /\ UNCHANGED <<request, config, store, params>>

Next ==
    \/ RejectParams \/ MeasureParamsFromRequest
    \/ QueryFails \/ QueryRange
    \/ SyntheticArchivePolicy \/ PanicInPolicy

Spec == Init /\ [][Next]_vars
-----------------------------------------------------------------------------
Measured == request.route # "policy" /\ status = 200

(* What a client may expect an answer to: a granularity that is positive,    *)
(* that PromQL can read, and a period that is neither empty nor longer than  *)
(* Prometheus evaluates.  Both ends are cut to seconds on the way, which may *)
(* add up to a second to the period.                                         *)
Asked ==
    IF request.resample.form # "none" THEN request.resample
    ELSE IF request.granularity.form # "none" THEN request.granularity
    ELSE config.default
ProperPeriod(step) ==
    /\ "bad" \notin {request.start, request.stop}
    /\ IF request.start = "none" THEN 24 * step <= MaxDuration /\ Second <= step /\ MaxPoints > 24
       ELSE /\ SecondOf(request.at[1]) < SecondOf(EndOf)
            /\ EndOf - request.at[1] + Second <= MaxPoints * step
ProperFrom(g) ==
    /\ g.form \in {"bare", "duration", "calendar"}
    /\ g.form = "calendar" \/ (g.ticks > 0 /\ g.promql)
    /\ ProperPeriod(ParsePromStep(g))
    /\ request.aggregation \in config.aggregations \cup {""}

GetsMeasures ==
    /\ status # 400
    /\ params = Unset => status = 0 /\ ~Improper
    /\ params # Unset /\ status = 0 => ~Refused

(* A proper request has measures unless Prometheus fails: no check of the    *)
(* parameters stands in its way, and what is sent is what Prometheus takes.  *)
ProperAnswered ==
    request.route # "policy" /\ ProperFrom(Asked) /\ config.default.form # "bare" => GetsMeasures

(* No part of the period is left out: whatever happens between the first and *)
(* the last instant is inside the window of one, for calendar units too.     *)
Covered ==
    params # Unset /\ ~Refused =>
        \A t \in UNION {store[s].high : s \in DOMAIN store} :
            Min(Instants) < t /\ t <= Max(Instants) =>
                \E i \in Instants : i - params.window < t /\ t <= i

(* Each instant counts once: with steps of whole seconds no two instants     *)
(* meet in one measure, and all series of an instant are in it.              *)
EachCounted ==
    Measured /\ request.kind # "status" /\ params.step % Second = 0 =>
        /\ Cardinality(DOMAIN series) = Cardinality({t \in Instants : DOMAIN ValueAt(t) # {}})
        /\ \A t \in Instants : DOMAIN ValueAt(t) # {} => series[SecondOf(t)] = Sum(ValueAt(t))

(* The rate of a series that was there all the time has no holes, however    *)
(* short the granularity, if Prometheus scrapes at least once a minute.      *)
RateSeen ==
    Measured /\ request.kind = "rate" =>
        \A s \in DOMAIN store :
            /\ store[s].from + params.window + Max({params.window, 2 * Minute}) <= params.start - Second
            /\ params.end <= store[s].to
            => {SecondOf(t) : t \in Instants} \subseteq DOMAIN series

(* A status that is taken from a label (networks and ports) is the code of a *)
(* series that was there, never a sum, and one the map does not have is      *)
(* shown as UNKNOWN; two series for the same seconds do not take turns.      *)
StatusOfSeries ==
    Measured /\ request.kind = "status" =>
        /\ \A sec \in DOMAIN series : \E t \in Instants, s \in DOMAIN store :
              /\ SecondOf(t) = sec /\ s \in Present(t)
              /\ \/ store[s].label \in DOMAIN Codes /\ series[sec] = Codes[store[s].label]
                 \/ store[s].label \notin DOMAIN Codes /\ series[sec] = Codes["UNKNOWN"]
        /\ params.step % Second = 0 => \A t, u \in Instants :
              Present(t) = Present(u) /\ Present(t) # {} =>
                  series[SecondOf(t)] = series[SecondOf(u)]

(* Documented: aggregation is supported.  The maximum over a granularity is  *)
(* that of the values in it.                                                 *)
AggregationHonoured ==
    Measured /\ request.kind = "summed" /\ params.aggregation = "max" =>
        \A t \in Instants, s \in DOMAIN store : \A u \in store[s].high :
            t - params.window < u /\ u <= t /\ s \in Present(u) => series[SecondOf(t)] >= 7
=============================================================================
