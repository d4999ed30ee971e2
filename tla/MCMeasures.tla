------------------------------ MODULE MCMeasures ------------------------------
(* A clock of two ticks to the second, two seconds to the minute and three   *)
(* minutes to the hour keeps the calendar units small.                       *)
EXTENDS Measures

MCSecond == 2
MCMinute == 4
MCHour == 12
MCMaxDuration == 2562047 * MCHour
MCNow == 4001

G(form, ticks, promql) == [form |-> form, ticks |-> ticks, promql |-> promql, unit |-> ""]
Unit(u) == [form |-> "calendar", ticks |-> 0, promql |-> FALSE, unit |-> u]
None == G("none", 0, FALSE)
Default == G("duration", MCMinute, TRUE)                       \* 60s

Granularities == {
    G("bare", 4, TRUE), G("bare", 6, FALSE), G("bare", 0, TRUE), G("bare", -4, FALSE),
    G("duration", 1, TRUE), G("duration", 3, FALSE), G("duration", 24, TRUE),
    G("duration", 106752 * MCHour, TRUE), G("duration", 214000 * MCHour, TRUE),
    G("other", 0, TRUE), None, Unit("H"), Unit("W")}

Request == [route |-> "measures", kind |-> "plain", granularity |-> None, resample |-> None,
            start |-> "at", stop |-> "at", at |-> <<4001 - 24, 4001>>, aggregation |-> "", method |-> ""]

Kinds == {"plain", "summed", "rate", "presence", "status"}
Years == <<-40 * 4368 * MCHour, 4001>>

MCRequests ==
    {[Request EXCEPT !.granularity = g, !.kind = k, !.at = p] :
        g \in Granularities, k \in Kinds, p \in {<<3977, 4001>>, <<3980, 4000>>, <<4000, 4000>>, <<4000, 4001>>}}
    \cup {[Request EXCEPT !.granularity = g, !.resample = r, !.start = b, !.stop = e] :
        g \in Granularities, r \in {None, G("bare", 8, TRUE)},
        b \in {"none", "at", "bad"}, e \in {"none", "at", "bad"}}
    \cup {[Request EXCEPT !.kind = k, !.aggregation = a, !.method = m, !.route = r] :
        k \in {"plain", "summed"}, a \in {"", "max", "min", "sum", "count", "last", "p99"},
        m \in {"", "max", "p99"}, r \in {"measures", "aggregate"}}
    \cup {[Request EXCEPT !.granularity = Unit(u), !.at = Years] : u \in DOMAIN Steps}
    \cup {[Request EXCEPT !.route = "policy"]}

Api(supported) == [supported |-> supported, default |-> Default, aggregation |-> "mean",
                   aggregations |-> {"mean", "min", "max", "sum", "last", "count"}]
Hours == G("duration", MCHour, TRUE)
ZeroSeconds == G("duration", 0, TRUE)
Long == G("duration", 100 * MCHour, TRUE)
Longer == G("duration", 169 * MCHour, TRUE)
MCConfigs == {Api({Default, Hours, Unit("W")}), Api({Default, Long, Longer}), Api({Default, ZeroSeconds})}

S(from, to, label, high) == [from |-> from, to |-> to, label |-> label, high |-> high]
\* High in the last hour, and early in half years.
High == {3990, 3999, 4000} \cup {4001 - k * 4368 * MCHour + 10000 : k \in 1..3}
MCStores == {
    << >>,
    <<S(-3 * 4368 * MCHour, 4010, "ACTIVE", High)>>,
    <<S(0, 3990, "ACTIVE", {3990}), S(3986, 4010, "RESIZED", High)>>}
MCCodes == [ACTIVE |-> 1, ERROR |-> 4, UNKNOWN |-> 0]
=============================================================================
