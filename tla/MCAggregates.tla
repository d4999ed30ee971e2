----------------------------- MODULE MCAggregates -----------------------------
EXTENDS Aggregates, TLC

Op(name, items) == List(<<Ident(name)>> \o items)
Metric(m) == Op("metric", <<Ident(m)>>)
MetricBy(m, others) == Op("metric", <<Ident(m)>> \o others)
Agg(method, e) == Op("aggregate", <<Ident(method), e>>)

Two == Number(<<2, 1, 0>>)
MCParseFloat == "2" :> <<2, 1, 0>> @@ "-0.5" :> <<-1, 2, 0>> @@ "0" :> <<0, 1, 0>>
                @@ "0.0" :> <<0, 1, 0>> @@ "nan" :> <<0, 0, 0>> @@ "-inf" :> <<-1, 0, 0>>

Numbers == {Number(ParseFloat[t]) : t \in DOMAIN ParseFloat}
Aggs == {Agg(f, Metric("m")) : f \in {"mean", "sum", "min", "max", "count", "last"}}
            \cup {Agg("mean", Metric("n"))}
Odd == {Ident("m"), Ident("2"), Ident(")"), List(<< >>), Metric("m"), Op("metric", << >>),
        Op("metric", <<Two>>), Agg("mean", Two), Agg("mean", Agg("mean", Metric("m"))),
        Op("aggregate", <<Metric("m")>>), Op("none", <<Metric("m")>>), Op("+", <<Metric("m")>>),
        List(<<Two, Metric("m")>>), Op("aggregate", <<Metric("m"), Metric("m")>>),
        Other, Agg("mean", MetricBy("m", <<Other>>)), Op("+", <<Metric("m"), Other>>),
        Agg("mean", Op("metric", <<Ident("2")>>))}
Operands == Numbers \cup {Agg("mean", Metric("m")), Agg("min", Metric("n")), Metric("m"), Ident("m")}
Binary == {Op(o, <<x, y>>) : o \in Arithmetic, x \in Operands, y \in Operands}

(* One metric twice: with aggregations of its own, and with an item that is  *)
(* ignored.                                                                  *)
Twice == {Op("/", <<Agg("max", MetricBy("m", <<Ident("max")>>)), Agg("min", MetricBy("m", <<Ident("min")>>))>>),
          Op("-", <<Agg("sum", Metric("m")), Agg("sum", MetricBy("m", <<Two>>))>>)}
Nested == {Op("/", <<Op("-", <<Agg("max", Metric("m")), x>>), Agg("sum", Metric("n"))>>) :
                    x \in {Two, Agg("mean", Metric("m")), Metric("m")}}

(* The expressions and their parts. *)
With(exprs) == exprs \cup UNION {{e.items[k] : k \in DOMAIN e.items} : e \in {x \in exprs : x.type = "list"}}
AllExprs == With(With(With(With(Aggs \cup Odd \cup Binary \cup Twice \cup Nested))))
MCExprs == AllExprs

LevelOf[e \in AllExprs] ==
    IF e.type # "list" THEN 0
    ELSE CHOOSE n \in 1..4 :
            /\ \A k \in DOMAIN e.items : LevelOf[e.items[k]] < n
            /\ n = 1 \/ \E k \in DOMAIN e.items : LevelOf[e.items[k]] = n - 1

MCLevel == LevelOf

MCRests == {<< >>, <<Open>>}
MCMatched == <<"r", "s">>
MCAnswers == {Gone, Failed, 2 :> <<-5, 1, 0>>, << <<1, 1, 0>>, <<0, 1, 0>> >>,
              << <<3, 1, 0>>, <<0, 0, 0>> >>, << <<1, 0, 0>>, <<5, 2, 0>> >>}
=============================================================================
