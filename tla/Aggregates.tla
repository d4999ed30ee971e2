------------------------------ MODULE Aggregates ------------------------------
(* POST /v1/aggregates: parsing and evaluating operations                    *)
(* (internal/server/aggregate.go) and the status that handleAggregates makes *)
(* of the result.  MetricLookup has the catalogs behind it; here the answer  *)
(* to each query of measures is given.                                       *)
(*                                                                           *)
(* Operations are an expression of numbers, identifiers and lists, sent as   *)
(* JSON or as the tokens of an S-expression.  A float64 is <<n, d, o>>: the  *)
(* fraction n / d, an infinity if d is 0 and n 1 or -1, NaN if both are 0; o *)
(* counts the overflows it comes from.  Underflow and the rounding of        *)
(* fractions are left out.                                                   *)
EXTENDS Integers, Sequences, FiniteSets

CONSTANTS
    Largest,       \* the largest float64 that is finite
    ParseFloat,    \* the texts that are numbers, and those numbers
    Exprs,         \* expressions, with all parts of them
    Level,         \* how deep each of them is nested
    MaxLevel,      \* bound on that, as a body has at most 1 MiB
    Rests,         \* tokens that follow an expression
    Matched,       \* sequence of the resources that match the request
    Answers,       \* answers to a query: series, Gone or Failed
    Gone, Failed,  \* metric or resource not found; Prometheus error
    Unasked, NoExpr

VARIABLES
    request,    \* an expression, and its tokens, << >> if it is sent as JSON
    measures,   \* answer for each metric expression and resource, or Unasked
    expr,       \* the parsed operations, or NoExpr
    code,       \* status of the response; 0 while there is none
    series      \* the measures of the response, by timestamp

aggregateVars == <<request, measures, expr, code, series>>

OfResources == {Matched[k] : k \in DOMAIN Matched}
Floats == Int \X Nat \X Nat

(* Beyond the largest there is infinity.                                     *)
Signum(n) == IF n > 0 THEN 1 ELSE IF n < 0 THEN -1 ELSE 0
Rounded(x) ==
    IF x[2] = 0 THEN <<Signum(x[1]), 0, x[3]>>
    ELSE IF x[1] > Largest * x[2] \/ -x[1] > Largest * x[2]
    THEN <<Signum(x[1]), 0, x[3] + 1>>
    ELSE x
IsFinite(x) == x[2] # 0
Given == {x \in Int \X Nat \X {0} : Rounded(x) = x}

Number(x) == [type |-> "number", number |-> x]
Ident(s) == [type |-> "ident", name |-> s]
List(items) == [type |-> "list", items |-> items]
Other == [type |-> "other"]    \* null, a Boolean or an object of JSON
Open == "("
Close == ")"

(* The operation of a list, and what operations ask of their operands.       *)
IsIdent(e) == e.type = "ident"
Arithmetic == {"+", "-", "*", "/"}
Operation(e) ==
    IF e.type = "list" /\ e.items # << >> /\ IsIdent(e.items[1]) THEN e.items[1].name ELSE "none"
IsMetric(e) == Operation(e) = "metric" /\ Len(e.items) >= 2 /\ IsIdent(e.items[2])
IsAggregate(e) == Operation(e) = "aggregate" /\ Len(e.items) = 3 /\ IsIdent(e.items[2])
IsArithmetic(e) == Operation(e) \in Arithmetic /\ Len(e.items) >= 3

Metrics == {e \in Exprs : IsMetric(e)}

ASSUME FloatAssumption ==
    /\ Largest \in Nat \ {0}
    /\ DOMAIN ParseFloat \subseteq STRING \ {Open, Close}
    /\ ParseFloat \in [DOMAIN ParseFloat -> Given]

ASSUME ExprsAssumption ==
    /\ NoExpr \notin Exprs \cup [type : {"list"}, items : Seq(Exprs)]
    /\ MaxLevel \in Nat /\ Level \in [Exprs -> 0..MaxLevel]
    /\ \A e \in Exprs :
          \/ /\ e \in [type : {"number"}, number : Given]
             /\ \E text \in DOMAIN ParseFloat : ParseFloat[text] = e.number
          \/ e \in [type : {"ident"}, name : STRING]
          \/ e = Other
          \/ /\ e \in [type : {"list"}, items : Seq(Exprs)]
             /\ \A k \in DOMAIN e.items : Level[e.items[k]] < Level[e]
    /\ Rests \subseteq Seq(STRING)

ASSUME AnswersAssumption ==
    /\ Matched \in Seq(OfResources)
    /\ Gone # Failed /\ Gone \in Answers /\ Unasked \notin [Metrics \X OfResources -> Answers]
    /\ \A a \in Answers \ {Gone, Failed} : a \in [DOMAIN a -> Given]
-----------------------------------------------------------------------------
(* One value after the other, from the left.                                 *)
Reduce(Op(_, _), values) ==
    LET upto[k \in 1..Len(values)] ==
            IF k = 1 THEN values[1] ELSE Op(upto[k - 1], values[k])
    IN upto[Len(values)]
Concat(a, b) == a \o b

(* What an expression is made of, in the end.                                *)
AtomsOf[e \in Exprs] ==
    IF e.type = "list" THEN UNION {AtomsOf[e.items[k]] : k \in DOMAIN e.items} ELSE {e}

(* What a token that is no parenthesis is, and the token for a number or an  *)
(* identifier.  An identifier that is the text of a number cannot be written.*)
Atom(text) == IF text \in DOMAIN ParseFloat THEN Number(ParseFloat[text]) ELSE Ident(text)
TextOf(a) ==
    IF a.type = "number" THEN CHOOSE text \in DOMAIN ParseFloat : ParseFloat[text] = a.number
    ELSE IF IsIdent(a) THEN a.name ELSE "null"
Textual(e) == \A a \in AtomsOf[e] : Atom(TextOf(a)) = a /\ TextOf(a) \notin {Open, Close}

(* How a client writes an expression as an S-expression.                     *)
Written[e \in Exprs] ==
    IF e.type # "list" THEN <<TextOf(e)>>
    ELSE Reduce(Concat, [k \in 1..(Len(e.items) + 2) |->
            IF k = 1 THEN <<Open>>
            ELSE IF k = Len(e.items) + 2 THEN <<Close>> ELSE Written[e.items[k - 1]]])

(* sexprParser.parse: what it makes of the tokens from a position on.        *)
Refused == [expr |-> NoExpr, pos |-> 0]
AtEnd(p) == p > Len(request.tokens)
TokenAt(p) == request.tokens[p]
Closed(p) == [expr |-> List(<< >>), pos |-> p + 1]

(* Mutant: a list is closed by the end too. *)
ItemsToEnd(p, first, others) ==
    IF AtEnd(p) THEN [expr |-> List(<< >>), pos |-> p]
    ELSE IF TokenAt(p) = Close THEN Closed(p)
    ELSE IF first.expr = NoExpr \/ others.expr = NoExpr THEN Refused
    ELSE [expr |-> List(<<first.expr>> \o others.expr.items), pos |-> others.pos]

(* The items of a list that is open. *)
Items(p, first, others) ==
    IF AtEnd(p) THEN Refused
    ELSE IF TokenAt(p) = Close THEN Closed(p)
    ELSE IF first.expr = NoExpr \/ others.expr = NoExpr THEN Refused
    ELSE [expr |-> List(<<first.expr>> \o others.expr.items), pos |-> others.pos]

One(p, items) ==
    IF AtEnd(p) THEN Refused
    ELSE IF TokenAt(p) = Open THEN items
    ELSE [expr |-> Atom(TokenAt(p)), pos |-> p + 1]

(* An expression, and the items of a list, from each position. *)
Read[p \in 1..(Len(request.tokens) + 1)] ==
    LET one == One(p, Read[p + 1].items)
    IN [one |-> one, items |-> Items(p, one, Read[one.pos].items)]

(* What follows the first expression is not looked at. *)
ExpressionFromAny(tree) == IF Other \in AtomsOf[tree] THEN NoExpr ELSE tree
ParseOperations ==
    IF request.tokens = << >> THEN ExpressionFromAny(request.tree) ELSE Read[1].one.expr
-----------------------------------------------------------------------------
(* The arithmetic of float64: Inf - Inf and 0 * Inf are NaN.                 *)
Plus(x, y) ==
    IF x[2] = 0 /\ y[2] = 0 /\ x[1] = y[1] THEN <<x[1], 0, x[3] + y[3]>>
    ELSE Rounded(<<x[1] * y[2] + y[1] * x[2], x[2] * y[2], x[3] + y[3]>>)
Times(x, y) == Rounded(<<x[1] * y[1], x[2] * y[2], x[3] + y[3]>>)
Minus(x, y) == Plus(x, Times(<<-1, 1, 0>>, y))
IsZero(x) == x[1] = 0 /\ IsFinite(x)

Reciprocal(x) == IF x[1] < 0 THEN <<-x[2], -x[1], x[3]>> ELSE <<x[2], x[1], x[3]>>
Less(x, y) == x[1] * y[2] < y[1] * x[2] \/ (x[1] < 0 /\ y[1] > 0)

(* Mutant: what is divided by zero is infinite, or NaN. *)
OperateIEEE(op, x, y) ==
    CASE op = "+" -> Plus(x, y)
      [] op = "-" -> Minus(x, y)
      [] op = "*" -> Times(x, y)
      [] op = "/" -> Times(x, Reciprocal(y))

Operate(op, x, y) ==
    CASE op = "+" -> Plus(x, y)
      [] op = "-" -> Minus(x, y)
      [] op = "*" -> Times(x, y)
      [] op = "/" -> IF IsZero(y) THEN <<0, 1, 0>> ELSE Times(x, Reciprocal(y))

(* A value stays unless a later one is better: NaN is not, nor is any than it. *)
Combine(method, x, y) ==
    IF method = "min" THEN IF Less(y, x) THEN y ELSE x
    ELSE IF method = "max" THEN IF Less(x, y) THEN y ELSE x
    ELSE Plus(x, y)

Collapse(method, values) ==
    LET all == Reduce(LAMBDA x, y : Combine(method, x, y), values)
    IN IF method = "count" THEN <<Len(values), 1, 0>>
       ELSE IF method = "last" THEN values[Len(values)]
       ELSE IF method \in {"sum", "min", "max"} THEN all
       ELSE Times(all, <<1, Len(values), 0>>)
-----------------------------------------------------------------------------
ScalarValue(x) == [kind |-> "scalar", scalar |-> x]
SeriesValue(s) == [kind |-> "series", series |-> s]
SetValue(seriesOf) == [kind |-> "set", set |-> seriesOf]
Error == [kind |-> "error"]

(* Mutant: what failed is passed over too. *)
MetricSetLenient(metric) ==
    SetValue([k \in DOMAIN Matched |->
        LET answer == measures[<<metric, Matched[k]>>]
        IN IF answer \in {Gone, Failed} THEN << >> ELSE answer])

(* The metric of every resource; those that are gone have no measures, and   *)
(* need not be left out, as there is nothing to collapse in them.  What is   *)
(* asked is the name with the aggregation of this metric or of the request.  *)
MetricSet(metric) ==
    IF \E k \in DOMAIN Matched : measures[<<metric, Matched[k]>>] = Failed THEN Error
    ELSE SetValue([k \in DOMAIN Matched |->
            LET answer == measures[<<metric, Matched[k]>>]
            IN IF answer = Gone THEN << >> ELSE answer])

(* The values at a timestamp, in the order of the resources. *)
Bucket(set, t) ==
    Reduce(Concat, [k \in DOMAIN set |-> IF t \in DOMAIN set[k] THEN <<set[k][t]>> ELSE << >>])

(* Mutant: a timestamp counts only if every resource has it. *)
AggregateSeriesSetAll(method, set) ==
    [t \in {u \in UNION {DOMAIN set[k] : k \in DOMAIN set} :
                \A k \in DOMAIN set : u \in DOMAIN set[k]} |->
        Collapse(method, Bucket(set, t))]

AggregateSeriesSet(method, set) ==
    [t \in UNION {DOMAIN set[k] : k \in DOMAIN set} |-> Collapse(method, Bucket(set, t))]

ApplyBinaryOperation(op, l, r) ==
    IF "error" \in {l.kind, r.kind} \/ "set" \in {l.kind, r.kind} THEN Error
    ELSE IF l.kind = "scalar" /\ r.kind = "scalar"
    THEN ScalarValue(Operate(op, l.scalar, r.scalar))
    ELSE IF r.kind = "scalar"
    THEN SeriesValue([t \in DOMAIN l.series |-> Operate(op, l.series[t], r.scalar)])
    ELSE IF l.kind = "scalar"
    THEN SeriesValue([t \in DOMAIN r.series |-> Operate(op, l.scalar, r.series[t])])
    ELSE SeriesValue([t \in DOMAIN l.series \cap DOMAIN r.series |->
                         Operate(op, l.series[t], r.series[t])])

ApplyAll(op, values) == Reduce(LAMBDA l, r : ApplyBinaryOperation(op, l, r), values)

(* evaluateAggregate *)
Eval[e \in Exprs] ==
    IF e.type = "number" THEN ScalarValue(e.number)
    ELSE IF IsMetric(e) THEN MetricSet(e)
    ELSE IF IsAggregate(e) /\ Eval[e.items[3]].kind = "set"
    THEN SeriesValue(AggregateSeriesSet(e.items[2].name, Eval[e.items[3]].set))
    ELSE IF IsArithmetic(e)
    THEN ApplyAll(Operation(e), [k \in 1..(Len(e.items) - 1) |-> Eval[e.items[k + 1]]])
    ELSE Error

(* The numbers, identifiers and metrics in an expression.                    *)
Leaves[e \in Exprs] ==
    IF e.type = "list" /\ ~IsMetric(e) THEN UNION {Leaves[e.items[k]] : k \in DOMAIN e.items}
    ELSE {e}
MetricsOf(e) == {l \in Leaves[e] : l.type = "list"}
-----------------------------------------------------------------------------
(* JSON has finite numbers only.  Tokens may be too few, or too many. *)
AggregateInit ==
    /\ \E e \in Exprs :
          \/ /\ request = [tree |-> e, tokens |-> << >>]
             /\ \A a \in AtomsOf[e] : a.type = "number" => IsFinite(a.number)
          \/ /\ Textual(e)
             /\ \/ \E n \in 1..(Len(Written[e]) - 1) :
                      request = [tree |-> e, tokens |-> SubSeq(Written[e], 1, n)]
                \/ \E rest \in Rests : request = [tree |-> e, tokens |-> Written[e] \o rest]
    /\ measures = Unasked
    /\ expr = NoExpr
    /\ code = 0
    /\ series = << >>

ParseBody ==
    /\ code = 0 /\ expr = NoExpr
    /\ expr' = ParseOperations
    /\ code' = IF ParseOperations = NoExpr THEN 400 ELSE 0
    /\ UNCHANGED <<request, measures, series>>

(* The answers of Prometheus and of the catalogs to the queries of each      *)
(* metric in the expression.  Nobody asks for the others.                    *)
Answer ==
    /\ code = 0 /\ expr # NoExpr /\ measures = Unasked
    /\ \E given \in [MetricsOf(expr) \X OfResources -> Answers] :
          measures' = [q \in Metrics \X OfResources |-> IF q \in DOMAIN given THEN given[q] ELSE Gone]
    /\ UNCHANGED <<request, expr, code, series>>

Evaluate ==
    /\ code = 0 /\ expr # NoExpr /\ measures # Unasked
    /\ LET value == Eval[expr]
       IN /\ code' = CASE value.kind = "error"  -> 502
                       [] value.kind = "series" -> 200
                       [] OTHER                 -> 400
          /\ series' = IF value.kind = "series" THEN value.series ELSE << >>
    /\ UNCHANGED <<request, measures, expr>>

AggregateNext == ParseBody \/ Answer \/ Evaluate

AggregateSpec == AggregateInit /\ [][AggregateNext]_aggregateVars
-----------------------------------------------------------------------------
(* What an expression is, whatever its metrics answer.                       *)
KindOf[e \in Exprs] ==
    LET operands == {KindOf[e.items[k]] : k \in 2..Len(e.items)}
    IN IF e.type = "number" THEN "scalar"
       ELSE IF IsMetric(e) THEN "set"
       ELSE IF IsAggregate(e) /\ KindOf[e.items[3]] = "set" THEN "series"
       ELSE IF IsArithmetic(e) /\ operands \subseteq {"scalar", "series"}
       THEN IF "series" \in operands THEN "series" ELSE "scalar"
       ELSE "error"

(* The status of a response: 400 for what cannot be parsed or is no series;  *)
(* 502 for an expression that makes no sense, as for a Prometheus that       *)
(* failed for any metric and resource in it; else 200, also if every metric  *)
(* is unknown for every resource.                                            *)
StatusExplained ==
    code # 0 =>
        code = IF expr = NoExpr THEN 400
               ELSE IF \/ KindOf[expr] = "error"
                       \/ \E m \in MetricsOf(expr), r \in OfResources : measures[<<m, r>>] = Failed
               THEN 502
               ELSE IF KindOf[expr] = "series" THEN 200 ELSE 400

(* However an expression is nested: it has a measure at a timestamp if, and  *)
(* only if, each of its metrics has one there for some resource.             *)
TimesExplained ==
    code = 200 =>
        \A t \in UNION {DOMAIN a : a \in Answers \ {Gone, Failed}} \cup DOMAIN series :
            t \in DOMAIN series <=>
                \A m \in MetricsOf(expr) : \E r \in OfResources :
                    measures[<<m, r>>] # Gone /\ t \in DOMAIN measures[<<m, r>>]

(* Operations mean the same as an S-expression and as JSON lists; one that   *)
(* ends inside of a list, or has null, a Boolean or an object in it, at      *)
(* whatever depth, is refused, and what follows one is dropped.              *)
SExprMeansTree ==
    expr # NoExpr \/ code # 0 =>
        IF \/ Len(request.tokens) \in 1..(Len(Written[request.tree]) - 1)
           \/ Other \in AtomsOf[request.tree]
        THEN expr = NoExpr ELSE expr = request.tree

(* JSON has neither NaN nor infinities, and writeJSON has sent 200 when its  *)
(* encoder finds one: that happens where the client wrote one, Prometheus    *)
(* answered with one or a sum or product was too large, and never because of *)
(* what an operation divides by.                                             *)
NonFiniteExplained ==
    code = 200 =>
        \A t \in DOMAIN series : ~IsFinite(series[t]) =>
            \/ series[t][3] > 0
            \/ \E l \in Leaves[expr] : l.type = "number" /\ ~IsFinite(l.number)
            \/ \E m \in MetricsOf(expr), r \in OfResources :
                  /\ measures[<<m, r>>] # Gone /\ t \in DOMAIN measures[<<m, r>>]
                  /\ ~IsFinite(measures[<<m, r>>][t])
=============================================================================
