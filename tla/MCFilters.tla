------------------------------ MODULE MCFilters ------------------------------
EXTENDS FilterGrammar

(* nil, "10", "2", "5a", "9", "NaN" and "x", ranked by their texts. *)
MCPrinted == [n \in {2, 9, 10} |-> CASE n = 10 -> 1 [] n = 2 -> 2 [] n = 9 -> 4]
MCValues == {Nil} \cup {[number |-> n, text |-> MCPrinted[n]] : n \in {2, 9, 10}}
                \cup {[number |-> None, text |-> t] : t \in {3, 6}}
                \cup {[number |-> NaN, text |-> 5]}
V(t) == CHOOSE v \in MCValues : v.text = t

(* 100 is the pattern "%5%". *)
MCPatterns == {<<t, t>> : t \in 0..6} \cup {<<3, 100>>}

C(op, field, v) == [op |-> op, field |-> field, value |-> v]
MCComparisons == {C("=", "a", V(1)), C("<", "b", V(3))}
MCStrays == {[kind |-> k] : k \in {"(", ")", "and", "or"}}
                \cup {[kind |-> "ident", field |-> "b", value |-> V(4)]}

Ordered == {C(">", "a", v) : v \in MCValues}
Others == {C("like", "a", [number |-> None, text |-> 100]), C("!=", "b", V(0)),
           C("<=", "b", V(4)), C(">=", "b", V(3))}
Malformed == {[op |-> "malformed"]}
ListsOf(trees, lengths) ==
    {[op |-> o, args |-> s] : o \in Lists, s \in UNION {[1..n -> trees] : n \in lengths}}
Small == {C("=", "a", V(1)), C("like", "a", [number |-> None, text |-> 100]), C("<", "b", V(3))}

MCWritable == LET pairs == ListsOf(Small, {2})
              IN Ordered \cup Others \cup MCComparisons \cup pairs \cup ListsOf(Small \cup pairs, {2})
Unwritten == LET l == Small \cup Malformed \cup {C("in", "a", {V(1), V(4)})}
                 shorter == l \cup ListsOf(l, {0, 1})
             IN shorter \cup ListsOf(shorter, {0, 1, 2})
MCTrees == MCWritable \cup Unwritten
MCHeight ==
    [t \in MCTrees |->
        IF t.op \notin Lists THEN 0
        ELSE IF \E k \in DOMAIN t.args : t.args[k].op \in Lists THEN 2 ELSE 1]
==============================================================================
