---------------------------- MODULE FilterGrammar ----------------------------
(* What a flat filter means, said by its grammar and not by its parser.      *)
EXTENDS Filters

(* A part of a filter: the tokens from one on, up to but not including one.  *)
Bounds == 1..(Len(words) + 1)
Parts == {s \in Bounds \X Bounds : s[1] <= s[2]}
Of(kind, p, q) == {k \in p..(q - 1) : words[k].kind = kind}

(* The grammar, without a parser: what a complete expression means.  "or" is *)
(* looser than "and", and parentheses match.                                 *)
Depth(p, k) == Cardinality(Of("(", p, k)) - Cardinality(Of(")", p, k))
Splits(kind, p, q) == {k \in Of(kind, p, q) : Depth(p, k) = 0}
First(ks) == CHOOSE k \in ks : \A j \in ks : k <= j

IsComparison(p, q) ==
    /\ q = p + 3
    /\ words[p].kind = "ident" /\ words[p + 1].kind = "op"
    /\ words[p + 2].kind \in {"ident", "string"}

Connect(kind, left, right) ==
    IF Rejected \in {left, right} THEN Rejected
    ELSE IF kind = "and" THEN left \cap right ELSE left \cup right

Meaning[s \in Parts] ==
    LET p == s[1]
        q == s[2]
        SplitAt(kind, k) == Connect(kind, Meaning[<<p, k>>], Meaning[<<k + 1, q>>])
    IN IF Splits("or", p, q) # {} THEN SplitAt("or", First(Splits("or", p, q)))
       ELSE IF Splits("and", p, q) # {} THEN SplitAt("and", First(Splits("and", p, q)))
       ELSE IF IsComparison(p, q)
       THEN Matching(words[p + 1].value, words[p].field, Scalar(words[p + 2]))
       ELSE IF q > p + 2 /\ words[p].kind = "(" /\ words[q - 1].kind = ")"
       THEN Meaning[<<p + 1, q - 1>>]
       ELSE Rejected

(* A flat filter means what its longest complete beginning means, and is     *)
(* refused if there is none or if "and" or "or" follows it: what else        *)
(* follows is dropped without a word.                                        *)
Beginning(n) == Meaning[<<1, n + 1>>]
Complete(n) ==
    /\ Beginning(n) # Rejected
    /\ n = Len(words) \/ words[n + 1].kind \notin {"and", "or"}

BeginningParsed ==
    answer # Pending /\ words # << >> =>
        IF \E n \in 1..Len(words) : Complete(n)
        THEN \A n \in 1..Len(words) : Complete(n) => answer = Beginning(n)
        ELSE answer = Rejected
==============================================================================
