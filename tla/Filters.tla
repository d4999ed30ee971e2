------------------------------- MODULE Filters -------------------------------
(* The filter of a search: written flat, as tokens (ParseFlatFilter), or as  *)
(* a tree of JSON objects (ParseJSONFilter of internal/catalog/filter.go).   *)
(* Both are compiled to the predicate that a resource has to match, here the *)
(* set of the resources that do.  FilterTokens makes the tokens.             *)
(*                                                                           *)
(* A value is a text and the number it is read as, if any.  Texts are ranked *)
(* as Go compares them, 0 being the empty one.                               *)
EXTENDS Integers, Sequences, FiniteSets

CONSTANTS
    Values,        \* of attributes: records of number and text
    None, NaN,     \* not a number at all; read as not-a-number
    Printed,       \* the text a number is printed as
    Patterns,      \* pairs <<text, pattern>> that likeMatch accepts
    NilText,       \* the text nil is printed as, "<nil>"
    Fields,
    Comparisons,   \* comparisons a client writes: records of op, field, value
    Strays,        \* single tokens a client writes anywhere
    Trees,         \* JSON filters a client sends, with all parts of them
    Height,        \* how deep each of them is nested
    MaxHeight,     \* bound on that, 10000 in encoding/json
    Writable,      \* those that a client may also write flat
    NoBody,
    NoResource,    \* is not a resource
    Pending,
    MaxWritten     \* bound on the parts of a flat filter

VARIABLES
    words,      \* the tokens of the flat filter
    written,    \* number of parts written
    body,       \* the JSON filter
    answer      \* resources that match, Rejected, or Pending

filterVars == <<words, written, body, answer>>

Resources == [Fields -> Values]
Nil == [number |-> None, text |-> 0]
Rejected == {NoResource}        \* an error in place of a predicate

Operators == {"=", "!=", "like", ">", ">=", "<", "<=", "in"}
Lists == {"and", "or"}

ASSUME FiltersAssumption ==
    /\ None \notin Int /\ NaN \notin Int /\ None # NaN
    /\ \A v \in Values : v.number \in Int \cup {None, NaN} /\ v.text \in Int
    /\ NoResource \notin Resources

(* A tree is malformed, a list of trees, or a comparison.                    *)
ASSUME TreesAssumption ==
    /\ NoBody \notin Trees
    /\ MaxHeight \in Nat /\ Height \in [Trees -> 0..MaxHeight]
    /\ \A t \in Trees :
          \/ t.op = "malformed"
          \/ /\ t.op \in Lists /\ t.args \in Seq(Trees)
             /\ \A k \in DOMAIN t.args : Height[t.args[k]] < Height[t]
          \/ /\ t.op \in Operators /\ t.field \in Fields
             /\ t.op = ">" => t.value \in Values
    /\ Writable \subseteq Trees
    /\ \A t \in Writable :
          \/ t.op \in Lists /\ Len(t.args) = 2 /\ \A k \in 1..2 : t.args[k] \in Writable
          \/ t.op \in Operators
-----------------------------------------------------------------------------
Sign(below, above) == IF below THEN -1 ELSE IF above THEN 1 ELSE 0

(* Mutant: the case of less is missing. *)
CompareNoLess(x, y) ==
    IF None \in {x.number, y.number} THEN Sign(FALSE, x.text > y.text)
    ELSE IF NaN \in {x.number, y.number} THEN 0
    ELSE Sign(FALSE, x.number > y.number)

(* NaN is neither less nor greater than any number. *)
Compare(x, y) ==
    IF None \in {x.number, y.number} THEN Sign(x.text < y.text, x.text > y.text)
    ELSE IF NaN \in {x.number, y.number} THEN 0
    ELSE Sign(x.number < y.number, x.number > y.number)

Like(x, pattern) == <<IF x = Nil THEN NilText ELSE x.text, pattern.text>> \in Patterns

(* compileComparison; v is a set of values for "in". *)
Matching(op, field, v) ==
    {r \in Resources :
        CASE op = "="    -> Compare(r[field], v) = 0
          [] op = "!="   -> Compare(r[field], v) # 0
          [] op = "like" -> Like(r[field], v)
          [] op = ">"    -> Compare(r[field], v) > 0
          [] op = ">="   -> Compare(r[field], v) >= 0
          [] op = "<"    -> Compare(r[field], v) < 0
          [] op = "<="   -> Compare(r[field], v) <= 0
          [] op = "in"   -> \E w \in v : Compare(r[field], w) = 0}
-----------------------------------------------------------------------------
(* The parser: what was parsed, and where it goes on. *)
Parsed(pred, pos) == [pred |-> pred, pos |-> pos]
Fail == Parsed(Rejected, 0)

KindAt(p) == IF p > Len(words) THEN "end" ELSE words[p].kind

(* parseScalarToken: a word that is a number is printed as one. *)
Scalar(token) ==
    IF token.kind = "ident" /\ token.value.number # None
    THEN [token.value EXCEPT !.text = Printed[token.value.number]]
    ELSE token.value

ParseComparison(p) ==
    IF /\ KindAt(p) = "ident" /\ KindAt(p + 1) = "op"
       /\ KindAt(p + 2) \in {"ident", "string"}
    THEN Parsed(Matching(words[p + 1].value, words[p].field, Scalar(words[p + 2])), p + 3)
    ELSE Fail

(* Mutant: the closing parenthesis is not asked for. *)
ParseTermOpen(p, inner) == IF KindAt(p) # "(" THEN ParseComparison(p) ELSE inner

(* inner is what parseOr makes of the tokens behind a parenthesis. *)
ParseTerm(p, inner) ==
    IF KindAt(p) # "(" THEN ParseComparison(p)
    ELSE IF inner.pred = Rejected \/ KindAt(inner.pos) # ")" THEN Fail
    ELSE Parsed(inner.pred, inner.pos + 1)

(* Mutant: a single operand. *)
ParseOperandsOnce(kind, left, right) == left

(* The loops of parseAnd and parseOr.  right is what they make of the rest:  *)
(* Go joins from the left, which gives the same predicate.                   *)
ParseOperands(kind, left, right) ==
    IF left.pred = Rejected \/ KindAt(left.pos) # kind THEN left
    ELSE IF right.pred = Rejected THEN Fail
    ELSE Parsed(IF kind = "and" THEN left.pred \cap right.pred ELSE left.pred \cup right.pred,
                right.pos)

(* parseAnd and parseOr from each position. *)
Parse[p \in 1..(Len(words) + 1)] ==
    LET term == ParseTerm(p, Parse[p + 1].or)
        and == ParseOperands("and", term, Parse[term.pos + 1].and)
        or == ParseOperands("or", and, Parse[and.pos + 1].or)
    IN [and |-> and, or |-> or]

(* What follows the first complete expression is not looked at. *)
ParseFlatFilter == Parse[1].or.pred
-----------------------------------------------------------------------------
(* compilePredicate.  "malformed" is any of: no object, no single operator,  *)
(* no known one, no array for and/or, no single field for a comparison.      *)
Compile[t \in Trees] ==
    IF t.op = "malformed" THEN Rejected
    ELSE IF t.op \in Lists
    THEN LET preds == {Compile[t.args[k]] : k \in DOMAIN t.args}
         IN IF Rejected \in preds THEN Rejected
            ELSE IF t.op = "and" THEN {r \in Resources : \A p \in preds : r \in p}
            ELSE UNION preds
    ELSE Matching(t.op, t.field, t.value)
(* parseResourceFilter of internal/server/server.go *)
ParseResourceFilter ==
    IF words # << >> THEN ParseFlatFilter
    ELSE IF body = NoBody THEN Resources ELSE Compile[body]
-----------------------------------------------------------------------------
Mark(kind) == [kind |-> kind]

Triple(c) ==
    << [kind |-> "ident", field |-> c.field, value |-> Nil],
       [kind |-> "op", value |-> c.op],
       [kind |-> "string", value |-> c.value] >>

(* How a client writes a tree flat: lists of two, in parentheses.            *)
Flat[t \in Writable] ==
    IF t.op \notin Lists THEN Triple(t)
    ELSE <<Mark("(")>> \o Flat[t.args[1]] \o <<Mark(t.op)>> \o Flat[t.args[2]] \o <<Mark(")")>>

FilterInit ==
    /\ \/ body \in Trees \cup {NoBody} /\ words = << >>
       \/ body \in Writable /\ words = Flat[body]
    /\ written = 0
    /\ answer = Pending

Write(part) ==
    /\ body = NoBody /\ answer = Pending /\ written < MaxWritten
    /\ written' = written + 1
    /\ words' = words \o part
    /\ UNCHANGED <<body, answer>>

Search ==
    /\ answer = Pending
    /\ answer' = ParseResourceFilter
    /\ UNCHANGED <<words, written, body>>

FilterNext ==
    \/ \E c \in Comparisons : Write(Triple(c))
    \/ \E t \in Strays : Write(<<t>>)
    \/ Search

FilterSpec == FilterInit /\ [][FilterNext]_filterVars
-----------------------------------------------------------------------------
(* A filter means the same, written flat or as a tree of JSON objects.       *)
FlatMeansTree ==
    answer # Pending /\ words # << >> /\ body # NoBody => answer = Compile[body]

(* compare is an order on values of one kind, numbers or texts, although it  *)
(* is none on both (10 < "5a" < 9 < 10) or with NaN: whoever is greater than *)
(* a value is greater than those it is not less than.                        *)
Alike(x, y) == x.number # NaN /\ y.number # NaN /\ (x.number = None <=> y.number = None)

OrderedAlike ==
    answer # Pending /\ words = << >> /\ body # NoBody /\ body.op = ">" =>
        \A v \in Values : Alike(v, body.value) /\ Compare(v, body.value) >= 0 =>
            {r \in Matching(">", body.field, v) : Alike(r[body.field], v)} \subseteq answer
=============================================================================
