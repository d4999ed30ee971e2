----------------------------- MODULE FilterTokens -----------------------------
(* tokenizeFilter of internal/catalog/filter.go: the loop that cuts a flat    *)
(* filter into tokens, one action for each branch of its switch.              *)
(*                                                                            *)
(* A character is itself, "dq" is the double quote, and " " all white space;  *)
(* any other one is a letter of a word, but a keyword stands for its letters, *)
(* in either case.  A token is its kind and where it is: from its first       *)
(* character up to, but not including, to.                                    *)
EXTENDS Naturals, Sequences

CONSTANTS
    Chars,       \* characters of a filter
    Keywords,    \* those that stand for "and", "or" or "like"
    MaxLen,      \* bound on the length of a filter
    MaxTokens    \* bound on the tokens when the loop does not end

ASSUME TokensAssumption == MaxLen \in Nat /\ MaxTokens \in Nat

ASSUME KeywordsAssumption == Keywords \cap {"(", ")", "op", "string"} = {}

VARIABLES
    raw,      \* the filter
    i,        \* position of the loop
    tokens,
    status    \* "running", "done", or "error"

vars == <<raw, i, tokens, status>>
-----------------------------------------------------------------------------
Space == {" "}
Parens == {"(", ")"}
Quotes == {"'", "dq"}
Pairs == {<<">", "=">>, <<"<", "=">>, <<"!", "=">>}

(* Mutant: "<" alone is forgotten. *)
SinglesWithoutLess == {"=", ">"}

Singles == {"=", ">", "<"}

(* strings.ContainsRune(" ()\t\n=<>!", ...) *)
Delimiters == {" ", "(", ")", "=", "<", ">", "!"}

(* strings.HasPrefix(raw[i:], ...) *)
IsPair(k) == k < Len(raw) /\ <<raw[k], raw[k + 1]>> \in Pairs

Token(kind, to) == Append(tokens, [kind |-> kind, from |-> i, to |-> to])

At(chars) == status = "running" /\ i <= Len(raw) /\ raw[i] \in chars

(* Mutant: the closing quote is left for the next turn. *)
AfterQuoteOn(j) == j

(* i = j + 1 *)
AfterQuote(j) == j + 1
-----------------------------------------------------------------------------
Init ==
    /\ raw \in UNION {[1..n -> Chars] : n \in 0..MaxLen}
    /\ i = 1
    /\ tokens = << >>
    /\ status = "running"

Go(to) == i' = to /\ UNCHANGED <<raw, status>>

Blank == At(Space) /\ Go(i + 1) /\ UNCHANGED tokens

Parenthesis ==
    /\ At(Parens)
    /\ tokens' = Token(raw[i], i + 1)
    /\ Go(i + 1)

Operator ==
    \/ /\ status = "running" /\ IsPair(i)
       /\ tokens' = Token("op", i + 2)
       /\ Go(i + 2)
    \/ /\ At(Singles) /\ ~IsPair(i)
       /\ tokens' = Token("op", i + 1)
       /\ Go(i + 1)

(* Mutant: any quote closes the text. *)
ClosesAny(j) == raw[j] \in Quotes

Closes(j) == raw[j] = raw[i]

Quoted ==
    /\ At(Quotes)
    /\ \E j \in (i + 1)..Len(raw) :
        /\ Closes(j) /\ \A k \in (i + 1)..(j - 1) : ~Closes(k)
        /\ tokens' = Token("string", j + 1)
        /\ Go(AfterQuote(j))

Unterminated ==
    /\ At(Quotes)
    /\ \A j \in (i + 1)..Len(raw) : ~Closes(j)
    /\ status' = "error"
    /\ UNCHANGED <<raw, i, tokens>>

Kind(j) == IF j = i + 1 /\ raw[i] \in Keywords THEN raw[i] ELSE "ident"

(* The first delimiter, or the end of the filter. *)
WordEnds(from) ==
    {j \in from..(Len(raw) + 1) :
        /\ j = Len(raw) + 1 \/ raw[j] \in Delimiters
        /\ \A k \in from..(j - 1) : raw[k] \notin Delimiters}

(* The default branch, of a "!" too that no "=" follows: an empty word. *)
Word ==
    /\ status = "running" /\ i <= Len(raw) /\ ~IsPair(i)
    /\ raw[i] \notin Space \cup Parens \cup Singles \cup Quotes
    /\ Len(tokens) < MaxTokens
    /\ \E j \in WordEnds(i) :
        /\ tokens' = Token(Kind(j), j)
        /\ Go(j)

Return ==
    /\ status = "running" /\ i > Len(raw)
    /\ status' = "done"
    /\ UNCHANGED <<raw, i, tokens>>

Next == Blank \/ Parenthesis \/ Operator \/ Quoted \/ Unterminated \/ Word \/ Return

(* A loop goes on. *)
Spec == Init /\ [][Next]_vars /\ WF_vars(Next)
-----------------------------------------------------------------------------
Kinds == Parens \cup {"op", "string", "ident"} \cup Keywords

(* Every variable stays in its range.                                        *)
TypeOK ==
    /\ raw \in Seq(Chars)
    /\ i \in 1..(Len(raw) + 1)
    /\ tokens \in Seq([kind : Kinds, from : 1..Len(raw), to : 1..(Len(raw) + 1)])
    /\ status \in {"running", "done", "error"}

(* A "!" with no "=" behind it, which no branch of the switch takes.         *)
Stuck == i <= Len(raw) /\ raw[i] = "!" /\ ~IsPair(i)

In(k, token) == token.from <= k /\ k < token.to

(* Nothing of the filter is lost and nothing is read twice: tokens do not    *)
(* overlap, are in order, and outside of them is only white space.           *)
Partition ==
    /\ \A a, b \in DOMAIN tokens : a < b => tokens[a].to <= tokens[b].from
    /\ \A a \in DOMAIN tokens : tokens[a].to <= i
    /\ \A k \in 1..(i - 1) : raw[k] \in Space \/ \E a \in DOMAIN tokens : In(k, tokens[a])

(* Tokens are whole: a word ends where no word goes on, ">=" is one token,   *)
(* and a text in quotes is closed by the first quote of its own kind.        *)
Whole ==
    \A a \in DOMAIN tokens :
        LET t == tokens[a] IN
        /\ t.kind \in {"ident"} \cup Keywords =>
              /\ t.to = Len(raw) + 1 \/ raw[t.to] \in Delimiters
              /\ \A k \in t.from..(t.to - 1) : raw[k] \notin Delimiters
        /\ t.kind = "op" /\ raw[t.from] \in {"<", ">", "!"} =>
              (t.to = t.from + 2 <=> IsPair(t.from))
        /\ t.kind = "string" =>
              {k \in (t.from + 1)..(t.to - 1) : raw[k] = raw[t.from]} = {t.to - 1}

(* Every turn of the loop moves on, unless it is stuck: the tokens of a      *)
(* filter are fewer than the characters read.                                *)
Bounded == Len(tokens) < i \/ Stuck

(* The loop ends for every filter, except at a "!" without "=".              *)
EndsOrStuck == <>(status # "running" \/ Stuck)
=============================================================================
