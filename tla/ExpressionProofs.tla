-------------------------- MODULE ExpressionProofs ----------------------------
(* What clients write: the filters of a search, then the operations of an     *)
(* aggregate.                                                                 *)
(*                                                                            *)
(* For filters of any length over any characters: what tokenizeFilter has cut *)
(* off is exactly what it has read, token by token, and it cuts off fewer     *)
(* tokens than it reads characters unless it is stuck.                        *)
(*                                                                            *)
(* For trees of any depth, over any fields and values: what is written flat   *)
(* for a tree is parsed to the predicate that the tree is compiled to, and a  *)
(* search for what is greater than a value leaves nothing of its kind out.    *)
(* For any tokens: the parser makes of them what the grammar says they mean.  *)
(*                                                                            *)
(* For operations of any depth, over any metrics, resources and answers: they *)
(* are read as they were written, and the response is, instant by instant,    *)
(* what the answers to the queries of all metrics in them say.                *)
EXTENDS FilterTokens, FilterGrammar, Aggregates,
        FiniteSetTheorems, NaturalsInduction, WellFoundedInduction, TLAPS

Inv == TypeOK /\ Partition /\ Whole /\ Bounded

(* What every branch of the switch does: it reads up to position to, where   *)
(* the characters read are white space or one more token.                    *)
Skipped(to) ==
    /\ i' = to /\ tokens' = tokens
    /\ \A k \in i..(to - 1) : raw[k] \in Space

Cut(kind, to) ==
    /\ i' = to /\ tokens' = Token(kind, to)
    /\ kind \in Kinds /\ i <= Len(raw)

WholeToken(t) ==
    /\ t.kind \in {"ident"} \cup Keywords =>
          /\ t.to = Len(raw) + 1 \/ raw[t.to] \in Delimiters
          /\ \A k \in t.from..(t.to - 1) : raw[k] \notin Delimiters
    /\ t.kind = "op" /\ raw[t.from] \in {"<", ">", "!"} =>
          (t.to = t.from + 2 <=> IsPair(t.from))
    /\ t.kind = "string" =>
          {k \in (t.from + 1)..(t.to - 1) : raw[k] = raw[t.from]} = {t.to - 1}

LEMMA WholeIsWholeTokens == Whole <=> \A a \in DOMAIN tokens : WholeToken(tokens[a])
BY DEF Whole, WholeToken

LEMMA SeqFacts ==
    ASSUME NEW S, NEW s \in Seq(S)
    PROVE  /\ Len(s) \in Nat /\ DOMAIN s = 1..Len(s)
           /\ \A a \in DOMAIN s : s[a] \in S
  OBVIOUS

(* Appending to a sequence.                                                  *)
LEMMA AppendFacts ==
    ASSUME NEW S, NEW s \in Seq(S), NEW e
    PROVE  /\ Len(s) \in Nat /\ DOMAIN s = 1..Len(s)
           /\ Len(Append(s, e)) = Len(s) + 1
           /\ DOMAIN Append(s, e) = 1..(Len(s) + 1)
           /\ \A a \in 1..Len(s) : Append(s, e)[a] = s[a]
           /\ Append(s, e)[Len(s) + 1] = e
  OBVIOUS

(* The types of positions.                                                   *)
LEMMA TypeFacts ==
    ASSUME TypeOK
    PROVE  /\ i \in Nat /\ Len(raw) \in Nat /\ Len(tokens) \in Nat
           /\ DOMAIN tokens = 1..Len(tokens)
           /\ \A a \in DOMAIN tokens :
                 /\ tokens[a] \in [kind : Kinds, from : 1..Len(raw), to : 1..(Len(raw) + 1)]
                 /\ tokens[a].to \in Nat /\ tokens[a].from \in Nat
<1> DEFINE T == [kind : Kinds, from : 1..Len(raw), to : 1..(Len(raw) + 1)]
<1>1. raw \in Seq(Chars) /\ i \in 1..(Len(raw) + 1) /\ tokens \in Seq(T)
  BY DEF TypeOK
<1>2. Len(raw) \in Nat
  BY <1>1
<1>3. i \in Nat
  BY <1>1, <1>2
<1>4. Len(tokens) \in Nat /\ DOMAIN tokens = 1..Len(tokens)
      /\ \A a \in DOMAIN tokens : tokens[a] \in T
  BY <1>1, SeqFacts
<1>5. \A t \in T : t.to \in Nat /\ t.from \in Nat
  BY <1>2
<1>6. QED
  BY <1>2, <1>3, <1>4, <1>5
-----------------------------------------------------------------------------
(* White space: nothing is cut off.                                          *)
LEMMA SkippedInv ==
    ASSUME Inv, NEW to \in Nat, i < to, to <= Len(raw) + 1, Skipped(to),
           raw' = raw, status' = status, ~Stuck
    PROVE  Inv'
<1> USE DEF Inv, Skipped
<1>1. /\ i \in Nat /\ Len(raw) \in Nat /\ Len(tokens) \in Nat
      /\ \A a \in DOMAIN tokens : tokens[a].to \in Nat
  BY TypeFacts
<1>2. TypeOK'
  BY <1>1 DEF TypeOK
<1>3. Partition'
  <2>1. \A a \in DOMAIN tokens : tokens[a].to <= to
    BY <1>1 DEF Partition
  <2>2. \A k \in 1..(to - 1) : raw[k] \in Space \/ \E a \in DOMAIN tokens : In(k, tokens[a])
    BY <1>1 DEF Partition
  <2>3. QED
    BY <2>1, <2>2 DEF Partition, In
<1>4. Whole'
  BY DEF Whole, IsPair
<1>5. Bounded'
  BY <1>1 DEF Bounded
<1>6. QED
  BY <1>2, <1>3, <1>4, <1>5

(* A token: everything from i up to to.                                      *)
LEMMA CutInv ==
    ASSUME Inv, NEW kind, NEW to \in Nat, i <= to, to <= Len(raw) + 1, Cut(kind, to),
           WholeToken([kind |-> kind, from |-> i, to |-> to]),
           raw' = raw, status' = status, (i < to /\ ~Stuck) \/ (to = i /\ Stuck)
    PROVE  Inv'
<1> DEFINE t == [kind |-> kind, from |-> i, to |-> to]
           n == Len(tokens)
<1> USE DEF Inv
<1>1. /\ i \in 1..Len(raw) /\ Len(raw) \in Nat
      /\ tokens \in Seq([kind : Kinds, from : 1..Len(raw), to : 1..(Len(raw) + 1)])
  BY DEF TypeOK, Cut
<1>2. t \in [kind : Kinds, from : 1..Len(raw), to : 1..(Len(raw) + 1)]
  BY <1>1 DEF Cut
<1>3. tokens' = Append(tokens, t) /\ i' = to
  BY DEF Cut, Token
<1>4. /\ n \in Nat /\ DOMAIN tokens = 1..n /\ DOMAIN tokens' = 1..(n + 1)
      /\ Len(tokens') = n + 1 /\ tokens'[n + 1] = t
      /\ \A a \in 1..n : tokens'[a] = tokens[a]
  BY <1>1, <1>3, AppendFacts
<1>5. TypeOK'
  <2>1. tokens' \in Seq([kind : Kinds, from : 1..Len(raw), to : 1..(Len(raw) + 1)])
    BY <1>1, <1>2, <1>3
  <2>2. QED
    BY <1>1, <1>3, <2>1 DEF TypeOK
<1>6. \A a \in 1..n : tokens[a].to <= i /\ tokens[a].to \in Nat
  BY <1>4, TypeFacts DEF Partition
<1>7. Partition'
  <2>1. ASSUME NEW a \in 1..(n + 1), NEW b \in 1..(n + 1), a < b
        PROVE  tokens'[a].to <= tokens'[b].from
    <3>1. a \in 1..n
      BY <1>4, <2>1
    <3>2. CASE b \in 1..n
      BY <1>4, <2>1, <3>1, <3>2 DEF Partition
    <3>3. CASE b = n + 1
      BY <1>4, <1>6, <3>1, <3>3
    <3>4. QED
      BY <1>4, <3>2, <3>3
  <2>2. ASSUME NEW a \in 1..(n + 1) PROVE tokens'[a].to <= to
    <3>1. CASE a \in 1..n
      <4>1. tokens'[a].to <= i /\ tokens'[a].to \in Nat
        BY <1>4, <1>6, <3>1
      <4>2. QED
        BY <1>1, <4>1
    <3>2. CASE a = n + 1
      BY <1>4, <3>2
    <3>3. QED
      BY <1>4, <3>1, <3>2
  <2>3. ASSUME NEW k \in 1..(to - 1)
        PROVE  raw[k] \in Space \/ \E a \in 1..(n + 1) : In(k, tokens'[a])
    <3>1. CASE k <= i - 1
      <4>1. raw[k] \in Space \/ \E a \in 1..n : In(k, tokens[a])
        BY <1>1, <1>4, <3>1 DEF Partition
      <4>2. QED
        BY <1>4, <4>1
    <3>2. CASE i <= k
      <4>1. In(k, t)
        BY <1>1, <3>2 DEF In
      <4>2. n + 1 \in 1..(n + 1) /\ tokens'[n + 1] = t
        BY <1>4
      <4>3. QED
        BY <4>1, <4>2
    <3>3. QED
      BY <1>1, <3>1, <3>2
  <2>4. QED
    BY <1>3, <1>4, <2>1, <2>2, <2>3 DEF Partition, In
<1>8. Whole'
  <2>1. ASSUME NEW a \in 1..(n + 1) PROVE WholeToken(tokens'[a])
    <3>1. CASE a \in 1..n
      BY <1>4, <3>1 DEF Whole, WholeToken
    <3>2. CASE a = n + 1
      BY <1>4, <3>2
    <3>3. QED
      BY <1>4, <3>1, <3>2
  <2>2. QED
    BY <1>4, <2>1 DEF Whole, WholeToken, IsPair
<1>9. Bounded'
  <2>1. CASE i < to /\ ~Stuck
    BY <1>1, <1>3, <1>4, <2>1 DEF Bounded
  <2>2. CASE to = i /\ Stuck
    BY <1>3, <2>2 DEF Bounded, Stuck, IsPair
  <2>3. QED
    BY <2>1, <2>2
<1>10. QED
  BY <1>5, <1>7, <1>8, <1>9
-----------------------------------------------------------------------------
LEMMA InitInv == Init => Inv
<1> SUFFICES ASSUME Init PROVE Inv
  OBVIOUS
<1>1. raw \in Seq(Chars) /\ i = 1 /\ tokens = << >>
  BY TokensAssumption DEF Init
<1>2. Len(raw) \in Nat
  BY <1>1
<1>3. TypeOK
  BY <1>1, <1>2 DEF Init, TypeOK
<1>4. Partition /\ Whole /\ Bounded
  BY <1>1 DEF Partition, Whole, Bounded
<1>5. QED
  BY <1>3, <1>4 DEF Inv

LEMMA BlankInv == Inv /\ Blank => Inv'
<1> SUFFICES ASSUME Inv, Blank PROVE Inv'
  OBVIOUS
<1>1. i \in Nat /\ Len(raw) \in Nat /\ i <= Len(raw)
  BY TypeFacts DEF Inv, Blank, At
<1>2. /\ raw[i] \in Space /\ i' = i + 1 /\ tokens' = tokens
      /\ raw' = raw /\ status' = status /\ ~Stuck
  BY DEF Blank, At, Go, Space, Stuck
<1>3. \A k \in i..((i + 1) - 1) : k = i
  BY <1>1
<1>4. Skipped(i + 1)
  BY <1>2, <1>3 DEF Skipped
<1>5. QED
  BY <1>1, <1>2, <1>4, SkippedInv

LEMMA ParenthesisInv == Inv /\ Parenthesis => Inv'
<1> SUFFICES ASSUME Inv, Parenthesis PROVE Inv'
  OBVIOUS
<1>1. i \in Nat /\ Len(raw) \in Nat /\ i <= Len(raw) /\ raw[i] \in Parens
  BY TypeFacts DEF Inv, Parenthesis, At
<1>2. Cut(raw[i], i + 1) /\ raw' = raw /\ status' = status /\ ~Stuck
  BY <1>1 DEF Parenthesis, Go, Cut, Kinds, Parens, Stuck
<1>3. CASE raw[i] \notin Keywords
  <2>1. WholeToken([kind |-> raw[i], from |-> i, to |-> i + 1])
    BY <1>1, <1>3 DEF WholeToken, Parens
  <2>2. QED
    BY <1>1, <1>2, <2>1, CutInv
<1>4. QED
  BY <1>3, <1>1, KeywordsAssumption DEF Parens

LEMMA OperatorInv == Inv /\ Operator => Inv'
<1> SUFFICES ASSUME Inv, Operator PROVE Inv'
  OBVIOUS
<1>1. i \in Nat /\ Len(raw) \in Nat /\ "op" \in Kinds /\ "op" \notin Keywords
  BY TypeFacts, KeywordsAssumption DEF Inv, Kinds
<1>2. CASE IsPair(i) /\ tokens' = Token("op", i + 2) /\ Go(i + 2)
  <2>1. i + 2 <= Len(raw) + 1 /\ ~Stuck
    BY <1>1, <1>2 DEF IsPair, Stuck
  <2>2. Cut("op", i + 2) /\ raw' = raw /\ status' = status
    BY <1>1, <1>2, <2>1 DEF Go, Cut
  <2>3. WholeToken([kind |-> "op", from |-> i, to |-> i + 2])
    BY <1>1, <1>2 DEF WholeToken
  <2>4. QED
    BY <1>1, <2>1, <2>2, <2>3, CutInv
<1>3. CASE At(Singles) /\ ~IsPair(i) /\ tokens' = Token("op", i + 1) /\ Go(i + 1)
  <2>1. i <= Len(raw) /\ ~Stuck
    BY <1>3 DEF At, Singles, Stuck
  <2>2. Cut("op", i + 1) /\ raw' = raw /\ status' = status
    BY <1>1, <1>3, <2>1 DEF Go, Cut
  <2>3. WholeToken([kind |-> "op", from |-> i, to |-> i + 1])
    BY <1>1, <1>3 DEF WholeToken
  <2>4. QED
    BY <1>1, <2>1, <2>2, <2>3, CutInv
<1>4. QED
  BY <1>2, <1>3 DEF Operator

LEMMA QuotedInv == Inv /\ Quoted => Inv'
<1> SUFFICES ASSUME Inv, Quoted PROVE Inv'
  OBVIOUS
<1>1. /\ i \in Nat /\ Len(raw) \in Nat /\ i <= Len(raw) /\ raw[i] \in Quotes
      /\ "string" \in Kinds /\ "string" \notin Keywords
  BY TypeFacts, KeywordsAssumption DEF Inv, Quoted, At, Kinds
<1>2. PICK j \in (i + 1)..Len(raw) :
        /\ Closes(j) /\ \A k \in (i + 1)..(j - 1) : ~Closes(k)
        /\ tokens' = Token("string", j + 1)
        /\ Go(j + 1)
  BY DEF Quoted, AfterQuote
<1>3. j \in Nat /\ i < j /\ j <= Len(raw) /\ ~Stuck
  BY <1>1, <1>2 DEF Stuck, Quotes
<1>4. Cut("string", j + 1) /\ raw' = raw /\ status' = status
  BY <1>1, <1>2 DEF Go, Cut
<1>5. {k \in (i + 1)..j : raw[k] = raw[i]} = {j}
  BY <1>1, <1>2, <1>3 DEF Closes
<1>6. WholeToken([kind |-> "string", from |-> i, to |-> j + 1])
  <2>1. (j + 1) - 1 = j
    BY <1>3
  <2>2. QED
    BY <1>1, <1>5, <2>1 DEF WholeToken
<1>7. QED
  BY <1>1, <1>3, <1>4, <1>6, CutInv

LEMMA WordInv == Inv /\ Word => Inv'
<1> SUFFICES ASSUME Inv, Word PROVE Inv'
  OBVIOUS
<1>1. i \in Nat /\ Len(raw) \in Nat /\ i <= Len(raw)
  BY TypeFacts DEF Inv, Word
<1>2. PICK j \in WordEnds(i) : tokens' = Token(Kind(j), j) /\ Go(j)
  BY DEF Word
<1>3. /\ j \in Nat /\ i <= j /\ j <= Len(raw) + 1
      /\ j = Len(raw) + 1 \/ raw[j] \in Delimiters
      /\ \A k \in i..(j - 1) : raw[k] \notin Delimiters
  BY <1>1, <1>2 DEF WordEnds
<1>4. Cut(Kind(j), j) /\ raw' = raw /\ status' = status
  BY <1>1, <1>2 DEF Go, Cut, Kind, Kinds
<1>5. Kind(j) # "op" /\ Kind(j) # "string"
  BY KeywordsAssumption DEF Kind
<1>6. WholeToken([kind |-> Kind(j), from |-> i, to |-> j])
  BY <1>3, <1>5 DEF WholeToken
<1>7. (i < j /\ ~Stuck) \/ (j = i /\ Stuck)
  <2>1. CASE raw[i] \in Delimiters
    <3>1. raw[i] = "!" /\ Stuck
      BY <1>1, <2>1 DEF Word, Delimiters, Space, Parens, Singles, Stuck
    <3>2. j = i
      BY <1>1, <1>3, <2>1
    <3>3. QED
      BY <3>1, <3>2
  <2>2. CASE raw[i] \notin Delimiters
    <3>1. j # i
      BY <1>1, <1>3, <2>2
    <3>2. raw[i] # "!"
      BY <2>2 DEF Delimiters
    <3>3. QED
      BY <1>1, <1>3, <3>1, <3>2 DEF Stuck
  <2>3. QED
    BY <2>1, <2>2
<1>8. QED
  BY <1>3, <1>4, <1>6, <1>7, CutInv

LEMMA StopInv ==
    ASSUME Inv, raw' = raw, i' = i, tokens' = tokens, status' \in {"running", "done", "error"}
    PROVE  Inv'
<1>1. TypeOK'
  BY DEF Inv, TypeOK
<1>2. Partition' /\ Whole' /\ Bounded'
  BY DEF Inv, Partition, In, Whole, IsPair, Bounded, Stuck
<1>3. QED
  BY <1>1, <1>2 DEF Inv

LEMMA Invariance == Spec => []Inv
<1>1. Inv /\ [Next]_vars => Inv'
  <2> SUFFICES ASSUME Inv, [Next]_vars PROVE Inv'
    OBVIOUS
  <2>1. CASE Unterminated \/ Return \/ UNCHANGED vars
    BY <2>1, StopInv DEF Unterminated, Return, vars, Inv, TypeOK
  <2>2. QED
    BY <2>1, BlankInv, ParenthesisInv, OperatorInv, QuotedInv, WordInv DEF Next
<1>2. QED
  BY <1>1, InitInv, PTL DEF Spec
-----------------------------------------------------------------------------
(* The loop's position never leaves the filter, and tokens are tokens.       *)
THEOREM TypeCorrect == Spec => []TypeOK
<1>1. Inv => TypeOK
  BY DEF Inv
<1>2. QED
  BY <1>1, Invariance, PTL

(* Nothing of a filter is lost or read twice by tokenizeFilter.              *)
THEOREM AlwaysPartition == Spec => []Partition
<1>1. Inv => Partition
  BY DEF Inv
<1>2. QED
  BY <1>1, Invariance, PTL

(* tokenizeFilter never cuts a word, an operator or a quoted text short.     *)
THEOREM AlwaysWhole == Spec => []Whole
<1>1. Inv => Whole
  BY DEF Inv
<1>2. QED
  BY <1>1, Invariance, PTL

(* Every token costs a character: but for a lone "!", the loop cannot go on  *)
(* for ever.                                                                 *)
THEOREM AlwaysBounded == Spec => []Bounded
<1>1. Inv => Bounded
  BY DEF Inv
<1>2. QED
  BY <1>1, Invariance, PTL
-----------------------------------------------------------------------------
(* A set of numbers has a least one: induction without an operator.          *)
LEMMA Least ==
    ASSUME NEW T, T \subseteq Nat, T # {}
    PROVE  \E n \in T : \A m \in T : n <= m
<1>1. PICK n \in T : \A m \in T : ~ (<<m, n>> \in OpToRel(<, Nat))
  BY WFMin, NatLessThanWellFounded
<1>2. ASSUME NEW m \in T, m < n
      PROVE  <<m, n>> \in OpToRel(<, Nat)
  <2>1. <<m, n>> \in {ss \in Nat \X Nat : ss[1] < ss[2]}
    BY <1>2
  <2>2. QED
    BY ONLY <2>1 DEF OpToRel
<1>3. \A m \in T : ~(m < n)
  BY <1>1, <1>2
<1>4. QED
  BY <1>3

(* A recursion defines a function if a step, which gives the value at a      *)
(* point from a function, looks only at points of a lower rank.  The values  *)
(* at a point x are those of W[x].                                           *)
Choices(S, V, W) == {h \in [S -> V] : \A x \in S : h[x] \in W[x]}
Descends(S, V, W, rank, step) ==
    /\ step \in [S \X Choices(S, V, W) -> V]
    /\ \A x \in S, h \in Choices(S, V, W) : step[<<x, h>>] \in W[x]
    /\ \A x \in S, g \in Choices(S, V, W), h \in Choices(S, V, W) :
          (\A y \in S : rank[y] < rank[x] => g[y] = h[y]) => step[<<x, g>>] = step[<<x, h>>]

LEMMA Recursion ==
    ASSUME NEW S, NEW V, NEW W, NEW step, NEW max \in Nat, NEW rank \in [S -> 0..max],
           Choices(S, V, W) # {}, Descends(S, V, W, rank, step)
    PROVE  \E h \in Choices(S, V, W) : \A x \in S : h[x] = step[<<x, h>>]
<1> DEFINE H == Choices(S, V, W)
           Upto(n) == \E h \in H : \A x \in S : rank[x] < n => h[x] = step[<<x, h>>]
           bad == {n \in Nat : ~ Upto(n)}
<1>1. Upto(0)
  <2>1. \A x \in S : ~(rank[x] < 0)
    OBVIOUS
  <2>2. QED
    BY <2>1
<1>2. ASSUME NEW n \in Nat, Upto(n)
      PROVE  Upto(n + 1)
  <2>1. PICK h \in H : \A x \in S : rank[x] < n => h[x] = step[<<x, h>>]
    BY <1>2
  <2> DEFINE k == [x \in S |-> step[<<x, h>>]]
  <2>2. \A x \in S : step[<<x, h>>] \in V /\ step[<<x, h>>] \in W[x]
    <3>1. \A x \in S : <<x, h>> \in S \X H
      OBVIOUS
    <3>2. QED
      BY <3>1 DEF Descends
  <2>3. k \in H
    BY <2>2 DEF Choices
  <2>4. \A x \in S : rank[x] < n => k[x] = h[x]
    BY <2>1
  <2>5. ASSUME NEW x \in S, rank[x] < n + 1
        PROVE  k[x] = step[<<x, k>>]
    <3>1. \A y \in S : rank[y] < rank[x] => k[y] = h[y]
      <4> HIDE DEF k, H
      <4>1. \A y \in S : rank[y] \in Nat /\ rank[x] \in Nat
        OBVIOUS
      <4>2. QED
        BY <2>4, <2>5, <4>1
    <3>2. step[<<x, k>>] = step[<<x, h>>]
      BY <2>3, <3>1 DEF Descends
    <3>3. QED
      BY <3>2
  <2>6. QED
    BY <2>3, <2>5
<1> HIDE DEF Upto
<1>3. bad = {}
  <2> SUFFICES ASSUME bad # {} PROVE FALSE
    OBVIOUS
  <2>1. PICK n \in bad : \A m \in bad : n <= m
    BY Least
  <2>2. n # 0
    BY <1>1, <2>1
  <2>3. n - 1 \in Nat /\ n - 1 \notin bad
    BY <2>1, <2>2
  <2>4. QED
    BY <1>2, <2>1, <2>3
<1>4. Upto(max + 1)
  BY <1>3
<1>5. PICK h \in H : \A x \in S : rank[x] < max + 1 => h[x] = step[<<x, h>>]
  BY <1>4 DEF Upto
<1>6. \A x \in S : rank[x] < max + 1
  OBVIOUS
<1>7. QED
  BY <1>5, <1>6
-----------------------------------------------------------------------------
(* What the parser may make of the tokens from p on: an error, or a          *)
(* predicate and a position behind p.                                        *)
Preds == (SUBSET Resources) \cup {Rejected}
Ends == 0..(Len(words) + 1)
Starts == 1..(Len(words) + 1)
Results(p) == {e \in [pred : Preds, pos : Ends] : e = Fail \/ p < e.pos}

ParseStep(p, h) ==
    LET term == ParseTerm(p, h[p + 1].or)
        and == ParseOperands("and", term, h[term.pos + 1].and)
        or == ParseOperands("or", and, h[and.pos + 1].or)
    IN [and |-> and, or |-> or]

LEMMA RejectedIsNoPredicate ==
    Rejected \notin SUBSET Resources
BY FiltersAssumption DEF Rejected

LEMMA ComparisonIn ==
    ASSUME Len(words) \in Nat, NEW p \in Starts
    PROVE  ParseComparison(p) \in Results(p)
<1> DEFINE m == Matching(words[p + 1].value, words[p].field, Scalar(words[p + 2]))
<1>1. m \in Preds
  BY DEF Matching, Preds
<1>2. Rejected \in Preds
  BY DEF Preds
<1> HIDE DEF m
<1>3. CASE /\ KindAt(p) = "ident" /\ KindAt(p + 1) = "op"
           /\ KindAt(p + 2) \in {"ident", "string"}
  <2>1. p + 2 <= Len(words)
    BY <1>3 DEF KindAt, Starts
  <2>2. ParseComparison(p) = [pred |-> m, pos |-> p + 3]
    BY <1>3 DEF ParseComparison, Parsed, m
  <2>3. QED
    BY <1>1, <2>1, <2>2 DEF Results, Ends, Starts
<1>4. CASE ~ (/\ KindAt(p) = "ident" /\ KindAt(p + 1) = "op"
              /\ KindAt(p + 2) \in {"ident", "string"})
  <2>1. ParseComparison(p) = Fail
    BY <1>4 DEF ParseComparison
  <2>2. QED
    BY <1>2, <2>1 DEF Results, Ends, Fail, Parsed
<1>5. QED
  BY <1>3, <1>4

LEMMA TermIn ==
    ASSUME Len(words) \in Nat, NEW p \in Starts, NEW inner,
           p <= Len(words) => inner \in Results(p + 1)
    PROVE  ParseTerm(p, inner) \in Results(p)
<1>1. CASE KindAt(p) # "("
  BY <1>1, ComparisonIn DEF ParseTerm
<1>2. CASE KindAt(p) = "("
  <2>1. p <= Len(words)
    BY <1>2 DEF KindAt, Starts
  <2>2. inner \in Results(p + 1)
    BY <2>1
  <2>3. CASE inner.pred = Rejected \/ KindAt(inner.pos) # ")"
    <3>1. ParseTerm(p, inner) = Fail
      BY <1>2, <2>3 DEF ParseTerm
    <3>2. QED
      BY <3>1 DEF Results, Preds, Ends, Fail, Parsed
  <2>4. CASE ~(inner.pred = Rejected \/ KindAt(inner.pos) # ")")
    <3>1. ParseTerm(p, inner) = [pred |-> inner.pred, pos |-> inner.pos + 1]
      BY <1>2, <2>4 DEF ParseTerm, Parsed
    <3>2. inner.pos <= Len(words)
      BY <2>2, <2>4 DEF KindAt, Results, Ends
    <3>3. p + 1 < inner.pos
      BY <2>2, <2>4 DEF Results, Fail, Parsed
    <3>4. QED
      BY <2>2, <3>1, <3>2, <3>3 DEF Results, Ends, Starts
  <2>5. QED
    BY <2>3, <2>4
<1>3. QED
  BY <1>1, <1>2

LEMMA OperandsIn ==
    ASSUME Len(words) \in Nat, NEW p \in Starts,
           NEW kind \in Lists, NEW left \in Results(p), NEW right,
           left.pred # Rejected /\ left.pos <= Len(words) => right \in Results(left.pos + 1)
    PROVE  ParseOperands(kind, left, right) \in Results(p)
<1>1. CASE left.pred = Rejected \/ KindAt(left.pos) # kind
  BY <1>1 DEF ParseOperands
<1>2. CASE ~(left.pred = Rejected \/ KindAt(left.pos) # kind)
  <2>1. left.pos <= Len(words)
    BY <1>2 DEF KindAt, Results, Ends, Lists
  <2>2. right \in Results(left.pos + 1)
    BY <1>2, <2>1
  <2>3. CASE right.pred = Rejected
    <3>1. ParseOperands(kind, left, right) = Fail
      BY <1>2, <2>3 DEF ParseOperands
    <3>2. QED
      BY <3>1 DEF Results, Preds, Ends, Fail, Parsed
  <2>4. CASE right.pred # Rejected
    <3> DEFINE m == IF kind = "and" THEN left.pred \cap right.pred ELSE left.pred \cup right.pred
    <3>1. ParseOperands(kind, left, right) = [pred |-> m, pos |-> right.pos]
      BY <1>2, <2>4 DEF ParseOperands, Parsed
    <3>2. left.pred \in SUBSET Resources /\ right.pred \in SUBSET Resources
      BY <1>2, <2>2, <2>4 DEF Results, Preds
    <3>3. m \in Preds
      BY <3>2 DEF Preds
    <3> HIDE DEF m
    <3>4. p < left.pos /\ left.pos + 1 < right.pos
      BY <1>2, <2>2, <2>4 DEF Results, Fail, Parsed
    <3>5. left.pos \in Nat /\ right.pos \in Ends
      BY <2>2 DEF Results, Ends
    <3>6. p < right.pos
      BY <3>4, <3>5 DEF Starts, Ends
    <3>7. QED
      BY <3>1, <3>3, <3>5, <3>6 DEF Results
  <2>5. QED
    BY <2>3, <2>4
<1>3. QED
  BY <1>1, <1>2
-----------------------------------------------------------------------------
(* What the parser makes of a position depends on later positions only.      *)
After(h) ==
    /\ DOMAIN h = Starts
    /\ \A p \in Starts : h[p].and \in Results(p) /\ h[p].or \in Results(p)

LEMMA StepIn ==
    ASSUME Len(words) \in Nat, NEW h, After(h), NEW p \in Starts
    PROVE  ParseStep(p, h).and \in Results(p) /\ ParseStep(p, h).or \in Results(p)
<1> DEFINE term == ParseTerm(p, h[p + 1].or)
           and == ParseOperands("and", term, h[term.pos + 1].and)
           or == ParseOperands("or", and, h[and.pos + 1].or)
<1>1. \A e \in Results(p) : e.pos <= Len(words) => e.pos + 1 \in Starts
  BY DEF Results, Ends, Starts
<1>2. term \in Results(p)
  <2>1. p <= Len(words) => p + 1 \in Starts
    BY DEF Starts
  <2>2. QED
    BY <2>1, TermIn DEF After
<1> HIDE DEF term
<1>3. and \in Results(p)
  <2>1. term.pos <= Len(words) => h[term.pos + 1].and \in Results(term.pos + 1)
    BY <1>1, <1>2 DEF After
  <2>2. "and" \in Lists
    BY DEF Lists
  <2>3. QED
    BY <1>2, <2>1, <2>2, OperandsIn
<1> HIDE DEF and
<1>4. or \in Results(p)
  <2>1. and.pos <= Len(words) => h[and.pos + 1].or \in Results(and.pos + 1)
    BY <1>1, <1>3 DEF After
  <2>2. "or" \in Lists
    BY DEF Lists
  <2>3. QED
    BY <1>3, <2>1, <2>2, OperandsIn
<1>5. ParseStep(p, h) = [and |-> and, or |-> or]
  BY DEF ParseStep, term, and, or
<1>6. QED
  BY <1>3, <1>4, <1>5

LEMMA StepLooksAhead ==
    ASSUME Len(words) \in Nat, NEW g, After(g), NEW h, After(h),
           NEW p \in Starts, \A q \in Starts : p < q => g[q] = h[q]
    PROVE  ParseStep(p, g) = ParseStep(p, h)
<1> DEFINE term(f) == ParseTerm(p, f[p + 1].or)
           and(f) == ParseOperands("and", term(f), f[term(f).pos + 1].and)
           or(f) == ParseOperands("or", and(f), f[and(f).pos + 1].or)
<1>1. \A e \in Results(p) :
         e.pred # Rejected /\ e.pos <= Len(words) => g[e.pos + 1] = h[e.pos + 1]
  <2>1. \A e \in Results(p) : e.pred # Rejected => p < e.pos /\ e.pos \in Nat
    BY DEF Results, Ends, Fail, Parsed
  <2>2. \A e \in Results(p) :
           e.pred # Rejected /\ e.pos <= Len(words) => e.pos + 1 \in Starts /\ p < e.pos + 1
    BY <2>1 DEF Starts
  <2>3. QED
    BY <2>2
<1>2. term(g) = term(h)
  <2>1. p <= Len(words) => p + 1 \in Starts /\ p < p + 1
    BY DEF Starts
  <2>2. KindAt(p) = "(" => p <= Len(words)
    BY DEF KindAt, Starts
  <2>3. KindAt(p) = "(" => g[p + 1] = h[p + 1]
    BY <2>1, <2>2
  <2>4. QED
    BY <2>3 DEF ParseTerm
<1>3. term(g) \in Results(p)
  <2>1. p <= Len(words) => p + 1 \in Starts
    BY DEF Starts
  <2>2. QED
    BY <2>1, TermIn DEF After
<1>4. /\ ParseStep(p, g) = [and |-> and(g), or |-> or(g)]
      /\ ParseStep(p, h) = [and |-> and(h), or |-> or(h)]
  BY DEF ParseStep
<1>5. and(g) \in Results(p)
  <2>1. ParseStep(p, g).and \in Results(p)
    BY StepIn
  <2> HIDE DEF and, or
  <2>2. QED
    BY <1>4, <2>1
<1> HIDE DEF term
<1>6. \A e \in Results(p), kind \in Lists :
         e.pred # Rejected /\ KindAt(e.pos) = kind => e.pos <= Len(words)
  BY DEF KindAt, Results, Ends, Lists
<1>7. and(g) = and(h)
  <2>1. "and" \in Lists
    BY DEF Lists
  <2>2. term(g).pred = Rejected \/ KindAt(term(g).pos) # "and"
        \/ g[term(g).pos + 1] = h[term(g).pos + 1]
    BY <1>1, <1>3, <1>6, <2>1
  <2>3. QED
    BY <1>2, <2>2 DEF ParseOperands
<1> HIDE DEF and
<1>8. or(g) = or(h)
  <2>1. "or" \in Lists
    BY DEF Lists
  <2>2. and(g).pred = Rejected \/ KindAt(and(g).pos) # "or"
        \/ g[and(g).pos + 1] = h[and(g).pos + 1]
    BY <1>1, <1>5, <1>6, <2>1
  <2>3. QED
    BY <1>7, <2>2 DEF ParseOperands
<1>9. QED
  BY <1>4, <1>7, <1>8

(* The recursion of the parser defines a function.                           *)
LEMMA ParseIs ==
    ASSUME Len(words) \in Nat
    PROVE  \A p \in Starts : Parse[p] = ParseStep(p, Parse)
<1> DEFINE V == UNION {[and : Results(p), or : Results(p)] : p \in Starts}
           W == [p \in Starts |-> [and : Results(p), or : Results(p)]]
           H == Choices(Starts, V, W)
           rank == [p \in Starts |-> Len(words) + 1 - p]
           step == [a \in Starts \X H |-> ParseStep(a[1], a[2])]
<1>1. \A h \in H : After(h)
  BY DEF After, Choices
<1>2. \A p \in Starts, h \in H : ParseStep(p, h) \in W[p] /\ W[p] \subseteq V
  <2> SUFFICES ASSUME NEW p \in Starts, NEW h \in H
               PROVE  ParseStep(p, h) \in W[p] /\ W[p] \subseteq V
    OBVIOUS
  <2>1. ParseStep(p, h).and \in Results(p) /\ ParseStep(p, h).or \in Results(p)
    BY <1>1, StepIn
  <2>2. ParseStep(p, h) = [and |-> ParseStep(p, h).and, or |-> ParseStep(p, h).or]
    BY DEF ParseStep
  <2> HIDE DEF H
  <2>3. QED
    BY <2>1, <2>2
<1>3. \A p \in Starts, h \in H : step[<<p, h>>] = ParseStep(p, h)
  <2> HIDE DEF H
  <2>1. QED
    OBVIOUS
<1>4. Descends(Starts, V, W, rank, step)
  <2>1. step \in [Starts \X H -> V]
    <3> HIDE DEF H, W, V
    <3>1. \A a \in Starts \X H : a[1] \in Starts /\ a[2] \in H
      OBVIOUS
    <3>2. \A a \in Starts \X H : ParseStep(a[1], a[2]) \in V
      BY <1>2, <3>1
    <3>3. QED
      BY <3>2
  <2>2. \A p \in Starts, g \in H, h \in H :
           (\A q \in Starts : rank[q] < rank[p] => g[q] = h[q]) => step[<<p, g>>] = step[<<p, h>>]
    <3> HIDE DEF H, step
    <3> SUFFICES ASSUME NEW p \in Starts, NEW g \in H, NEW h \in H,
                        \A q \in Starts : rank[q] < rank[p] => g[q] = h[q]
                 PROVE  ParseStep(p, g) = ParseStep(p, h)
      BY <1>3
    <3>1. \A q \in Starts : p < q => g[q] = h[q]
      BY DEF Starts
    <3>2. QED
      BY <1>1, <3>1, StepLooksAhead
  <2> HIDE DEF H, step, V, W, rank
  <2>3. \A p \in Starts, h \in H : step[<<p, h>>] \in W[p]
    BY <1>2, <1>3
  <2>4. QED
    BY <2>1, <2>2, <2>3 DEF Descends, H
<1>5. rank \in [Starts -> 0..Len(words)]
  BY DEF Starts
<1>6. H # {}
  <2> DEFINE fail == [p \in Starts |-> [and |-> Fail, or |-> Fail]]
  <2>1. \A p \in Starts : Fail \in Results(p)
    BY DEF Results, Preds, Ends, Fail, Parsed
  <2>2. \A p \in Starts : [and |-> Fail, or |-> Fail] \in [and : Results(p), or : Results(p)]
    BY <2>1
  <2>3. \A p \in Starts : fail[p] \in V /\ fail[p] \in W[p]
    BY <2>2
  <2> HIDE DEF V, W
  <2>4. fail \in H
    BY <2>3 DEF Choices
  <2>5. QED
    BY <2>4
<1>7. PICK h \in H : \A p \in Starts : h[p] = step[<<p, h>>]
  <2> HIDE DEF V, W, rank, step
  <2>1. QED
    BY <1>4, <1>5, <1>6, Recursion
<1>8. h = [p \in Starts |-> ParseStep(p, h)]
  <2> HIDE DEF step
  <2>1. h = [p \in Starts |-> h[p]]
    BY DEF Choices
  <2>2. QED
    BY <1>3, <1>7, <2>1
<1>9. Parse = CHOOSE f : f = [p \in Starts |-> ParseStep(p, f)]
  BY DEF Parse, ParseStep, Starts
<1>10. Parse = [p \in Starts |-> ParseStep(p, Parse)]
  BY <1>8, <1>9
<1>11. QED
  BY <1>10
-----------------------------------------------------------------------------
(* The recursion over JSON trees.                                            *)
CompileStep(t, h) ==
    IF t.op = "malformed" THEN Rejected
    ELSE IF t.op \in Lists
    THEN LET preds == {h[t.args[k]] : k \in DOMAIN t.args}
         IN IF Rejected \in preds THEN Rejected
            ELSE IF t.op = "and" THEN {r \in Resources : \A p \in preds : r \in p}
            ELSE UNION preds
    ELSE Matching(t.op, t.field, t.value)

LEMMA OperatorsAre ==
    /\ "malformed" \notin Lists /\ "malformed" \notin Operators
    /\ \A op \in Lists : op \notin Operators
BY DEF Lists, Operators

LEMMA PartsAre ==
    ASSUME NEW t \in Trees, t.op \in Lists, NEW k \in DOMAIN t.args
    PROVE  t.args[k] \in Trees /\ Height[t.args[k]] < Height[t]
<1>1. t.args \in Seq(Trees) /\ \A j \in DOMAIN t.args : Height[t.args[j]] < Height[t]
  BY OperatorsAre, TreesAssumption
<1>2. QED
  BY <1>1

LEMMA CompileIs ==
    \A t \in Trees : Compile[t] = CompileStep(t, Compile)
<1> DEFINE V == Preds
           W == [t \in Trees |-> Preds]
           H == Choices(Trees, V, W)
           step == [a \in Trees \X H |-> CompileStep(a[1], a[2])]
<1>1. \A t \in Trees, h \in H : CompileStep(t, h) \in Preds
  <2> SUFFICES ASSUME NEW t \in Trees, NEW h \in H
               PROVE  CompileStep(t, h) \in Preds
    OBVIOUS
  <2>1. CASE t.op = "malformed"
    BY <2>1 DEF CompileStep, Preds
  <2>2. CASE t.op # "malformed" /\ t.op \in Lists
    <3> DEFINE preds == {h[t.args[k]] : k \in DOMAIN t.args}
    <3>1. \A k \in DOMAIN t.args : h[t.args[k]] \in Preds
      BY <2>2, PartsAre DEF Choices
    <3>2. preds \subseteq Preds
      BY <3>1
    <3>3. CompileStep(t, h) = IF Rejected \in preds THEN Rejected
                              ELSE IF t.op = "and"
                              THEN {r \in Resources : \A p \in preds : r \in p}
                              ELSE UNION preds
      BY <2>2 DEF CompileStep
    <3> HIDE DEF preds
    <3>4. Rejected \notin preds => UNION preds \subseteq Resources
      BY <3>2 DEF Preds
    <3>5. QED
      BY <3>3, <3>4 DEF Preds
  <2>3. CASE t.op # "malformed" /\ t.op \notin Lists
    <3>1. CompileStep(t, h) = Matching(t.op, t.field, t.value)
      BY <2>3 DEF CompileStep
    <3>2. QED
      BY <3>1 DEF Preds, Matching
  <2>4. QED
    BY <2>1, <2>2, <2>3
<1>2. \A t \in Trees, g \in H, h \in H :
         (\A u \in Trees : Height[u] < Height[t] => g[u] = h[u]) => CompileStep(t, g) = CompileStep(t, h)
  <2> SUFFICES ASSUME NEW t \in Trees, NEW g \in H, NEW h \in H,
                      \A u \in Trees : Height[u] < Height[t] => g[u] = h[u]
               PROVE  CompileStep(t, g) = CompileStep(t, h)
    OBVIOUS
  <2> HIDE DEF H
  <2>1. CASE t.op \in Lists
    <3>1. \A k \in DOMAIN t.args : g[t.args[k]] = h[t.args[k]]
      BY <2>1, PartsAre
    <3>2. {g[t.args[k]] : k \in DOMAIN t.args} = {h[t.args[k]] : k \in DOMAIN t.args}
      BY <3>1
    <3>3. QED
      BY <3>2 DEF CompileStep
  <2>2. CASE t.op \notin Lists
    BY <2>2 DEF CompileStep
  <2>3. QED
    BY <2>1, <2>2
<1>3. \A t \in Trees, h \in H : step[<<t, h>>] = CompileStep(t, h)
  <2> HIDE DEF H
  <2>1. QED
    OBVIOUS
<1>4. Descends(Trees, V, W, Height, step)
  <2> HIDE DEF H
  <2>1. step \in [Trees \X H -> V]
    <3>1. \A a \in Trees \X H : a[1] \in Trees /\ a[2] \in H
      OBVIOUS
    <3>2. QED
      BY <1>1, <3>1
  <2> HIDE DEF step
  <2>2. \A t \in Trees, h \in H : step[<<t, h>>] \in W[t]
    BY <1>1, <1>3
  <2>3. \A t \in Trees, g \in H, h \in H :
           (\A u \in Trees : Height[u] < Height[t] => g[u] = h[u]) => step[<<t, g>>] = step[<<t, h>>]
    BY <1>2, <1>3
  <2> HIDE DEF V, W
  <2>4. QED
    BY <2>1, <2>2, <2>3 DEF Descends, H
<1>5. H # {}
  <2>1. [t \in Trees |-> Rejected] \in H
    BY DEF Choices, Preds
  <2>2. QED
    BY <2>1
<1>6. MaxHeight \in Nat /\ Height \in [Trees -> 0..MaxHeight]
  BY TreesAssumption
<1>7. PICK h \in H : \A t \in Trees : h[t] = step[<<t, h>>]
  <2> HIDE DEF V, W, step
  <2>1. QED
    BY <1>4, <1>5, <1>6, Recursion
<1>8. h = [t \in Trees |-> CompileStep(t, h)]
  <2> HIDE DEF step
  <2>1. h = [t \in Trees |-> h[t]]
    BY DEF Choices
  <2>2. QED
    BY <1>3, <1>7, <2>1
<1>9. Compile = CHOOSE f : f = [t \in Trees |-> CompileStep(t, f)]
  BY DEF Compile, CompileStep
<1>10. Compile = [t \in Trees |-> CompileStep(t, Compile)]
  BY <1>8, <1>9
<1>11. QED
  BY <1>10
-----------------------------------------------------------------------------
(* What a client writes for a tree.                                          *)
Words ==
    {Mark(kind) : kind \in {"(", ")"} \cup Lists}
        \cup UNION {{Triple(t)[1], Triple(t)[2], Triple(t)[3]} : t \in Writable}

FlatStep(t, h) ==
    IF t.op \notin Lists THEN Triple(t)
    ELSE <<Mark("(")>> \o h[t.args[1]] \o <<Mark(t.op)>> \o h[t.args[2]] \o <<Mark(")")>>

LEMMA HalvesAre ==
    ASSUME NEW t \in Writable, t.op \in Lists, NEW k \in 1..2
    PROVE  /\ t.args[k] \in Writable /\ Height[t.args[k]] < Height[t]
           /\ t \in Trees /\ DOMAIN t.args = 1..2
<1>1. t \in Trees /\ Len(t.args) = 2 /\ \A j \in 1..2 : t.args[j] \in Writable
  BY OperatorsAre, TreesAssumption
<1>2. t.args \in Seq(Trees)
  BY <1>1, OperatorsAre, TreesAssumption
<1>3. DOMAIN t.args = 1..2
  BY <1>1, <1>2
<1>4. QED
  BY <1>1, <1>3, PartsAre

LEMMA SeqOfParts ==
    ASSUME NEW S, NEW a \in Seq(S), NEW b \in Seq(S), NEW c \in Seq(S),
           NEW d \in Seq(S), NEW e \in Seq(S)
    PROVE  a \o b \o c \o d \o e \in Seq(S)
OBVIOUS

LEMMA SeqOfElements ==
    ASSUME NEW S, NEW a \in S, NEW b \in S, NEW c \in S
    PROVE  <<a>> \in Seq(S) /\ <<a, b, c>> \in Seq(S)
OBVIOUS

LEMMA FlatStepIn ==
    ASSUME NEW t \in Writable, NEW h,
           t.op \in Lists => h[t.args[1]] \in Seq(Words) /\ h[t.args[2]] \in Seq(Words)
    PROVE  FlatStep(t, h) \in Seq(Words)
<1>1. CASE t.op \notin Lists
  <2> DEFINE a == [kind |-> "ident", field |-> t.field, value |-> Nil]
             b == [kind |-> "op", value |-> t.op]
             c == [kind |-> "string", value |-> t.value]
  <2>1. Triple(t) = <<a, b, c>>
    BY DEF Triple
  <2>2. Triple(t)[1] \in Words /\ Triple(t)[2] \in Words /\ Triple(t)[3] \in Words
    BY DEF Words
  <2> HIDE DEF a, b, c
  <2>3. a \in Words /\ b \in Words /\ c \in Words
    BY <2>1, <2>2
  <2>4. QED
    BY <1>1, <2>1, <2>3, SeqOfElements DEF FlatStep
<1>2. CASE t.op \in Lists
  <2>1. Mark("(") \in Words /\ Mark(")") \in Words /\ Mark(t.op) \in Words
    BY <1>2 DEF Words
  <2> DEFINE a == <<Mark("(")>>
             c == <<Mark(t.op)>>
             e == <<Mark(")")>>
  <2>2. a \in Seq(Words) /\ c \in Seq(Words) /\ e \in Seq(Words)
    BY <2>1, SeqOfElements
  <2>3. FlatStep(t, h) = a \o h[t.args[1]] \o c \o h[t.args[2]] \o e
    BY <1>2 DEF FlatStep
  <2> HIDE DEF a, c, e
  <2>4. QED
    BY <1>2, <2>2, <2>3, SeqOfParts
<1>3. QED
  BY <1>1, <1>2

LEMMA FlatIs ==
    \A t \in Writable : Flat[t] = FlatStep(t, Flat)
<1> DEFINE V == Seq(Words)
           W == [t \in Writable |-> V]
           H == Choices(Writable, V, W)
           rank == [t \in Writable |-> Height[t]]
           step == [a \in Writable \X H |-> FlatStep(a[1], a[2])]
<1>1. \A t \in Writable, h \in H : FlatStep(t, h) \in V
  <2> SUFFICES ASSUME NEW t \in Writable, NEW h \in H
               PROVE  FlatStep(t, h) \in V
    OBVIOUS
  <2>1. t.op \in Lists => h[t.args[1]] \in V /\ h[t.args[2]] \in V
    BY HalvesAre DEF Choices
  <2>2. QED
    BY <2>1, FlatStepIn
<1>2. \A t \in Writable, g \in H, h \in H :
         (\A u \in Writable : rank[u] < rank[t] => g[u] = h[u]) => FlatStep(t, g) = FlatStep(t, h)
  <2> SUFFICES ASSUME NEW t \in Writable, NEW g \in H, NEW h \in H,
                      \A u \in Writable : rank[u] < rank[t] => g[u] = h[u]
               PROVE  FlatStep(t, g) = FlatStep(t, h)
    OBVIOUS
  <2> HIDE DEF H
  <2>1. CASE t.op \in Lists
    <3>1. \A k \in 1..2 : g[t.args[k]] = h[t.args[k]]
      BY <2>1, HalvesAre
    <3>2. g[t.args[1]] = h[t.args[1]] /\ g[t.args[2]] = h[t.args[2]]
      BY <3>1
    <3>3. QED
      BY <3>2 DEF FlatStep
  <2>2. CASE t.op \notin Lists
    BY <2>2 DEF FlatStep
  <2>3. QED
    BY <2>1, <2>2
<1>3. \A t \in Writable, h \in H : step[<<t, h>>] = FlatStep(t, h)
  <2> HIDE DEF H
  <2>1. QED
    OBVIOUS
<1>4. Descends(Writable, V, W, rank, step)
  <2> HIDE DEF H
  <2>1. step \in [Writable \X H -> V]
    <3>1. \A a \in Writable \X H : a[1] \in Writable /\ a[2] \in H
      OBVIOUS
    <3>2. QED
      BY <1>1, <3>1
  <2> HIDE DEF step
  <2>2. \A t \in Writable, h \in H : step[<<t, h>>] \in W[t]
    BY <1>1, <1>3
  <2> HIDE DEF rank
  <2>3. \A t \in Writable, g \in H, h \in H :
           (\A u \in Writable : rank[u] < rank[t] => g[u] = h[u]) => step[<<t, g>>] = step[<<t, h>>]
    BY <1>2, <1>3
  <2> HIDE DEF V, W
  <2>4. QED
    BY <2>1, <2>2, <2>3 DEF Descends, H
<1>5. H # {}
  <2>1. << >> \in Seq(Words)
    OBVIOUS
  <2>2. \A e \in Seq(Words) : [t \in Writable |-> e] \in H
    BY DEF Choices
  <2>3. QED
    BY <2>1, <2>2
<1>6. MaxHeight \in Nat /\ rank \in [Writable -> 0..MaxHeight]
  BY TreesAssumption
<1>7. PICK h \in H : \A t \in Writable : h[t] = step[<<t, h>>]
  <2> HIDE DEF V, W, step, rank
  <2>1. QED
    BY <1>4, <1>5, <1>6, Recursion
<1>8. h = [t \in Writable |-> FlatStep(t, h)]
  <2> HIDE DEF step
  <2>1. h = [t \in Writable |-> h[t]]
    BY DEF Choices
  <2>2. QED
    BY <1>3, <1>7, <2>1
<1>9. Flat = CHOOSE f : f = [t \in Writable |-> FlatStep(t, f)]
  BY DEF Flat, FlatStep
<1>10. Flat = [t \in Writable |-> FlatStep(t, Flat)]
  BY <1>8, <1>9
<1>11. QED
  BY <1>10

LEMMA FlatInWords ==
    \A t \in Writable : Flat[t] \in Seq(Words)
<1> DEFINE bad == {t \in Writable : Flat[t] \notin Seq(Words)}
           heights == {Height[t] : t \in bad}
<1> SUFFICES ASSUME bad # {} PROVE FALSE
  OBVIOUS
<1>1. heights \subseteq Nat /\ heights # {}
  BY TreesAssumption
<1>2. PICK n \in heights : \A m \in heights : n <= m
  <2> HIDE DEF heights
  <2>1. QED
    BY <1>1, Least
<1>3. PICK t \in bad : Height[t] = n
  OBVIOUS
<1>4. \A u \in Writable : Height[u] < n => Flat[u] \in Seq(Words)
  <2>1. \A u \in bad : Height[u] \in heights /\ n <= Height[u]
    BY <1>2
  <2>2. \A m \in heights : m \in Int
    BY <1>1
  <2> HIDE DEF heights
  <2>3. \A u \in bad : ~(Height[u] < n)
    BY <2>1, <2>2
  <2>4. QED
    BY <2>3
<1>5. t.op \in Lists => Flat[t.args[1]] \in Seq(Words) /\ Flat[t.args[2]] \in Seq(Words)
  BY <1>3, <1>4, HalvesAre
<1>6. Flat[t] \in Seq(Words)
  BY <1>5, FlatIs, FlatStepIn
<1>7. QED
  BY <1>6
-----------------------------------------------------------------------------
(* What is written stands at a position of the tokens.                       *)
Stands(p, s) ==
    /\ p \in Starts /\ p + Len(s) <= Len(words) + 1
    /\ \A k \in 1..Len(s) : words[p + k - 1] = s[k]

TermAt(p) == ParseTerm(p, Parse[p + 1].or)

Joined(a, b, c, d, e) == <<a>> \o b \o <<c>> \o d \o <<e>>

CutInto(s, a, b, c, d, e) ==
    /\ Len(b) \in Nat /\ Len(d) \in Nat /\ Len(s) = Len(b) + Len(d) + 3
    /\ s[1] = a /\ s[Len(b) + 2] = c /\ s[Len(b) + Len(d) + 3] = e
    /\ \A k \in 1..Len(b) : s[k + 1] = b[k]
    /\ \A k \in 1..Len(d) : s[k + Len(b) + 2] = d[k]

LEMMA CutUp ==
    ASSUME NEW S, NEW a \in S, NEW b \in Seq(S), NEW c \in S, NEW d \in Seq(S), NEW e \in S
    PROVE  CutInto(Joined(a, b, c, d, e), a, b, c, d, e)
BY DEF Joined, CutInto

(* A term that nothing follows is an expression, and so are two terms with a *)
(* word between them.                                                        *)
(* What the parser makes of the tokens from p on.                            *)
LEMMA ParsesTo ==
    ASSUME Len(words) \in Nat, NEW p \in Starts
    PROVE  /\ Parse[p].and = ParseOperands("and", TermAt(p), Parse[TermAt(p).pos + 1].and)
           /\ Parse[p].or = ParseOperands("or", Parse[p].and, Parse[Parse[p].and.pos + 1].or)
<1> DEFINE and == ParseOperands("and", TermAt(p), Parse[TermAt(p).pos + 1].and)
           or == ParseOperands("or", and, Parse[and.pos + 1].or)
<1>1. ParseStep(p, Parse) = [and |-> and, or |-> or]
  BY DEF ParseStep, TermAt
<1> HIDE DEF or
<1>2. Parse[p] = [and |-> and, or |-> or]
  BY <1>1, ParseIs
<1> HIDE DEF and
<1>3. Parse[p].and = and /\ Parse[p].or = or
  BY <1>2
<1>4. or = ParseOperands("or", and, Parse[and.pos + 1].or)
  BY DEF or
<1>5. QED
  BY <1>3, <1>4 DEF and

LEMMA OneTerm ==
    ASSUME Len(words) \in Nat, NEW p \in Starts, NEW m, NEW q,
           TermAt(p) = Parsed(m, q), KindAt(q) # "and"
    PROVE  /\ Parse[p].and = Parsed(m, q)
           /\ KindAt(q) # "or" => Parse[p].or = Parsed(m, q)
<1>1. /\ Parse[p].and = ParseOperands("and", TermAt(p), Parse[TermAt(p).pos + 1].and)
      /\ Parse[p].or = ParseOperands("or", Parse[p].and, Parse[Parse[p].and.pos + 1].or)
  BY ParsesTo
<1>2. Parsed(m, q).pos = q
  BY DEF Parsed
<1>3. Parse[p].and = Parsed(m, q)
  BY <1>1, <1>2 DEF ParseOperands
<1>4. QED
  BY <1>1, <1>2, <1>3 DEF ParseOperands

(* From p on there are a term, "and" or "or", and another term.              *)
TermsAt(p, m, q, l, u) ==
    /\ p \in Starts /\ q \in Starts /\ q + 1 \in Starts
    /\ m \in SUBSET Resources /\ l \in SUBSET Resources
    /\ TermAt(p) = Parsed(m, q) /\ KindAt(q) \in Lists
    /\ TermAt(q + 1) = Parsed(l, u) /\ KindAt(u) \notin Lists

LEMMA TwoTerms ==
    ASSUME Len(words) \in Nat, NEW p, NEW m, NEW q, NEW l, NEW u, TermsAt(p, m, q, l, u)
    PROVE  /\ KindAt(q) = "and" => Parse[p].or = Parsed(m \cap l, u)
           /\ KindAt(q) = "or" => Parse[p].or = Parsed(m \cup l, u)
<1> USE DEF TermsAt
<1>1. Parse[p].and = ParseOperands("and", TermAt(p), Parse[TermAt(p).pos + 1].and)
  BY ParsesTo
<1>2. Parse[p].or = ParseOperands("or", Parse[p].and, Parse[Parse[p].and.pos + 1].or)
  BY ParsesTo
<1>3. \A x, y : Parsed(x, y).pred = x /\ Parsed(x, y).pos = y
  BY DEF Parsed
<1>4. m # Rejected /\ l # Rejected /\ m \cap l # Rejected
  BY RejectedIsNoPredicate
<1>5. KindAt(u) # "and" /\ KindAt(u) # "or"
  BY DEF Lists
<1>6. Parse[q + 1].and = Parsed(l, u) /\ Parse[q + 1].or = Parsed(l, u)
  BY <1>5, OneTerm
<1>7. CASE KindAt(q) = "and"
  <2>1. Parse[p].and = ParseOperands("and", Parsed(m, q), Parsed(l, u))
    BY <1>1, <1>3, <1>6
  <2>2. Parse[p].and = Parsed(m \cap l, u)
    BY <1>3, <1>4, <1>7, <2>1 DEF ParseOperands
  <2>3. QED
    BY <1>2, <1>3, <1>5, <1>7, <2>2 DEF ParseOperands
<1>8. CASE KindAt(q) = "or"
  <2>1. Parse[p].and = Parsed(m, q)
    BY <1>1, <1>3, <1>8 DEF ParseOperands
  <2>2. Parse[p].or = ParseOperands("or", Parsed(m, q), Parsed(l, u))
    BY <1>2, <1>3, <1>6, <2>1
  <2>3. Parse[p].or = Parsed(m \cup l, u)
    BY <1>3, <1>4, <1>8, <2>2 DEF ParseOperands
  <2>4. QED
    BY <1>8, <2>3
<1>9. QED
  BY <1>7, <1>8

(* What a client writes for a tree is read as one term, with its meaning.    *)
Reads(t) ==
    /\ Compile[t] \in SUBSET Resources
    /\ \A p \in Starts : Stands(p, Flat[t]) =>
          TermAt(p) = Parsed(Compile[t], p + Len(Flat[t]))

LEMMA ComparisonReads ==
    ASSUME Len(words) \in Nat,
           NEW t \in Writable, t.op \notin Lists
    PROVE  Reads(t)
<1> DEFINE a == [kind |-> "ident", field |-> t.field, value |-> Nil]
           b == [kind |-> "op", value |-> t.op]
           c == [kind |-> "string", value |-> t.value]
<1>1. t \in Trees /\ t.op \in Operators
  BY TreesAssumption
<1>2. Compile[t] = Matching(t.op, t.field, t.value)
  <2>1. Compile[t] = CompileStep(t, Compile) /\ t.op # "malformed"
    BY <1>1, CompileIs, OperatorsAre
  <2>2. QED
    BY <2>1 DEF CompileStep
<1>3. Flat[t] = <<a, b, c>>
  BY FlatIs DEF FlatStep, Triple
<1>4. ASSUME NEW p \in Starts, Stands(p, Flat[t])
      PROVE  TermAt(p) = Parsed(Compile[t], p + Len(Flat[t]))
  <2>1. Len(Flat[t]) = 3 /\ Flat[t][1] = a /\ Flat[t][2] = b /\ Flat[t][3] = c
    BY <1>3
  <2> HIDE DEF a, b, c
  <2>2. p \in Nat /\ p + 2 <= Len(words)
    BY <1>4, <2>1 DEF Stands, Starts
  <2>3. words[p] = a /\ words[p + 1] = b /\ words[p + 2] = c
    <3>1. \A k \in 1..3 : words[p + k - 1] = Flat[t][k]
      BY <1>4, <2>1 DEF Stands
    <3>2. p + 1 - 1 = p /\ p + 2 - 1 = p + 1 /\ p + 3 - 1 = p + 2
      BY <2>2
    <3>3. words[p + 1 - 1] = Flat[t][1] /\ words[p + 2 - 1] = Flat[t][2]
          /\ words[p + 3 - 1] = Flat[t][3]
      BY <3>1
    <3>4. QED
      BY <2>1, <3>2, <3>3
  <2>4. KindAt(p) = "ident" /\ KindAt(p + 1) = "op" /\ KindAt(p + 2) = "string"
    BY <2>2, <2>3 DEF KindAt, a, b, c
  <2>5. Scalar(words[p + 2]) = t.value /\ words[p + 1].value = t.op /\ words[p].field = t.field
    BY <2>3 DEF Scalar, a, b, c
  <2>6. ParseComparison(p) = Parsed(Matching(t.op, t.field, t.value), p + 3)
    BY <2>4, <2>5 DEF ParseComparison
  <2>7. QED
    BY <1>2, <2>1, <2>4, <2>6 DEF TermAt, ParseTerm
<1>5. Matching(t.op, t.field, t.value) \in SUBSET Resources
  BY DEF Matching
<1>6. QED
  BY <1>2, <1>4, <1>5 DEF Reads

LEMMA ListReads ==
    ASSUME Len(words) \in Nat,
           NEW t \in Writable, t.op \in Lists, Reads(t.args[1]), Reads(t.args[2])
    PROVE  Reads(t)
<1> DEFINE a == Flat[t.args[1]]
           b == Flat[t.args[2]]
           s == Flat[t]
           m == Compile[t.args[1]]
           l == Compile[t.args[2]]
           both == IF t.op = "and" THEN m \cap l ELSE m \cup l
<1>1. t.args[1] \in Writable /\ t.args[2] \in Writable /\ t \in Trees /\ DOMAIN t.args = 1..2
  BY HalvesAre
<1>2. m \in SUBSET Resources /\ l \in SUBSET Resources
  BY DEF Reads
<1>3. Compile[t] = both
  <2> DEFINE preds == {Compile[t.args[k]] : k \in DOMAIN t.args}
  <2>1. Compile[t] = CompileStep(t, Compile) /\ t.op # "malformed"
    BY <1>1, CompileIs, OperatorsAre
  <2>2. preds = {m, l}
    BY <1>1
  <2>3. Compile[t] = IF Rejected \in preds THEN Rejected
                       ELSE IF t.op = "and" THEN {r \in Resources : \A p \in preds : r \in p}
                       ELSE UNION preds
    BY <2>1 DEF CompileStep
  <2> HIDE DEF m, l, preds
  <2>4. Rejected \notin preds
    BY <1>2, <2>2, RejectedIsNoPredicate
  <2>5. QED
    BY <1>2, <2>2, <2>3, <2>4
<1>4. /\ Len(a) \in Nat /\ Len(b) \in Nat /\ Len(s) = Len(a) + Len(b) + 3
      /\ s[1] = Mark("(") /\ s[Len(a) + 2] = Mark(t.op) /\ s[Len(a) + Len(b) + 3] = Mark(")")
      /\ \A k \in 1..Len(a) : s[k + 1] = a[k]
      /\ \A k \in 1..Len(b) : s[k + Len(a) + 2] = b[k]
  <2>1. a \in Seq(Words) /\ b \in Seq(Words)
    BY <1>1, FlatInWords
  <2>2. Mark("(") \in Words /\ Mark(")") \in Words /\ Mark(t.op) \in Words
    BY DEF Words
  <2>3. s = <<Mark("(")>> \o a \o <<Mark(t.op)>> \o b \o <<Mark(")")>>
    BY FlatIs DEF FlatStep
  <2> DEFINE open == Mark("(")
             word == Mark(t.op)
             close == Mark(")")
  <2>4. open \in Words /\ word \in Words /\ close \in Words
        /\ s = Joined(open, a, word, b, close)
    BY <2>2, <2>3 DEF Joined
  <2> HIDE DEF a, b, s, open, word, close
  <2>5. CutInto(s, open, a, word, b, close)
    BY <2>1, <2>4, CutUp
  <2>6. QED
    BY <2>5 DEF CutInto, open, word, close
<1> DEFINE la == Len(a)
           lb == Len(b)
<1>n. la \in Nat /\ lb \in Nat
  BY <1>4
<1>5. ASSUME NEW p \in Starts, Stands(p, s)
      PROVE  TermAt(p) = Parsed(both, p + Len(s))
  <2> DEFINE q == p + 1 + la
             u == q + 1 + lb
  <2> HIDE DEF a, b, s, m, l, both
  <2>1. p \in Nat /\ p + la + lb + 3 <= Len(words) + 1
    BY <1>4, <1>5 DEF Stands, Starts
  <2>l. Len(s) = la + lb + 3
    BY <1>4
  <2>2. /\ p + 1 \in Starts /\ q \in Starts /\ q + 1 \in Starts /\ u \in Nat
        /\ p <= Len(words) /\ q <= Len(words) /\ u <= Len(words)
    <3> HIDE DEF la, lb
    <3>1. QED
      BY <1>n, <2>1 DEF Starts
  <2>3. \A k \in 1..(la + lb + 3) : words[p + k - 1] = s[k]
    BY <1>5, <2>l DEF Stands
  <2>4. words[p] = Mark("(") /\ words[q] = Mark(t.op) /\ words[u] = Mark(")")
    <3>1. /\ 1 \in 1..(la + lb + 3) /\ la + 2 \in 1..(la + lb + 3)
          /\ la + lb + 3 \in 1..(la + lb + 3)
      BY <1>n
    <3>2. p + 1 - 1 = p /\ p + (la + 2) - 1 = q /\ p + (la + lb + 3) - 1 = u
      <4> HIDE DEF la, lb
      <4>1. QED
        BY <1>n, <2>1
    <3> HIDE DEF q, u
    <3>3. /\ words[p + 1 - 1] = s[1] /\ words[p + (la + 2) - 1] = s[la + 2]
          /\ words[p + (la + lb + 3) - 1] = s[la + lb + 3]
      BY <2>3, <3>1
    <3>4. QED
      BY <1>4, <3>2, <3>3
  <2>5. Stands(p + 1, a)
    <3>1. ASSUME NEW k \in 1..la PROVE words[p + 1 + k - 1] = a[k]
      <4>1. k + 1 \in 1..(la + lb + 3) /\ p + (k + 1) - 1 = p + 1 + k - 1
        <5> HIDE DEF la, lb
        <5>1. QED
          BY <1>n, <2>1
      <4>2. words[p + (k + 1) - 1] = s[k + 1] /\ s[k + 1] = a[k]
        BY <1>4, <2>3, <4>1
      <4>3. QED
        BY <4>1, <4>2
    <3>2. p + 1 + la <= Len(words) + 1
      BY <2>2 DEF Starts
    <3>3. QED
      BY <2>2, <3>1, <3>2 DEF Stands
  <2>6. Stands(q + 1, b)
    <3>1. ASSUME NEW k \in 1..lb PROVE words[q + 1 + k - 1] = b[k]
      <4>1. k + la + 2 \in 1..(la + lb + 3) /\ p + (k + la + 2) - 1 = q + 1 + k - 1
        <5> HIDE DEF la, lb
        <5>1. QED
          BY <1>n, <2>1
      <4>2. words[p + (k + la + 2) - 1] = s[k + la + 2] /\ s[k + la + 2] = b[k]
        BY <1>4, <2>3, <4>1
      <4> HIDE DEF q
      <4>3. QED
        BY <4>1, <4>2
    <3>2. q + 1 + lb <= Len(words) + 1
      BY <2>2
    <3> HIDE DEF q
    <3>3. QED
      BY <2>2, <3>1, <3>2 DEF Stands
  <2>7. TermAt(p + 1) = Parsed(m, q) /\ TermAt(q + 1) = Parsed(l, u)
    <3> HIDE DEF q
    <3>1. TermAt(p + 1) = Parsed(m, p + 1 + la)
      BY <2>2, <2>5 DEF Reads, a, m
    <3>2. TermAt(q + 1) = Parsed(l, q + 1 + lb)
      BY <2>2, <2>6 DEF Reads, b, l
    <3>3. QED
      BY <3>1, <3>2 DEF q
  <2> HIDE DEF q, u
  <2>8. KindAt(p) = "(" /\ KindAt(q) = t.op /\ KindAt(u) = ")"
    <3>1. ~(p > Len(words)) /\ ~(q > Len(words)) /\ ~(u > Len(words))
      BY <2>1, <2>2 DEF Starts
    <3>2. QED
      BY <2>4, <3>1 DEF KindAt, Mark
  <2>9. Parse[p + 1].or = Parsed(both, u)
    <3>1. KindAt(q) \in Lists /\ KindAt(u) \notin Lists
      BY <2>8 DEF Lists
    <3> DEFINE from == p + 1
    <3>2. TermsAt(from, m, q, l, u)
      BY <1>2, <2>2, <2>7, <3>1 DEF TermsAt
    <3> HIDE DEF from
    <3>3. /\ KindAt(q) = "and" => Parse[from].or = Parsed(m \cap l, u)
          /\ KindAt(q) = "or" => Parse[from].or = Parsed(m \cup l, u)
      BY <3>2, TwoTerms
    <3>4. QED
      BY <2>8, <3>3 DEF both, Lists, from
  <2>10. both # Rejected
    BY <1>2, RejectedIsNoPredicate DEF both
  <2>11. TermAt(p) = Parsed(both, u + 1)
    BY <2>8, <2>9, <2>10 DEF TermAt, ParseTerm, Parsed
  <2>12. u + 1 = p + Len(s)
    BY <1>n, <2>1, <2>l DEF u, q
  <2>13. QED
    BY <2>11, <2>12
<1>6. both \in SUBSET Resources
  BY <1>2
<1> HIDE DEF both
<1>7. QED
  BY <1>3, <1>5, <1>6 DEF Reads

LEMMA AllRead ==
    ASSUME Len(words) \in Nat
    PROVE  \A t \in Writable : Reads(t)
<1> DEFINE bad == {t \in Writable : ~Reads(t)}
           heights == {Height[t] : t \in bad}
<1> SUFFICES ASSUME bad # {} PROVE FALSE
  OBVIOUS
<1>1. heights \subseteq Nat /\ heights # {}
  BY TreesAssumption
<1>2. PICK n \in heights : \A m \in heights : n <= m
  <2> HIDE DEF heights
  <2>1. QED
    BY <1>1, Least
<1>3. PICK t \in bad : Height[t] = n
  OBVIOUS
<1>4. \A u \in Writable : Height[u] < n => Reads(u)
  <2>1. \A u \in bad : Height[u] \in heights /\ n <= Height[u]
    BY <1>2
  <2>2. \A m \in heights : m \in Int
    BY <1>1
  <2> HIDE DEF heights
  <2>3. \A u \in bad : ~(Height[u] < n)
    BY <2>1, <2>2
  <2>4. QED
    BY <2>3
<1>5. t.op \in Lists
  BY ComparisonReads
<1>6. Reads(t.args[1]) /\ Reads(t.args[2])
  BY <1>3, <1>4, <1>5, HalvesAre
<1>7. QED
  BY <1>5, <1>6, ListReads

LEMMA FlatMeans ==
    ASSUME NEW t \in Writable, words = Flat[t]
    PROVE  ParseFlatFilter = Compile[t]
<1>1. words \in Seq(Words)
  BY FlatInWords
<1>2. Len(words) \in Nat
  BY <1>1
<1>3. 1 \in Starts /\ Stands(1, Flat[t])
  BY <1>2 DEF Stands, Starts
<1>4. TermAt(1) = Parsed(Compile[t], 1 + Len(words))
  BY <1>2, <1>3, AllRead DEF Reads
<1>5. KindAt(1 + Len(words)) = "end"
  BY <1>2 DEF KindAt
<1>6. Parse[1].or = Parsed(Compile[t], 1 + Len(words))
  BY <1>2, <1>3, <1>4, <1>5, OneTerm
<1>7. QED
  BY <1>6 DEF ParseFlatFilter, Parsed
-----------------------------------------------------------------------------
(* What was written flat for a tree stays what was written, and a search     *)
(* answers with the meaning of the tree.                                     *)
BodyIn == body \in Trees \cup {NoBody}

WrittenIs == words # << >> /\ body # NoBody => body \in Writable /\ words = Flat[body]

Found == answer # Pending /\ body # NoBody => answer = Compile[body]

Kept == BodyIn /\ WrittenIs /\ Found

LEMMA KeptInit ==
    ASSUME FilterInit
    PROVE  Kept
<1>1. Writable \subseteq Trees
  BY TreesAssumption
<1>2. QED
  BY <1>1 DEF FilterInit, Kept, BodyIn, WrittenIs, Found

LEMMA KeptNext ==
    ASSUME Kept, [FilterNext]_(filterVars)
    PROVE  Kept'
<1>1. ASSUME NEW part, Write(part) PROVE Kept'
  BY <1>1 DEF Write, Kept, BodyIn, WrittenIs, Found
<1>2. CASE Search
  <2>1. UNCHANGED <<words, body>> /\ answer' = ParseResourceFilter
    BY <1>2 DEF Search
  <2>2. BodyIn' /\ WrittenIs'
    BY <2>1 DEF Kept, BodyIn, WrittenIs
  <2>3. CASE words # << >> /\ body # NoBody
    <3>1. ParseFlatFilter = Compile[body]
      BY <2>3, FlatMeans DEF Kept, WrittenIs
    <3>2. QED
      BY <2>1, <2>2, <2>3, <3>1 DEF Kept, Found, ParseResourceFilter
  <2>4. CASE ~(words # << >> /\ body # NoBody)
    BY <2>1, <2>2, <2>4 DEF Kept, Found, ParseResourceFilter
  <2>5. QED
    BY <2>3, <2>4
<1>3. CASE UNCHANGED filterVars
  BY <1>3 DEF filterVars, Kept, BodyIn, WrittenIs, Found
<1>4. QED
  BY <1>1, <1>2, <1>3 DEF FilterNext

(* compare, on values of one kind.                                           *)
LEMMA CompareTransitive ==
    ASSUME NEW x \in Values, NEW v \in Values, NEW w \in Values,
           Alike(x, v), Alike(v, w), Compare(v, w) >= 0, Compare(x, v) > 0
    PROVE  Compare(x, w) > 0
<1>1. /\ None \notin Int /\ NaN \notin Int /\ None # NaN
      /\ \A y \in Values : y.number \in Int \cup {None, NaN} /\ y.text \in Int
  BY FiltersAssumption
<1>2. CASE v.number = None
  <2>1. x.number = None /\ w.number = None
    BY <1>2 DEF Alike
  <2>2. /\ Sign(v.text < w.text, v.text > w.text) >= 0
        /\ Sign(x.text < v.text, x.text > v.text) > 0
    BY <1>2, <2>1 DEF Compare
  <2>3. v.text >= w.text /\ x.text > v.text
    BY <1>1, <2>2 DEF Sign
  <2>4. Sign(x.text < w.text, x.text > w.text) > 0
    BY <1>1, <2>3 DEF Sign
  <2>5. QED
    BY <2>1, <2>4 DEF Compare
<1>3. CASE v.number # None
  <2>1. x.number \in Int /\ v.number \in Int /\ w.number \in Int
    BY <1>1, <1>3 DEF Alike
  <2>2. None \notin {x.number, v.number, w.number} /\ NaN \notin {x.number, v.number, w.number}
    BY <1>1, <2>1
  <2>3. /\ Sign(v.number < w.number, v.number > w.number) >= 0
        /\ Sign(x.number < v.number, x.number > v.number) > 0
    BY <2>2 DEF Compare
  <2>4. v.number >= w.number /\ x.number > v.number
    BY <2>1, <2>3 DEF Sign
  <2>5. Sign(x.number < w.number, x.number > w.number) > 0
    BY <2>1, <2>4 DEF Sign
  <2>6. QED
    BY <2>2, <2>5 DEF Compare
<1>4. QED
  BY <1>2, <1>3

(* A filter means the same, written flat or as a tree of JSON objects.       *)
THEOREM AlwaysFlatMeansTree == FilterSpec => []FlatMeansTree
<1>1. FilterInit => Kept
  BY KeptInit
<1>2. Kept /\ [FilterNext]_(filterVars) => Kept'
  BY KeptNext
<1>3. Kept => FlatMeansTree
  BY DEF Kept, Found, FlatMeansTree
<1>4. QED
  BY <1>1, <1>2, <1>3, PTL DEF FilterSpec

(* compare is an order on values of one kind: whoever is greater than a value *)
(* is greater than those that it is not less than, so that no search for what *)
(* is greater leaves such a resource out.                                     *)
THEOREM AlwaysOrderedAlike == FilterSpec => []OrderedAlike
<1>1. FilterInit => Kept
  BY KeptInit
<1>2. Kept /\ [FilterNext]_(filterVars) => Kept'
  BY KeptNext
<1>3. Kept => OrderedAlike
  <2> SUFFICES ASSUME Kept, answer # Pending, words = << >>, body # NoBody, body.op = ">",
                      NEW v \in Values, Alike(v, body.value), Compare(v, body.value) >= 0,
                      NEW r \in Matching(">", body.field, v), Alike(r[body.field], v)
               PROVE  r \in answer
    BY DEF OrderedAlike
  <2>1. body \in Trees
    BY DEF Kept, BodyIn
  <2>2. body.op # "malformed" /\ body.op \notin Lists
    BY DEF Lists
  <2>3. body.field \in Fields /\ body.value \in Values
    BY <2>1, <2>2, TreesAssumption
  <2>4. answer = Compile[body]
    BY DEF Kept, Found
  <2>5. Compile[body] = Matching(">", body.field, body.value)
    BY <2>1, <2>2, CompileIs DEF CompileStep
  <2>6. r \in Resources /\ Compare(r[body.field], v) > 0
    BY DEF Matching
  <2>7. r[body.field] \in Values
    BY <2>3, <2>6 DEF Resources
  <2>8. Compare(r[body.field], body.value) > 0
    BY <2>3, <2>6, <2>7, CompareTransitive
  <2>9. r \in Matching(">", body.field, body.value)
    BY <2>6, <2>8 DEF Matching
  <2>10. QED
    BY <2>4, <2>5, <2>9
<1>4. QED
  BY <1>1, <1>2, <1>3, PTL DEF FilterSpec
-----------------------------------------------------------------------------
(* The tokens of a kind in a part are those in its halves.                   *)
LEMMA OfAdds ==
    ASSUME NEW kind, NEW p \in Nat, NEW l \in Nat, NEW q \in Nat, p <= l, l <= q
    PROVE  /\ Cardinality(Of(kind, p, q)) = Cardinality(Of(kind, p, l)) + Cardinality(Of(kind, l, q))
           /\ Cardinality(Of(kind, p, l)) \in Nat /\ Cardinality(Of(kind, l, q)) \in Nat
<1>1. \A a, b \in Nat : IsFiniteSet(Of(kind, a, b)) /\ Cardinality(Of(kind, a, b)) \in Nat
  <2> SUFFICES ASSUME NEW a \in Nat, NEW b \in Nat
               PROVE  IsFiniteSet(Of(kind, a, b)) /\ Cardinality(Of(kind, a, b)) \in Nat
    OBVIOUS
  <2>1. IsFiniteSet(a..(b - 1))
    BY FS_Interval
  <2>2. Of(kind, a, b) \in SUBSET (a..(b - 1))
    BY DEF Of
  <2>3. IsFiniteSet(Of(kind, a, b))
    BY <2>1, <2>2, FS_Subset
  <2>4. QED
    BY <2>3, FS_CardinalityType
<1>2. Of(kind, p, l) \cup Of(kind, l, q) = Of(kind, p, q)
  BY DEF Of
<1>3. Of(kind, p, l) \cap Of(kind, l, q) = {}
  BY DEF Of
<1>4. Cardinality(Of(kind, p, l) \cup Of(kind, l, q)) =
         Cardinality(Of(kind, p, l)) + Cardinality(Of(kind, l, q))
            - Cardinality(Of(kind, p, l) \cap Of(kind, l, q))
  BY <1>1, FS_Union
<1>5. Cardinality(Of(kind, p, l) \cap Of(kind, l, q)) = 0
  BY <1>3, FS_EmptySet
<1> DEFINE a == Cardinality(Of(kind, p, l))
           b == Cardinality(Of(kind, l, q))
           c == Cardinality(Of(kind, p, q))
           d == Cardinality(Of(kind, p, l) \cap Of(kind, l, q))
<1>6. c = a + b - d /\ d = 0 /\ a \in Nat /\ b \in Nat
  BY <1>1, <1>2, <1>4, <1>5
<1> HIDE DEF a, b, c, d
<1>7. c = a + b
  BY <1>6
<1>8. QED
  BY <1>6, <1>7 DEF a, b, c

LEMMA DepthAdds ==
    ASSUME NEW p \in Nat, NEW l \in Nat, NEW q \in Nat, p <= l, l <= q
    PROVE  /\ Depth(p, q) = Depth(p, l) + Depth(l, q)
           /\ Depth(p, q) \in Int /\ Depth(p, l) \in Int /\ Depth(l, q) \in Int
<1> DEFINE Opened(a, b) == Cardinality(Of("(", a, b))
           Shut(a, b) == Cardinality(Of(")", a, b))
<1>1. /\ Opened(p, q) = Opened(p, l) + Opened(l, q)
      /\ Opened(p, l) \in Nat /\ Opened(l, q) \in Nat
  BY OfAdds
<1>2. /\ Shut(p, q) = Shut(p, l) + Shut(l, q)
      /\ Shut(p, l) \in Nat /\ Shut(l, q) \in Nat
  BY OfAdds
<1>3. /\ Depth(p, q) = Opened(p, q) - Shut(p, q)
      /\ Depth(p, l) = Opened(p, l) - Shut(p, l)
      /\ Depth(l, q) = Opened(l, q) - Shut(l, q)
  BY DEF Depth
<1> HIDE DEF Opened, Shut
<1>4. QED
  BY <1>1, <1>2, <1>3

LEMMA DepthOne ==
    ASSUME NEW p \in Nat
    PROVE  /\ Depth(p, p) = 0
           /\ Depth(p, p + 1) = IF words[p].kind = "(" THEN 1 ELSE IF words[p].kind = ")" THEN -1 ELSE 0
<1>1. \A kind : Of(kind, p, p) = {}
  BY DEF Of
<1>2. \A kind : Of(kind, p, p + 1) = IF words[p].kind = kind THEN {p} ELSE {}
  BY DEF Of
<1>3. Cardinality({}) = 0 /\ Cardinality({p}) = 1
  BY FS_EmptySet, FS_Singleton
<1>4. Depth(p, p) = Cardinality({}) - Cardinality({})
  BY <1>1 DEF Depth
<1>5. \A kind : Cardinality(Of(kind, p, p + 1)) = IF words[p].kind = kind THEN 1 ELSE 0
  BY <1>2, <1>3
<1>6. QED
  BY <1>3, <1>4, <1>5 DEF Depth

(* Nowhere in a part are more parentheses closed than opened.                *)
Balanced(p, q) == Depth(p, q) = 0 /\ \A k \in p..q : Depth(p, k) >= 0

(* Two parts, and an "and" or "or" in the middle: its splits are theirs, and *)
(* it.                                                                       *)
LEMMA SplitsAdd ==
    ASSUME NEW p \in Nat, NEW k \in Nat, NEW q \in Nat, p <= k, k < q,
           words[k].kind \in Lists, Depth(p, k) = 0, NEW kind \in Lists
    PROVE  /\ Splits(kind, p, k) \subseteq Splits(kind, p, q)
           /\ Splits(kind, k + 1, q) \subseteq Splits(kind, p, q)
           /\ \A j \in Splits(kind, p, q) :
                 \/ j \in Splits(kind, p, k)
                 \/ j = k /\ words[k].kind = kind
                 \/ j \in Splits(kind, k + 1, q)
           /\ words[k].kind = kind => k \in Splits(kind, p, q)
           /\ \A j \in (k + 1)..q : Depth(p, j) = Depth(k + 1, j)
<1>1. Depth(k, k + 1) = 0
  BY DepthOne DEF Lists
<1>2. \A j \in (k + 1)..q : Depth(p, j) = Depth(k + 1, j)
  <2> SUFFICES ASSUME NEW j \in (k + 1)..q PROVE Depth(p, j) = Depth(k + 1, j)
    OBVIOUS
  <2> DEFINE k1 == k + 1
  <2>1. k1 \in Nat /\ k <= k1 /\ k1 <= j /\ j \in Nat /\ k <= j
    OBVIOUS
  <2>2. Depth(k, k1) = 0
    BY <1>1
  <2> HIDE DEF k1
  <2>3. Depth(p, j) = Depth(p, k) + Depth(k, j) /\ Depth(k, j) \in Int
    BY <2>1, DepthAdds
  <2>4. Depth(k, j) = Depth(k, k1) + Depth(k1, j) /\ Depth(k1, j) \in Int
    BY <2>1, DepthAdds
  <2>5. Depth(p, j) = Depth(k1, j)
    BY <2>2, <2>3, <2>4
  <2>6. QED
    BY <2>5 DEF k1
<1>3. \A j : j \in Of(kind, p, q) <=>
         \/ j \in Of(kind, p, k)
         \/ j = k /\ words[k].kind = kind
         \/ j \in Of(kind, k + 1, q)
  BY DEF Of
<1>4. \A j \in Of(kind, k + 1, q) : j \in (k + 1)..q
  BY DEF Of
<1>5. QED
  BY <1>2, <1>3, <1>4 DEF Splits

LEMMA BalancedAdd ==
    ASSUME NEW p \in Nat, NEW k \in Nat, NEW q \in Nat, p <= k, k < q,
           words[k].kind \in Lists, Balanced(p, k), Balanced(k + 1, q)
    PROVE  Balanced(p, q)
<1>1. \A j \in (k + 1)..q : Depth(p, j) = Depth(k + 1, j)
  <2>1. "or" \in Lists
    BY DEF Lists
  <2>2. QED
    BY <2>1, SplitsAdd DEF Balanced
<1>2. ASSUME NEW j \in p..q PROVE Depth(p, j) >= 0
  <2>1. j \in p..k \/ j \in (k + 1)..q
    OBVIOUS
  <2>2. QED
    BY <1>1, <2>1 DEF Balanced
<1>3. Depth(p, q) = 0
  BY <1>1 DEF Balanced
<1>4. QED
  BY <1>2, <1>3 DEF Balanced
-----------------------------------------------------------------------------
(* The recursion of the grammar, over shorter and shorter parts.             *)
MeaningStep(s, h) ==
    LET p == s[1]
        q == s[2]
        SplitAt(kind, k) == Connect(kind, h[<<p, k>>], h[<<k + 1, q>>])
    IN IF Splits("or", p, q) # {} THEN SplitAt("or", First(Splits("or", p, q)))
       ELSE IF Splits("and", p, q) # {} THEN SplitAt("and", First(Splits("and", p, q)))
       ELSE IF IsComparison(p, q)
       THEN Matching(words[p + 1].value, words[p].field, Scalar(words[p + 2]))
       ELSE IF q > p + 2 /\ words[p].kind = "(" /\ words[q - 1].kind = ")"
       THEN h[<<p + 1, q - 1>>]
       ELSE Rejected

Shorter(p, q) == {s \in Parts : s[2] - s[1] < q - p}

LEMMA PartBounds ==
    ASSUME Len(words) \in Nat, NEW s \in Parts
    PROVE  /\ s[1] \in Starts /\ s[2] \in Starts /\ s[1] <= s[2] /\ s = <<s[1], s[2]>>
           /\ s[2] - s[1] \in 0..Len(words)
<1>1. s \in Bounds \X Bounds /\ s[1] <= s[2]
  BY DEF Parts
<1>2. s[1] \in Bounds /\ s[2] \in Bounds /\ s = <<s[1], s[2]>>
  BY <1>1
<1>3. QED
  BY <1>1, <1>2 DEF Bounds, Starts

LEMMA PartIs ==
    ASSUME NEW p \in Starts, NEW q \in Starts, p <= q
    PROVE  <<p, q>> \in Parts
<1>1. <<p, q>> \in Bounds \X Bounds
  BY DEF Bounds, Starts
<1>2. QED
  BY <1>1 DEF Parts

LEMMA FirstSplit ==
    ASSUME Len(words) \in Nat, NEW p \in Starts, NEW q \in Starts, p <= q,
           NEW kind, Splits(kind, p, q) # {}
    PROVE  LET k == First(Splits(kind, p, q))
           IN /\ k \in Splits(kind, p, q) /\ \A j \in Splits(kind, p, q) : k <= j
              /\ k \in p..(q - 1) /\ k \in Starts /\ k + 1 \in Starts /\ k + 1 <= q
              /\ <<p, k>> \in Shorter(p, q) /\ <<k + 1, q>> \in Shorter(p, q)
<1> DEFINE ks == Splits(kind, p, q)
<1>1. \A j \in ks : j \in p..(q - 1) /\ j \in Nat
  BY DEF Splits, Of, Starts
<1>2. \E k \in ks : \A j \in ks : k <= j
  <2>1. ks \subseteq Nat
    BY <1>1
  <2> HIDE DEF ks
  <2>2. ks # {}
    BY DEF ks
  <2>3. QED
    BY <2>1, <2>2, Least
<1>3. First(ks) \in ks /\ \A j \in ks : First(ks) <= j
  <2> HIDE DEF ks
  <2>1. QED
    BY <1>2 DEF First
<1> DEFINE k == First(ks)
<1>4. k \in p..(q - 1)
  BY <1>1, <1>3
<1> HIDE DEF k
<1>5. k \in Starts /\ k + 1 \in Starts /\ p <= k /\ k + 1 <= q
  BY <1>4 DEF Starts
<1>6. <<p, k>> \in Parts /\ <<k + 1, q>> \in Parts
  <2> DEFINE k1 == k + 1
  <2>1. k1 \in Starts /\ k1 <= q
    BY <1>5
  <2> HIDE DEF k1
  <2>2. <<k1, q>> \in Parts
    BY <2>1, PartIs
  <2>3. QED
    BY <1>5, <2>2, PartIs DEF k1
<1>7. k - p < q - p /\ q - (k + 1) < q - p
  BY <1>4 DEF Starts
<1>8. <<p, k>> \in Shorter(p, q) /\ <<k + 1, q>> \in Shorter(p, q)
  BY <1>6, <1>7 DEF Shorter
<1>9. QED
  BY <1>3, <1>4, <1>5, <1>8 DEF k

LEMMA Inside ==
    ASSUME Len(words) \in Nat, NEW p \in Starts, NEW q \in Starts, q > p + 2
    PROVE  /\ p + 1 \in Starts /\ q - 1 \in Starts /\ p + 1 <= q - 1
           /\ <<p + 1, q - 1>> \in Shorter(p, q)
<1> DEFINE p1 == p + 1
           q1 == q - 1
<1>1. p1 \in Starts /\ q1 \in Starts /\ p1 <= q1 /\ q1 - p1 < q - p
  BY DEF Starts
<1> HIDE DEF p1, q1
<1>2. <<p1, q1>> \in Shorter(p, q)
  BY <1>1, PartIs DEF Shorter
<1>3. QED
  BY <1>1, <1>2 DEF p1, q1

LEMMA ConnectIn ==
    ASSUME NEW kind, NEW l \in Preds, NEW r \in Preds
    PROVE  Connect(kind, l, r) \in Preds
BY DEF Connect, Preds

LEMMA MeaningStepIn ==
    ASSUME Len(words) \in Nat, NEW s \in Parts, NEW h, \A x \in Shorter(s[1], s[2]) : h[x] \in Preds
    PROVE  MeaningStep(s, h) \in Preds
<1> DEFINE p == s[1]
           q == s[2]
           SplitAt(kind, k) == Connect(kind, h[<<p, k>>], h[<<k + 1, q>>])
<1>1. p \in Starts /\ q \in Starts /\ p <= q
  BY PartBounds
<1>2. \A x \in Shorter(p, q) : h[x] \in Preds
  OBVIOUS
<1> HIDE DEF p, q
<1>3. \A kind : Splits(kind, p, q) # {} => SplitAt(kind, First(Splits(kind, p, q))) \in Preds
  BY <1>1, <1>2, FirstSplit, ConnectIn
<1>4. Matching(words[p + 1].value, words[p].field, Scalar(words[p + 2])) \in Preds
  BY DEF Matching, Preds
<1>5. q > p + 2 => h[<<p + 1, q - 1>>] \in Preds
  BY <1>1, <1>2, Inside
<1>6. Rejected \in Preds
  BY DEF Preds
<1>7. MeaningStep(s, h) =
         IF Splits("or", p, q) # {} THEN SplitAt("or", First(Splits("or", p, q)))
         ELSE IF Splits("and", p, q) # {} THEN SplitAt("and", First(Splits("and", p, q)))
         ELSE IF IsComparison(p, q)
         THEN Matching(words[p + 1].value, words[p].field, Scalar(words[p + 2]))
         ELSE IF q > p + 2 /\ words[p].kind = "(" /\ words[q - 1].kind = ")"
         THEN h[<<p + 1, q - 1>>]
         ELSE Rejected
  BY DEF MeaningStep, p, q
<1> HIDE DEF SplitAt
<1>8. QED
  BY <1>3, <1>4, <1>5, <1>6, <1>7

LEMMA MeaningLooksInside ==
    ASSUME Len(words) \in Nat, NEW s \in Parts, NEW g, NEW h,
           \A x \in Parts : x[2] - x[1] < s[2] - s[1] => g[x] = h[x]
    PROVE  MeaningStep(s, g) = MeaningStep(s, h)
<1> DEFINE p == s[1]
           q == s[2]
           SplitAt(f, kind, k) == Connect(kind, f[<<p, k>>], f[<<k + 1, q>>])
<1>1. p \in Starts /\ q \in Starts /\ p <= q
  BY PartBounds
<1>2. \A x \in Shorter(p, q) : g[x] = h[x]
  BY DEF Shorter
<1>3. \A f : MeaningStep(s, f) =
         IF Splits("or", p, q) # {} THEN SplitAt(f, "or", First(Splits("or", p, q)))
         ELSE IF Splits("and", p, q) # {} THEN SplitAt(f, "and", First(Splits("and", p, q)))
         ELSE IF IsComparison(p, q)
         THEN Matching(words[p + 1].value, words[p].field, Scalar(words[p + 2]))
         ELSE IF q > p + 2 /\ words[p].kind = "(" /\ words[q - 1].kind = ")"
         THEN f[<<p + 1, q - 1>>]
         ELSE Rejected
  BY DEF MeaningStep
<1> HIDE DEF p, q
<1>4. \A kind : Splits(kind, p, q) # {} =>
         SplitAt(g, kind, First(Splits(kind, p, q))) = SplitAt(h, kind, First(Splits(kind, p, q)))
  <2> SUFFICES ASSUME NEW kind, Splits(kind, p, q) # {}
               PROVE  SplitAt(g, kind, First(Splits(kind, p, q))) =
                         SplitAt(h, kind, First(Splits(kind, p, q)))
    OBVIOUS
  <2> DEFINE k == First(Splits(kind, p, q))
  <2>1. <<p, k>> \in Shorter(p, q) /\ <<k + 1, q>> \in Shorter(p, q)
    BY <1>1, FirstSplit
  <2> HIDE DEF k
  <2>2. g[<<p, k>>] = h[<<p, k>>] /\ g[<<k + 1, q>>] = h[<<k + 1, q>>]
    BY <1>2, <2>1
  <2>3. SplitAt(g, kind, k) = SplitAt(h, kind, k)
    BY <2>2
  <2>4. QED
    BY <2>3 DEF k
<1>5. q > p + 2 => g[<<p + 1, q - 1>>] = h[<<p + 1, q - 1>>]
  BY <1>1, <1>2, Inside
<1> HIDE DEF SplitAt
<1>6. QED
  BY <1>3, <1>4, <1>5

(* What holds of a part whenever it holds of the shorter ones, holds of all. *)
LEMMA ByLength ==
    ASSUME Len(words) \in Nat, NEW T,
           \A s \in Parts : Shorter(s[1], s[2]) \subseteq T => s \in T
    PROVE  Parts \subseteq T
<1> DEFINE bad == {n \in Nat : \E s \in Parts : s \notin T /\ n = s[2] - s[1]}
<1>1. bad = {}
  <2> SUFFICES ASSUME bad # {} PROVE FALSE
    OBVIOUS
  <2>1. PICK n \in bad : \A m \in bad : n <= m
    BY Least
  <2>2. PICK s \in Parts : s \notin T /\ n = s[2] - s[1]
    BY <2>1
  <2>3. PICK x \in Shorter(s[1], s[2]) : x \notin T
    BY <2>2
  <2>4. x \in Parts /\ x[2] - x[1] < n /\ x[2] - x[1] \in Nat
    BY <2>2, <2>3, PartBounds DEF Shorter
  <2>5. x[2] - x[1] \in bad
    BY <2>3, <2>4
  <2>6. QED
    BY <2>1, <2>4, <2>5
<1>2. \A s \in Parts : s[2] - s[1] \in Nat
  BY PartBounds
<1>3. QED
  BY <1>1, <1>2

(* The recursion of the grammar defines a function.                          *)
LEMMA MeaningIs ==
    ASSUME Len(words) \in Nat
    PROVE  \A s \in Parts : Meaning[s] = MeaningStep(s, Meaning) /\ Meaning[s] \in Preds
<1> DEFINE W == [s \in Parts |-> Preds]
           H == Choices(Parts, Preds, W)
           rank == [s \in Parts |-> s[2] - s[1]]
           step == [a \in Parts \X H |-> MeaningStep(a[1], a[2])]
<1>1. H = [Parts -> Preds]
  BY DEF Choices
<1> HIDE DEF H
<1>2. \A s \in Parts, h \in H : MeaningStep(s, h) \in Preds
  <2>1. \A h \in H, s \in Parts : \A x \in Shorter(s[1], s[2]) : h[x] \in Preds
    BY <1>1 DEF Shorter
  <2>2. QED
    BY <2>1, MeaningStepIn
<1>3. \A s \in Parts, h \in H : step[<<s, h>>] = MeaningStep(s, h)
  OBVIOUS
<1>4. rank \in [Parts -> 0..Len(words)]
  BY PartBounds
<1>5. Descends(Parts, Preds, W, rank, step)
  <2>1. step \in [Parts \X H -> Preds]
    <3>1. \A a \in Parts \X H : a[1] \in Parts /\ a[2] \in H
      OBVIOUS
    <3>2. \A a \in Parts \X H : MeaningStep(a[1], a[2]) \in Preds
      BY <1>2, <3>1
    <3>3. QED
      BY <3>2
  <2>2. \A s \in Parts, g \in H, h \in H :
           (\A x \in Parts : rank[x] < rank[s] => g[x] = h[x]) => step[<<s, g>>] = step[<<s, h>>]
    <3> HIDE DEF step
    <3> SUFFICES ASSUME NEW s \in Parts, NEW g \in H, NEW h \in H,
                        \A x \in Parts : rank[x] < rank[s] => g[x] = h[x]
                 PROVE  MeaningStep(s, g) = MeaningStep(s, h)
      BY <1>3
    <3>1. \A x \in Parts : x[2] - x[1] < s[2] - s[1] => g[x] = h[x]
      OBVIOUS
    <3>2. QED
      BY <3>1, MeaningLooksInside
  <2>3. \A s \in Parts, h \in H : step[<<s, h>>] \in W[s]
    <3> HIDE DEF step
    <3>1. QED
      BY <1>2, <1>3
  <2> HIDE DEF step, W, rank
  <2>4. QED
    BY <2>1, <2>2, <2>3 DEF Descends, H
<1>6. Choices(Parts, Preds, W) # {}
  <2>1. [s \in Parts |-> Rejected] \in H
    BY <1>1 DEF Preds
  <2>2. QED
    BY <2>1 DEF H
<1>7. PICK h \in H : \A s \in Parts : h[s] = step[<<s, h>>]
  <2> HIDE DEF W, rank, step
  <2>1. QED
    BY <1>4, <1>5, <1>6, Recursion DEF H
<1>8. h = [s \in Parts |-> MeaningStep(s, h)]
  <2> HIDE DEF step
  <2>1. h = [s \in Parts |-> h[s]]
    BY <1>1
  <2>2. QED
    BY <1>3, <1>7, <2>1
<1>9. Meaning = CHOOSE f : f = [s \in Parts |-> MeaningStep(s, f)]
  BY DEF Meaning, MeaningStep
<1>10. Meaning = [s \in Parts |-> MeaningStep(s, Meaning)]
  BY <1>8, <1>9
<1>11. DOMAIN Meaning = Parts /\ \A s \in Parts : Meaning[s] = MeaningStep(s, Meaning)
  BY <1>10
<1> DEFINE T == {s \in Parts : Meaning[s] \in Preds}
<1>12. ASSUME NEW s \in Parts, Shorter(s[1], s[2]) \subseteq T PROVE s \in T
  <2>1. \A x \in Shorter(s[1], s[2]) : Meaning[x] \in Preds
    BY <1>12
  <2>2. MeaningStep(s, Meaning) \in Preds
    BY <2>1, MeaningStepIn
  <2>3. QED
    BY <1>11, <2>2
<1>13. Parts \subseteq T
  <2> HIDE DEF T
  <2>1. QED
    BY <1>12, ByLength
<1>14. QED
  BY <1>11, <1>13
-----------------------------------------------------------------------------
(* The meaning of a part, by how it is made up.                              *)
MeansAt(p, q) == Meaning[<<p, q>>]
IsInParens(p, q) == q > p + 2 /\ words[p].kind = "(" /\ words[q - 1].kind = ")"

LEMMA MeaningCases ==
    ASSUME Len(words) \in Nat, NEW p \in Starts, NEW q \in Starts, p <= q
    PROVE  /\ MeansAt(p, q) \in Preds
           /\ MeansAt(p, q) =
                IF Splits("or", p, q) # {}
                THEN LET k == First(Splits("or", p, q))
                     IN Connect("or", MeansAt(p, k), MeansAt(k + 1, q))
                ELSE IF Splits("and", p, q) # {}
                THEN LET k == First(Splits("and", p, q))
                     IN Connect("and", MeansAt(p, k), MeansAt(k + 1, q))
                ELSE IF IsComparison(p, q)
                THEN Matching(words[p + 1].value, words[p].field, Scalar(words[p + 2]))
                ELSE IF IsInParens(p, q) THEN MeansAt(p + 1, q - 1)
                ELSE Rejected
<1>1. Meaning[<<p, q>>] = MeaningStep(<<p, q>>, Meaning) /\ Meaning[<<p, q>>] \in Preds
  BY PartIs, MeaningIs
<1>2. QED
  BY <1>1 DEF MeaningStep, MeansAt, IsInParens

(* Operands that are connected twice may be connected from either side.      *)
LEMMA ConnectsTwice ==
    ASSUME NEW kind \in Lists, NEW l \in Preds, NEW m \in Preds, NEW k, NEW q, NEW rest,
           l # Rejected, m # Rejected, KindAt(k) = kind,
           KindAt(q) = kind => rest.pred \in Preds
    PROVE  /\ Connect(kind, l, m) # Rejected
           /\ ParseOperands(kind, Parsed(l, k), ParseOperands(kind, Parsed(m, q), rest))
                 = ParseOperands(kind, Parsed(Connect(kind, l, m), q), rest)
<1> DEFINE Both(x, y) == IF kind = "and" THEN x \cap y ELSE x \cup y
           inner == ParseOperands(kind, Parsed(m, q), rest)
           one == Connect(kind, l, m)
<1>1. l \in SUBSET Resources /\ m \in SUBSET Resources
  BY DEF Preds
<1>2. one = Both(l, m)
  BY DEF Connect
<1>3. \A x, y \in SUBSET Resources : Both(x, y) # Rejected /\ Both(x, y) \in SUBSET Resources
  BY RejectedIsNoPredicate
<1>4. one # Rejected
  BY <1>1, <1>2, <1>3
<1>5. \A x, y, z : Both(x, Both(y, z)) = Both(Both(x, y), z)
  OBVIOUS
<1>6. \A x, j, r : ParseOperands(kind, Parsed(x, j), r) =
         IF x = Rejected \/ KindAt(j) # kind THEN Parsed(x, j)
         ELSE IF r.pred = Rejected THEN Fail ELSE Parsed(Both(x, r.pred), r.pos)
  BY DEF ParseOperands, Parsed
<1>7. \A x, j : Parsed(x, j).pred = x /\ Parsed(x, j).pos = j
  BY DEF Parsed
<1>8. Fail.pred = Rejected
  BY DEF Fail, Parsed
<1> HIDE DEF Both, inner, one
<1>9. CASE KindAt(q) # kind
  <2>1. inner = Parsed(m, q)
    BY <1>6, <1>9 DEF inner
  <2>2. ParseOperands(kind, Parsed(l, k), inner) = Parsed(Both(l, m), q)
    BY <1>6, <1>7, <2>1
  <2>3. ParseOperands(kind, Parsed(one, q), rest) = Parsed(one, q)
    BY <1>6, <1>9
  <2>4. QED
    BY <1>2, <1>4, <2>2, <2>3 DEF inner, one
<1>10. CASE KindAt(q) = kind /\ rest.pred = Rejected
  <2>1. inner = Fail
    BY <1>6, <1>10 DEF inner
  <2>2. ParseOperands(kind, Parsed(l, k), inner) = Fail
    BY <1>6, <1>8, <2>1
  <2>3. ParseOperands(kind, Parsed(one, q), rest) = Fail
    BY <1>4, <1>6, <1>10
  <2>4. QED
    BY <1>4, <2>2, <2>3 DEF inner, one
<1>11. CASE KindAt(q) = kind /\ rest.pred # Rejected
  <2>1. rest.pred \in SUBSET Resources
    BY <1>11 DEF Preds
  <2>2. inner = Parsed(Both(m, rest.pred), rest.pos)
    BY <1>6, <1>11 DEF inner
  <2>3. Both(m, rest.pred) # Rejected
    BY <1>1, <1>3, <2>1
  <2>4. ParseOperands(kind, Parsed(l, k), inner) = Parsed(Both(l, Both(m, rest.pred)), rest.pos)
    BY <1>6, <1>7, <2>2, <2>3
  <2>5. ParseOperands(kind, Parsed(one, q), rest) = Parsed(Both(one, rest.pred), rest.pos)
    BY <1>4, <1>6, <1>11
  <2>6. QED
    BY <1>2, <1>4, <1>5, <2>4, <2>5 DEF inner, one
<1>12. QED
  BY <1>9, <1>10, <1>11

(* What holds of a position whenever it holds of the later ones, holds of    *)
(* all.                                                                      *)
LEMMA Backward ==
    ASSUME Len(words) \in Nat, NEW T,
           \A p \in Starts : (\A q \in Starts : p < q => q \in T) => p \in T
    PROVE  Starts \subseteq T
<1> DEFINE bad == {n \in Nat : \E p \in Starts : p \notin T /\ n = Len(words) + 1 - p}
<1>1. bad = {}
  <2> SUFFICES ASSUME bad # {} PROVE FALSE
    OBVIOUS
  <2>1. PICK n \in bad : \A m \in bad : n <= m
    BY Least
  <2>2. PICK p \in Starts : p \notin T /\ n = Len(words) + 1 - p
    BY <2>1
  <2>3. PICK q \in Starts : p < q /\ q \notin T
    BY <2>2
  <2>4. Len(words) + 1 - q \in Nat /\ Len(words) + 1 - q < n
    BY <2>2, <2>3 DEF Starts
  <2>5. Len(words) + 1 - q \in bad
    BY <2>3, <2>4
  <2> HIDE DEF bad
  <2>6. n \in Nat /\ n <= Len(words) + 1 - q
    BY <2>1, <2>5 DEF bad
  <2>7. QED
    BY <2>4, <2>6
<1>2. \A p \in Starts : Len(words) + 1 - p \in Nat
  BY DEF Starts
<1>3. QED
  BY <1>1, <1>2

(* All of it is a result.                                                    *)
IsParsed(p) ==
    TermAt(p) \in Results(p) /\ Parse[p].and \in Results(p) /\ Parse[p].or \in Results(p)

LEMMA ParsesIn ==
    ASSUME Len(words) \in Nat
    PROVE  \A p \in Starts : IsParsed(p)
<1> DEFINE T == {p \in Starts : IsParsed(p)}
<1>1. ASSUME NEW p \in Starts, \A q \in Starts : p < q => q \in T
      PROVE  p \in T
  <2>1. \A q \in Starts : p < q => Parse[q].and \in Results(q) /\ Parse[q].or \in Results(q)
    BY <1>1 DEF IsParsed
  <2>2. \A e \in Results(p) :
           e.pred # Rejected /\ e.pos <= Len(words) => e.pos + 1 \in Starts /\ p < e.pos + 1
    BY DEF Results, Ends, Starts, Fail, Parsed
  <2>3. TermAt(p) \in Results(p)
    <3>1. p <= Len(words) => p + 1 \in Starts /\ p < p + 1
      BY DEF Starts
    <3>2. p <= Len(words) => Parse[p + 1].or \in Results(p + 1)
      BY <2>1, <3>1
    <3>3. QED
      BY <3>2, TermIn DEF TermAt
  <2>4. Parse[p].and \in Results(p)
    <3> DEFINE left == TermAt(p)
    <3>1. left.pred # Rejected /\ left.pos <= Len(words) => Parse[left.pos + 1].and \in Results(left.pos + 1)
      BY <2>1, <2>2, <2>3
    <3>2. "and" \in Lists
      BY DEF Lists
    <3>3. Parse[p].and = ParseOperands("and", left, Parse[left.pos + 1].and)
      BY ParsesTo
    <3> HIDE DEF left
    <3>4. left \in Results(p)
      BY <2>3 DEF left
    <3>5. QED
      BY <3>1, <3>2, <3>3, <3>4, OperandsIn
  <2>5. Parse[p].or \in Results(p)
    <3> DEFINE left == Parse[p].and
    <3>1. left.pred # Rejected /\ left.pos <= Len(words) => Parse[left.pos + 1].or \in Results(left.pos + 1)
      BY <2>1, <2>2, <2>4
    <3>2. "or" \in Lists
      BY DEF Lists
    <3>3. Parse[p].or = ParseOperands("or", left, Parse[left.pos + 1].or)
      BY ParsesTo
    <3>4. left \in Results(p)
      BY <2>4
    <3> HIDE DEF left
    <3>5. QED
      BY <3>1, <3>2, <3>3, <3>4, OperandsIn
  <2>6. QED
    BY <2>3, <2>4, <2>5 DEF IsParsed
<1>2. Starts \subseteq T
  <2> HIDE DEF T
  <2>1. QED
    BY <1>1, Backward
<1>3. QED
  BY <1>2
-----------------------------------------------------------------------------
(* A part with a meaning is read from its first token to its last, and the   *)
(* parser goes on behind it.                                                 *)
ReadOn(p, q) ==
    MeansAt(p, q) # Rejected =>
        /\ Splits("or", p, q) = {} =>
              Parse[p].and = ParseOperands("and", Parsed(MeansAt(p, q), q), Parse[q + 1].and)
        /\ KindAt(q) # "and" =>
              Parse[p].or = ParseOperands("or", Parsed(MeansAt(p, q), q), Parse[q + 1].or)

AllShorterReadOn(p, q) == \A s \in Shorter(p, q) : ReadOn(s[1], s[2])

(* Operands of "and" or "or": the first is read, then the second.            *)
LEMMA AndReadsOn ==
    ASSUME Len(words) \in Nat, NEW p \in Starts, NEW k \in Starts, NEW q \in Starts,
           k + 1 \in Starts, KindAt(k) = "and",
           MeansAt(p, k) \in Preds \ {Rejected}, MeansAt(k + 1, q) \in Preds \ {Rejected},
           ReadOn(p, k), Splits("or", p, k) = {},
           ReadOn(k + 1, q), Splits("or", k + 1, q) = {}
    PROVE  Parse[p].and =
              ParseOperands("and", Parsed(Connect("and", MeansAt(p, k), MeansAt(k + 1, q)), q), Parse[q + 1].and)
<1> DEFINE l == MeansAt(p, k)
           k1 == k + 1
           m == MeansAt(k1, q)
           rest == Parse[q + 1].and
<1>1. Parse[p].and = ParseOperands("and", Parsed(l, k), Parse[k1].and)
  BY DEF ReadOn
<1>2. Parse[k1].and = ParseOperands("and", Parsed(m, q), rest)
  BY DEF ReadOn
<1>3. KindAt(q) = "and" => rest.pred \in Preds
  <2>1. KindAt(q) = "and" => q + 1 \in Starts
    BY DEF KindAt, Starts
  <2>2. QED
    BY <2>1, ParsesIn DEF IsParsed, Results
<1>4. l \in Preds /\ m \in Preds /\ l # Rejected /\ m # Rejected
  OBVIOUS
<1> HIDE DEF l, m, k1, rest
<1>5. "and" \in Lists
  BY DEF Lists
<1>6. ParseOperands("and", Parsed(l, k), ParseOperands("and", Parsed(m, q), rest))
         = ParseOperands("and", Parsed(Connect("and", l, m), q), rest)
  BY <1>3, <1>4, <1>5, ConnectsTwice
<1>7. Parse[p].and = ParseOperands("and", Parsed(Connect("and", l, m), q), rest)
  BY <1>1, <1>2, <1>6
<1>8. QED
  BY <1>7 DEF l, m, k1, rest

LEMMA OrReadsOn ==
    ASSUME Len(words) \in Nat, NEW p \in Starts, NEW k \in Starts, NEW q \in Starts,
           k + 1 \in Starts, KindAt(k) = "or", KindAt(q) # "and",
           MeansAt(p, k) \in Preds \ {Rejected}, MeansAt(k + 1, q) \in Preds \ {Rejected},
           ReadOn(p, k), ReadOn(k + 1, q)
    PROVE  Parse[p].or =
              ParseOperands("or", Parsed(Connect("or", MeansAt(p, k), MeansAt(k + 1, q)), q), Parse[q + 1].or)
<1> DEFINE l == MeansAt(p, k)
           k1 == k + 1
           m == MeansAt(k1, q)
           rest == Parse[q + 1].or
<1>1. Parse[p].or = ParseOperands("or", Parsed(l, k), Parse[k1].or)
  BY DEF ReadOn
<1>2. Parse[k1].or = ParseOperands("or", Parsed(m, q), rest)
  BY DEF ReadOn
<1>3. KindAt(q) = "or" => rest.pred \in Preds
  <2>1. KindAt(q) = "or" => q + 1 \in Starts
    BY DEF KindAt, Starts
  <2>2. QED
    BY <2>1, ParsesIn DEF IsParsed, Results
<1>4. l \in Preds /\ m \in Preds /\ l # Rejected /\ m # Rejected
  OBVIOUS
<1> HIDE DEF l, m, k1, rest
<1>5. "or" \in Lists
  BY DEF Lists
<1>6. ParseOperands("or", Parsed(l, k), ParseOperands("or", Parsed(m, q), rest))
         = ParseOperands("or", Parsed(Connect("or", l, m), q), rest)
  BY <1>3, <1>4, <1>5, ConnectsTwice
<1>7. Parse[p].or = ParseOperands("or", Parsed(Connect("or", l, m), q), rest)
  BY <1>1, <1>2, <1>6
<1>8. QED
  BY <1>7 DEF l, m, k1, rest

(* A term with no "and" behind it is all that parseAnd reads.                *)
LEMMA TermReadsOn ==
    ASSUME Len(words) \in Nat, NEW p \in Starts, NEW q \in Starts, NEW m,
           TermAt(p) = Parsed(m, q)
    PROVE  Parse[p].and = ParseOperands("and", Parsed(m, q), Parse[q + 1].and)
<1>1. Parse[p].and = ParseOperands("and", TermAt(p), Parse[TermAt(p).pos + 1].and)
  BY ParsesTo
<1>2. Parsed(m, q).pos = q
  BY DEF Parsed
<1>3. QED
  BY <1>1, <1>2

LEMMA AndIsOr ==
    ASSUME Len(words) \in Nat, NEW p \in Starts, NEW q \in Starts, NEW m, KindAt(q) # "and",
           Parse[p].and = ParseOperands("and", Parsed(m, q), Parse[q + 1].and)
    PROVE  Parse[p].or = ParseOperands("or", Parsed(m, q), Parse[q + 1].or)
<1>1. Parsed(m, q).pos = q
  BY DEF Parsed
<1>2. Parse[p].and = Parsed(m, q)
  BY <1>1 DEF ParseOperands
<1>3. Parse[p].or = ParseOperands("or", Parse[p].and, Parse[Parse[p].and.pos + 1].or)
  BY ParsesTo
<1>4. QED
  BY <1>1, <1>2, <1>3

(* Every part with a meaning is read, whatever follows it.                   *)
LEMMA PartReadsOn ==
    ASSUME Len(words) \in Nat, NEW p \in Starts, NEW q \in Starts, p <= q,
           AllShorterReadOn(p, q), MeansAt(p, q) # Rejected
    PROVE  ReadOn(p, q)
<1> DEFINE m == MeansAt(p, q)
<1>1. \A a, b : <<a, b>> \in Shorter(p, q) => ReadOn(a, b) /\ MeansAt(a, b) \in Preds
  <2>1. \A s \in Parts : MeansAt(s[1], s[2]) \in Preds
    BY PartBounds, MeaningCases
  <2>2. \A a, b : <<a, b>>[1] = a /\ <<a, b>>[2] = b
    OBVIOUS
  <2>3. \A s \in Shorter(p, q) : ReadOn(s[1], s[2]) /\ MeansAt(s[1], s[2]) \in Preds
    BY <2>1 DEF AllShorterReadOn, Shorter
  <2>4. QED
    BY <2>2, <2>3
<1>2. \A l, r, kind : Connect(kind, l, r) # Rejected => l # Rejected /\ r # Rejected
  BY DEF Connect
<1>3. CASE Splits("or", p, q) # {}
  <2> DEFINE k == First(Splits("or", p, q))
             k1 == k + 1
  <2>1. /\ k \in Splits("or", p, q) /\ k \in Starts /\ k1 \in Starts /\ k \in p..(q - 1)
        /\ <<p, k>> \in Shorter(p, q) /\ <<k1, q>> \in Shorter(p, q)
    BY <1>3, FirstSplit
  <2>2. m = Connect("or", MeansAt(p, k), MeansAt(k1, q))
    BY <1>3, MeaningCases
  <2> HIDE DEF k
  <2>3. KindAt(k) = "or"
    <3>1. k <= Len(words) /\ words[k].kind = "or" /\ k \in Nat
      BY <2>1 DEF Splits, Of, Starts
    <3>2. QED
      BY <3>1 DEF KindAt
  <2>4. /\ MeansAt(p, k) \in Preds \ {Rejected} /\ ReadOn(p, k)
        /\ MeansAt(k1, q) \in Preds \ {Rejected} /\ ReadOn(k1, q)
    <3> HIDE DEF k1
    <3>1. QED
      BY <1>1, <1>2, <2>1, <2>2
  <2>5. KindAt(q) # "and" => Parse[p].or = ParseOperands("or", Parsed(m, q), Parse[q + 1].or)
    <3>1. SUFFICES ASSUME KindAt(q) # "and"
                   PROVE  Parse[p].or = ParseOperands("or", Parsed(m, q), Parse[q + 1].or)
      OBVIOUS
    <3> HIDE DEF m
    <3>2. QED
      BY <2>1, <2>2, <2>3, <2>4, <3>1, OrReadsOn
  <2>6. QED
    BY <1>3, <2>5 DEF ReadOn
<1>4. CASE Splits("or", p, q) = {} /\ Splits("and", p, q) # {}
  <2> DEFINE k == First(Splits("and", p, q))
             k1 == k + 1
  <2>1. /\ k \in Splits("and", p, q) /\ k \in Starts /\ k1 \in Starts /\ k \in p..(q - 1)
        /\ <<p, k>> \in Shorter(p, q) /\ <<k1, q>> \in Shorter(p, q)
    BY <1>4, FirstSplit
  <2>2. m = Connect("and", MeansAt(p, k), MeansAt(k1, q))
    BY <1>4, MeaningCases
  <2> HIDE DEF k
  <2>3. k <= Len(words) /\ words[k].kind = "and" /\ Depth(p, k) = 0 /\ k \in Nat /\ p <= k /\ k < q
    BY <2>1 DEF Splits, Of, Starts
  <2>4. KindAt(k) = "and"
    BY <2>3 DEF KindAt
  <2>5. /\ MeansAt(p, k) \in Preds \ {Rejected} /\ ReadOn(p, k)
        /\ MeansAt(k1, q) \in Preds \ {Rejected} /\ ReadOn(k1, q)
    <3> HIDE DEF k1
    <3>1. QED
      BY <1>1, <1>2, <2>1, <2>2
  <2>6. Splits("or", p, k) = {} /\ Splits("or", k1, q) = {}
    <3>1. words[k].kind \in Lists /\ "or" \in Lists /\ p \in Nat /\ q \in Nat
      BY <2>3 DEF Lists, Starts
    <3>2. Splits("or", p, k) \subseteq Splits("or", p, q) /\ Splits("or", k1, q) \subseteq Splits("or", p, q)
      BY <2>3, <3>1, SplitsAdd
    <3>3. QED
      BY <1>4, <3>2
  <2>7. Parse[p].and = ParseOperands("and", Parsed(m, q), Parse[q + 1].and)
    <3> HIDE DEF m
    <3>1. QED
      BY <2>1, <2>2, <2>4, <2>5, <2>6, AndReadsOn
  <2>8. QED
    BY <2>7, AndIsOr DEF ReadOn
<1>5. CASE Splits("or", p, q) = {} /\ Splits("and", p, q) = {}
  <2>1. TermAt(p) = Parsed(m, q)
    <3>1. CASE IsComparison(p, q)
      <4>1. m = Matching(words[p + 1].value, words[p].field, Scalar(words[p + 2]))
        BY <1>5, <3>1, MeaningCases
      <4>2. q = p + 3 /\ p <= Len(words) /\ p + 1 <= Len(words) /\ p + 2 <= Len(words)
        BY <3>1 DEF IsComparison, Starts
      <4>3. /\ KindAt(p) = "ident" /\ KindAt(p + 1) = "op"
            /\ KindAt(p + 2) \in {"ident", "string"}
        BY <3>1, <4>2 DEF IsComparison, KindAt, Starts
      <4> HIDE DEF m
      <4>4. ParseComparison(p) = Parsed(m, q)
        BY <4>1, <4>2, <4>3 DEF ParseComparison
      <4>5. QED
        BY <4>3, <4>4 DEF TermAt, ParseTerm
    <3>2. CASE ~IsComparison(p, q)
      <4>1. IsInParens(p, q) /\ m = MeansAt(p + 1, q - 1)
        BY <1>5, <3>2, MeaningCases
      <4> DEFINE p1 == p + 1
                 q1 == q - 1
      <4>2. p1 \in Starts /\ q1 \in Starts /\ <<p1, q1>> \in Shorter(p, q)
        BY <4>1, Inside DEF IsInParens
      <4>3. ReadOn(p1, q1)
        BY <1>1, <4>2
      <4>4. KindAt(p) = "(" /\ KindAt(q1) = ")"
        <5>1. p <= Len(words) /\ q1 <= Len(words) /\ p \in Nat /\ q1 \in Nat
          BY <4>1 DEF IsInParens, Starts
        <5>2. words[p].kind = "(" /\ words[q1].kind = ")"
          BY <4>1 DEF IsInParens
        <5> HIDE DEF q1
        <5>3. QED
          BY <5>1, <5>2 DEF KindAt
      <4>5. Parse[p1].or = Parsed(m, q1)
        <5>1. Parse[p1].or = ParseOperands("or", Parsed(m, q1), Parse[q1 + 1].or)
          BY <4>1, <4>3, <4>4 DEF ReadOn
        <5>2. Parsed(m, q1).pos = q1
          BY DEF Parsed
        <5> HIDE DEF m, q1, p1
        <5>3. QED
          BY <4>4, <5>1, <5>2 DEF ParseOperands
      <4>6. q1 + 1 = q
        BY DEF Starts
      <4> HIDE DEF m, q1
      <4>7. Parsed(m, q1).pos = q1 /\ Parsed(m, q1).pred = m
        BY DEF Parsed
      <4>8. m # Rejected
        BY DEF m
      <4>9. ParseTerm(p, Parsed(m, q1)) = Parsed(m, q)
        BY <4>4, <4>6, <4>7, <4>8 DEF ParseTerm
      <4>10. QED
        BY <4>5, <4>9 DEF TermAt
    <3>3. QED
      BY <3>1, <3>2
  <2>2. Parse[p].and = ParseOperands("and", Parsed(m, q), Parse[q + 1].and)
    <3> HIDE DEF m
    <3>1. QED
      BY <2>1, TermReadsOn
  <2>3. QED
    BY <2>2, AndIsOr DEF ReadOn
<1>6. QED
  BY <1>3, <1>4, <1>5

LEMMA AllReadOn ==
    ASSUME Len(words) \in Nat, NEW p \in Starts, NEW q \in Starts, p <= q
    PROVE  ReadOn(p, q)
<1> DEFINE T == {s \in Parts : ReadOn(s[1], s[2])}
<1>1. ASSUME NEW s \in Parts, Shorter(s[1], s[2]) \subseteq T PROVE s \in T
  <2>1. AllShorterReadOn(s[1], s[2])
    BY <1>1 DEF AllShorterReadOn
  <2>2. s[1] \in Starts /\ s[2] \in Starts /\ s[1] <= s[2]
    BY PartBounds
  <2>3. MeansAt(s[1], s[2]) = Rejected => ReadOn(s[1], s[2])
    BY DEF ReadOn
  <2>4. QED
    BY <2>1, <2>2, <2>3, PartReadsOn
<1>2. Parts \subseteq T
  <2> HIDE DEF T
  <2>1. QED
    BY <1>1, ByLength
<1>3. <<p, q>> \in Parts
  BY PartIs
<1>4. QED
  BY <1>2, <1>3
-----------------------------------------------------------------------------
(* What is read has a meaning; there are no parentheses in it that do not    *)
(* match, and none of these kinds outside of them.                           *)
Sound(e, p, kinds) ==
    e.pred # Rejected =>
        /\ MeansAt(p, e.pos) # Rejected
        /\ Balanced(p, e.pos)
        /\ \A kind \in kinds : Splits(kind, p, e.pos) = {}

IsSound(p) ==
    /\ Sound(TermAt(p), p, Lists)
    /\ Sound(Parse[p].and, p, {"or"}) /\ (Parse[p].and.pred # Rejected => KindAt(Parse[p].and.pos) # "and")
    /\ Sound(Parse[p].or, p, {}) /\ (Parse[p].or.pred # Rejected => KindAt(Parse[p].or.pos) \notin Lists)

LEMMA ResultEnds ==
    ASSUME Len(words) \in Nat, NEW p \in Starts, NEW e \in Results(p), e.pred # Rejected
    PROVE  /\ e.pos \in Starts /\ p < e.pos /\ p \in Nat /\ e.pos \in Nat
           /\ \A kind \in Lists : KindAt(e.pos) = kind =>
                 e.pos + 1 \in Starts /\ p < e.pos + 1 /\ words[e.pos].kind = kind
<1>1. e.pos \in Starts /\ p < e.pos /\ p \in Nat /\ e.pos \in Nat
  BY DEF Results, Ends, Starts, Fail, Parsed
<1>2. \A kind \in Lists : KindAt(e.pos) = kind => e.pos <= Len(words) /\ words[e.pos].kind = kind
  BY <1>1 DEF KindAt, Lists
<1>3. QED
  BY <1>1, <1>2 DEF Starts

(* A comparison has no parentheses.                                          *)
LEMMA ComparisonSound ==
    ASSUME Len(words) \in Nat, NEW p \in Starts
    PROVE  Sound(ParseComparison(p), p, Lists)
<1> DEFINE e == ParseComparison(p)
           q == p + 3
<1> SUFFICES ASSUME e.pred # Rejected PROVE Sound(e, p, Lists)
  BY DEF Sound
<1>1. /\ KindAt(p) = "ident" /\ KindAt(p + 1) = "op" /\ KindAt(p + 2) \in {"ident", "string"}
  BY DEF ParseComparison, Fail, Parsed
<1>2. e.pos = q
  BY <1>1 DEF ParseComparison, Parsed
<1>3. /\ p + 2 <= Len(words) /\ q \in Starts /\ p \in Nat
      /\ words[p].kind = "ident" /\ words[p + 1].kind = "op" /\ words[p + 2].kind \in {"ident", "string"}
  BY <1>1 DEF KindAt, Starts
<1>4. \A k \in p..(q - 1) : words[k].kind \in {"ident", "op", "string"}
  <2>1. \A k \in p..(q - 1) : k = p \/ k = p + 1 \/ k = p + 2
    BY <1>3
  <2>2. QED
    BY <1>3, <2>1
<1>5. \A kind, k : k \in p..q /\ kind \in {"(", ")", "and", "or"} => Of(kind, p, k) = {}
  BY <1>3, <1>4 DEF Of
<1>6. \A k \in p..q : Depth(p, k) = 0
  <2>1. \A k \in p..q : Depth(p, k) = Cardinality({}) - Cardinality({})
    BY <1>5 DEF Depth
  <2>2. QED
    BY <2>1, FS_EmptySet
<1>7. Balanced(p, q)
  BY <1>3, <1>6 DEF Balanced
<1>8. \A kind \in Lists : Splits(kind, p, q) = {}
  BY <1>3, <1>5 DEF Splits, Lists
<1>9. MeansAt(p, q) # Rejected
  <2>1. IsComparison(p, q)
    BY <1>3 DEF IsComparison
  <2>2. Splits("or", p, q) = {} /\ Splits("and", p, q) = {} /\ p <= q
    BY <1>3, <1>8 DEF Lists
  <2>3. MeansAt(p, q) = Matching(words[p + 1].value, words[p].field, Scalar(words[p + 2]))
    BY <1>3, <2>1, <2>2, MeaningCases
  <2>4. Matching(words[p + 1].value, words[p].field, Scalar(words[p + 2])) \in SUBSET Resources
    BY DEF Matching
  <2>5. QED
    BY <2>3, <2>4, RejectedIsNoPredicate
<1> HIDE DEF e, q
<1>10. QED
  BY <1>2, <1>7, <1>8, <1>9 DEF Sound

(* What is in parentheses is deeper than they are.                           *)
LEMMA InParensSound ==
    ASSUME Len(words) \in Nat, NEW p \in Starts, NEW e \in Results(p + 1), e.pred # Rejected,
           p + 1 \in Starts, KindAt(p) = "(", KindAt(e.pos) = ")", Sound(e, p + 1, {})
    PROVE  Sound(Parsed(e.pred, e.pos + 1), p, Lists)
<1> DEFINE p1 == p + 1
           q1 == e.pos
           q == q1 + 1
<1>1. p1 \in Nat /\ q1 \in Nat /\ p1 < q1 /\ p \in Nat /\ p <= Len(words) /\ q1 \in Starts
  BY ResultEnds DEF Starts
<1>2. words[p].kind = "("
  BY <1>1 DEF KindAt
<1>3. q1 <= Len(words) /\ words[q1].kind = ")"
  BY <1>1 DEF KindAt
<1>4. MeansAt(p1, q1) # Rejected /\ Balanced(p1, q1)
  BY DEF Sound
<1>5. Depth(p, p) = 0 /\ Depth(p, p1) = 1
  BY <1>1, <1>2, DepthOne
<1>6. Depth(q1, q) = -1
  BY <1>1, <1>3, DepthOne
<1> HIDE DEF q1
<1>7. q \in Nat /\ q1 < q /\ q \in Starts /\ q > p + 2
  BY <1>1, <1>3 DEF Starts
<1> HIDE DEF p1, q
<1>8. p < p1 /\ p1 = p + 1 /\ q = q1 + 1
  BY <1>1 DEF p1, q
<1>9. \A k \in p1..q1 : Depth(p, k) \in Nat /\ Depth(p, k) >= 1
  <2> SUFFICES ASSUME NEW k \in p1..q1 PROVE Depth(p, k) \in Nat /\ Depth(p, k) >= 1
    OBVIOUS
  <2>1. k \in Nat /\ p1 <= k /\ p1 \in Nat /\ p \in Nat /\ p <= p1
    BY <1>1, <1>8
  <2>2. Depth(p, k) = Depth(p, p1) + Depth(p1, k) /\ Depth(p1, k) \in Int
    BY <2>1, DepthAdds
  <2>3. Depth(p1, k) >= 0
    BY <1>4 DEF Balanced
  <2>4. QED
    BY <1>5, <2>2, <2>3
<1>10. Depth(p, q) = 0
  <2>1. Depth(p, q1) = Depth(p, p1) + Depth(p1, q1)
    BY <1>1, <1>8, DepthAdds
  <2>2. Depth(p, q) = Depth(p, q1) + Depth(q1, q)
    BY <1>1, <1>7, <1>8, DepthAdds
  <2>3. Depth(p1, q1) = 0
    BY <1>4 DEF Balanced
  <2>4. QED
    BY <1>5, <1>6, <2>1, <2>2, <2>3
<1>11. Balanced(p, q)
  <2>1. \A k \in p..q : k = p \/ k \in p1..q1 \/ k = q
    BY <1>1, <1>7, <1>8
  <2>2. \A k \in p1..q1 : Depth(p, k) >= 0
    BY <1>9
  <2>3. QED
    BY <1>5, <1>10, <2>1, <2>2 DEF Balanced
<1>12. \A kind \in Lists : Splits(kind, p, q) = {}
  <2> SUFFICES ASSUME NEW kind \in Lists, NEW k \in Splits(kind, p, q) PROVE FALSE
    OBVIOUS
  <2>1. k \in p..(q - 1) /\ words[k].kind \in Lists /\ Depth(p, k) = 0
    BY DEF Splits, Of
  <2>2. k = p \/ k \in p1..q1
    BY <1>1, <1>7, <1>8, <2>1
  <2>3. k # p
    BY <1>2, <2>1 DEF Lists
  <2>4. QED
    BY <1>9, <2>1, <2>2, <2>3
<1>13. MeansAt(p, q) # Rejected
  <2>1. Splits("or", p, q) = {} /\ Splits("and", p, q) = {}
    BY <1>12 DEF Lists
  <2>2. ~IsComparison(p, q)
    BY <1>2 DEF IsComparison
  <2>3. q - 1 = q1
    BY <1>1, <1>8
  <2>4. IsInParens(p, q)
    BY <1>2, <1>3, <1>7, <2>3 DEF IsInParens
  <2>5. p <= q
    BY <1>1, <1>7
  <2>6. MeansAt(p, q) = MeansAt(p + 1, q - 1)
    BY <1>7, <2>1, <2>2, <2>4, <2>5, MeaningCases
  <2>7. QED
    BY <1>4, <1>8, <2>3, <2>6
<1>14. Parsed(e.pred, q).pos = q
  BY DEF Parsed
<1>15. Sound(Parsed(e.pred, q), p, Lists)
  BY <1>11, <1>12, <1>13, <1>14 DEF Sound
<1>16. QED
  BY <1>15 DEF q, q1

LEMMA TermSound ==
    ASSUME Len(words) \in Nat, NEW p \in Starts,
           p + 1 \in Starts => Sound(Parse[p + 1].or, p + 1, {})
    PROVE  Sound(TermAt(p), p, Lists)
<1> DEFINE e == Parse[p + 1].or
<1>1. CASE KindAt(p) # "("
  BY <1>1, ComparisonSound DEF TermAt, ParseTerm
<1>2. CASE KindAt(p) = "(" /\ (e.pred = Rejected \/ KindAt(e.pos) # ")")
  <2>1. TermAt(p) = Fail
    BY <1>2 DEF TermAt, ParseTerm
  <2>2. QED
    BY <2>1 DEF Sound, Fail, Parsed
<1>3. CASE KindAt(p) = "(" /\ e.pred # Rejected /\ KindAt(e.pos) = ")"
  <2>1. p + 1 \in Starts
    BY <1>3 DEF KindAt, Starts
  <2>2. e \in Results(p + 1)
    BY <2>1, ParsesIn DEF IsParsed
  <2>3. TermAt(p) = Parsed(e.pred, e.pos + 1)
    BY <1>3 DEF TermAt, ParseTerm
  <2>4. Sound(e, p + 1, {})
    BY <2>1
  <2> HIDE DEF e
  <2>5. QED
    BY <1>3, <2>1, <2>2, <2>3, <2>4, InParensSound
<1>4. QED
  BY <1>1, <1>2, <1>3
-----------------------------------------------------------------------------
(* Two parts around an "and" or "or" that is the first outside parentheses.  *)
Chained(kind, p, k, q, kinds) ==
    /\ p \in Nat /\ k \in Nat /\ q \in Nat /\ p <= k /\ k < q
    /\ p \in Starts /\ k \in Starts /\ q \in Starts
    /\ kind \in Lists /\ words[k].kind = kind
    /\ Balanced(p, k) /\ Balanced(k + 1, q)
    /\ MeansAt(p, k) # Rejected /\ MeansAt(k + 1, q) # Rejected
    /\ Splits(kind, p, k) = {}
    /\ \A other \in kinds : Splits(other, p, k) = {} /\ Splits(other, k + 1, q) = {}
    /\ kinds \subseteq Lists \ {kind}
    /\ kind = "and" => "or" \in kinds

LEMMA ChainMeans ==
    ASSUME Len(words) \in Nat, NEW kind, NEW p, NEW k, NEW q, NEW kinds,
           Chained(kind, p, k, q, kinds)
    PROVE  /\ Balanced(p, q)
           /\ MeansAt(p, q) # Rejected
           /\ \A other \in kinds : Splits(other, p, q) = {}
<1>1. Balanced(p, q)
  BY BalancedAdd DEF Chained
<1>2. \A other \in Lists :
         /\ \A j \in Splits(other, p, q) :
               \/ j \in Splits(other, p, k)
               \/ j = k /\ words[k].kind = other
               \/ j \in Splits(other, k + 1, q)
         /\ words[k].kind = other => k \in Splits(other, p, q)
  BY SplitsAdd DEF Chained, Balanced
<1>3. \A other \in kinds : Splits(other, p, q) = {}
  BY <1>2 DEF Chained
<1>4. k \in Splits(kind, p, q) /\ \A j \in Splits(kind, p, q) : k <= j
  <2>1. \A j \in Splits(kind, k + 1, q) : k <= j
    BY DEF Splits, Of, Chained
  <2>2. QED
    BY <1>2, <2>1 DEF Chained
<1>5. First(Splits(kind, p, q)) = k
  <2> DEFINE f == First(Splits(kind, p, q))
  <2>1. f \in Splits(kind, p, q) /\ \A j \in Splits(kind, p, q) : f <= j
    BY <1>4 DEF First
  <2>2. f \in Nat
    BY <2>1 DEF Splits, Of, Chained
  <2> HIDE DEF f
  <2>3. f <= k /\ k <= f /\ k \in Nat
    BY <1>4, <2>1 DEF Chained
  <2>4. QED
    BY <2>2, <2>3 DEF f
<1>6. MeansAt(p, q) = Connect(kind, MeansAt(p, k), MeansAt(k + 1, q))
  <2>1. p <= q /\ p \in Starts /\ q \in Starts /\ Splits(kind, p, q) # {}
    BY <1>4 DEF Chained
  <2>2. CASE kind = "or"
    BY <1>5, <2>1, <2>2, MeaningCases
  <2>3. CASE kind = "and"
    <3>1. Splits("or", p, q) = {}
      BY <1>3, <2>3 DEF Chained
    <3>2. QED
      BY <1>5, <2>1, <2>3, <3>1, MeaningCases
  <2>4. QED
    BY <2>2, <2>3 DEF Chained, Lists
<1>7. MeansAt(p, k) \in Preds /\ MeansAt(k + 1, q) \in Preds
  <2> DEFINE k1 == k + 1
  <2>1. k1 \in Starts /\ k1 <= q /\ p \in Starts /\ k \in Starts /\ p <= k /\ q \in Starts
    BY DEF Chained, Starts
  <2> HIDE DEF k1
  <2>2. MeansAt(k1, q) \in Preds /\ MeansAt(p, k) \in Preds
    BY <2>1, MeaningCases
  <2>3. QED
    BY <2>2 DEF k1
<1>8. MeansAt(p, q) # Rejected
  <2> DEFINE l == MeansAt(p, k)
             m == MeansAt(k + 1, q)
  <2>1. l \in SUBSET Resources /\ m \in SUBSET Resources
    BY <1>7 DEF Chained, Preds
  <2> HIDE DEF l, m
  <2>2. Connect(kind, l, m) \in SUBSET Resources
    BY <2>1, RejectedIsNoPredicate DEF Connect
  <2>3. QED
    BY <1>6, <2>2, RejectedIsNoPredicate DEF l, m
<1>9. QED
  BY <1>1, <1>3, <1>8

(* So is what the loops of parseAnd and parseOr make of it.                  *)
LEMMA OperandsSound ==
    ASSUME Len(words) \in Nat, NEW p \in Starts, NEW kind \in Lists, NEW kinds,
           kinds \subseteq Lists \ {kind}, kind = "and" => "or" \in kinds,
           NEW left \in Results(p), NEW right,
           Sound(left, p, kinds \cup {kind}),
           left.pred # Rejected /\ KindAt(left.pos) = kind =>
              right \in Results(left.pos + 1) /\ Sound(right, left.pos + 1, kinds)
    PROVE  Sound(ParseOperands(kind, left, right), p, kinds)
<1>1. CASE left.pred = Rejected \/ KindAt(left.pos) # kind
  BY <1>1 DEF ParseOperands, Sound
<1>2. CASE left.pred # Rejected /\ KindAt(left.pos) = kind /\ right.pred = Rejected
  BY <1>2 DEF ParseOperands, Sound, Fail, Parsed
<1>3. CASE left.pred # Rejected /\ KindAt(left.pos) = kind /\ right.pred # Rejected
  <2> DEFINE k == left.pos
             k1 == k + 1
             q == right.pos
  <2>1. /\ k \in Starts /\ p < k /\ p \in Nat /\ k \in Nat
        /\ k1 \in Starts /\ words[k].kind = kind
    BY <1>3, ResultEnds
  <2>2. q \in Starts /\ k1 < q /\ q \in Nat
    <3> HIDE DEF k1
    <3>1. right \in Results(k1)
      BY <1>3 DEF k1
    <3>2. QED
      BY <1>3, <2>1, <3>1, ResultEnds
  <2>3. /\ MeansAt(p, k) # Rejected /\ Balanced(p, k)
        /\ \A other \in kinds \cup {kind} : Splits(other, p, k) = {}
    BY <1>3 DEF Sound
  <2>4. /\ MeansAt(k1, q) # Rejected /\ Balanced(k1, q)
        /\ \A other \in kinds : Splits(other, k1, q) = {}
    BY <1>3 DEF Sound
  <2>5. ParseOperands(kind, left, right).pos = q
    BY <1>3 DEF ParseOperands, Parsed
  <2> HIDE DEF k, q
  <2>6. k < q /\ p <= k
    BY <2>1, <2>2
  <2>7. Chained(kind, p, k, q, kinds)
    BY <2>1, <2>2, <2>3, <2>4, <2>6 DEF Chained
  <2>8. /\ Balanced(p, q) /\ MeansAt(p, q) # Rejected
        /\ \A other \in kinds : Splits(other, p, q) = {}
    BY <2>7, ChainMeans
  <2>9. QED
    BY <2>5, <2>8 DEF Sound
<1>4. QED
  BY <1>1, <1>2, <1>3

(* Where the loops end, there is no operator of theirs.                      *)
LEMMA LoopsEnd ==
    ASSUME NEW kind \in Lists, NEW left, NEW right, NEW kinds,
           left.pred # Rejected => KindAt(left.pos) \notin kinds,
           left.pred # Rejected /\ KindAt(left.pos) = kind /\ right.pred # Rejected =>
              KindAt(right.pos) \notin kinds \cup {kind},
           ParseOperands(kind, left, right).pred # Rejected
    PROVE  KindAt(ParseOperands(kind, left, right).pos) \notin kinds \cup {kind}
<1>1. CASE KindAt(left.pos) # kind
  BY <1>1 DEF ParseOperands
<1>2. CASE KindAt(left.pos) = kind /\ left.pred # Rejected /\ right.pred # Rejected
  BY <1>2 DEF ParseOperands, Parsed
<1>3. CASE KindAt(left.pos) = kind /\ (left.pred = Rejected \/ right.pred = Rejected)
  BY <1>3 DEF ParseOperands, Parsed, Fail
<1>4. QED
  BY <1>1, <1>2, <1>3

LEMMA AllSound ==
    ASSUME Len(words) \in Nat
    PROVE  \A p \in Starts : IsSound(p)
<1> DEFINE T == {p \in Starts : IsSound(p)}
<1>1. ASSUME NEW p \in Starts, \A q \in Starts : p < q => q \in T
      PROVE  p \in T
  <2>1. \A q \in Starts : p < q => IsSound(q) /\ IsParsed(q)
    BY <1>1, ParsesIn
  <2>2. Sound(TermAt(p), p, Lists)
    <3>1. p + 1 \in Starts => Sound(Parse[p + 1].or, p + 1, {})
      BY <2>1 DEF IsSound, Starts
    <3>2. QED
      BY <3>1, TermSound
  <2>3. IsParsed(p)
    BY ParsesIn
  <2>4. \A kind \in Lists, e \in Results(p) : e.pred # Rejected /\ KindAt(e.pos) = kind =>
           e.pos + 1 \in Starts /\ IsSound(e.pos + 1) /\ IsParsed(e.pos + 1)
    <3>1. \A kind \in Lists, e \in Results(p) : e.pred # Rejected /\ KindAt(e.pos) = kind =>
             e.pos + 1 \in Starts /\ p < e.pos + 1
      BY ResultEnds
    <3>2. QED
      BY <2>1, <3>1
  <2>5. Sound(Parse[p].and, p, {"or"}) /\ (Parse[p].and.pred # Rejected => KindAt(Parse[p].and.pos) # "and")
    <3> DEFINE left == TermAt(p)
               right == Parse[left.pos + 1].and
    <3>1. left \in Results(p) /\ Sound(left, p, {"or"} \cup {"and"})
      BY <2>2, <2>3 DEF IsParsed, Lists, Sound
    <3>2. "and" \in Lists /\ {"or"} \subseteq Lists \ {"and"}
      BY DEF Lists
    <3>3. Parse[p].and = ParseOperands("and", left, right)
      BY ParsesTo
    <3>4. left.pred # Rejected /\ KindAt(left.pos) = "and" =>
             /\ right \in Results(left.pos + 1) /\ Sound(right, left.pos + 1, {"or"})
             /\ right.pred # Rejected => KindAt(right.pos) # "and"
      BY <2>4, <3>1, <3>2 DEF IsSound, IsParsed
    <3> HIDE DEF left, right
    <3>5. Sound(ParseOperands("and", left, right), p, {"or"})
      BY <3>1, <3>2, <3>4, OperandsSound
    <3>6. left.pred # Rejected /\ KindAt(left.pos) = "and" /\ right.pred # Rejected =>
             KindAt(right.pos) \notin {} \cup {"and"}
      BY <3>4
    <3>7. ParseOperands("and", left, right).pred # Rejected =>
             KindAt(ParseOperands("and", left, right).pos) \notin {} \cup {"and"}
      <4> DEFINE none == {}
      <4>1. left.pred # Rejected => KindAt(left.pos) \notin none
        OBVIOUS
      <4>2. left.pred # Rejected /\ KindAt(left.pos) = "and" /\ right.pred # Rejected =>
               KindAt(right.pos) \notin none \cup {"and"}
        BY <3>6
      <4> HIDE DEF none
      <4>3. ParseOperands("and", left, right).pred # Rejected =>
               KindAt(ParseOperands("and", left, right).pos) \notin none \cup {"and"}
        BY <3>2, <4>1, <4>2, LoopsEnd
      <4>4. QED
        BY <4>3 DEF none
    <3>8. QED
      BY <3>3, <3>5, <3>7
  <2>6. Sound(Parse[p].or, p, {}) /\ (Parse[p].or.pred # Rejected => KindAt(Parse[p].or.pos) \notin Lists)
    <3> DEFINE left == Parse[p].and
               right == Parse[left.pos + 1].or
    <3>1. left \in Results(p) /\ Sound(left, p, {} \cup {"or"})
      BY <2>3, <2>5 DEF IsParsed
    <3>2. "or" \in Lists /\ {} \subseteq Lists \ {"or"} /\ Lists = {"and"} \cup {"or"}
      BY DEF Lists
    <3>3. Parse[p].or = ParseOperands("or", left, right)
      BY ParsesTo
    <3>4. left.pred # Rejected /\ KindAt(left.pos) = "or" =>
             /\ right \in Results(left.pos + 1) /\ Sound(right, left.pos + 1, {})
             /\ right.pred # Rejected => KindAt(right.pos) \notin Lists
      BY <2>4, <3>1, <3>2 DEF IsSound, IsParsed
    <3>5. left.pred # Rejected => KindAt(left.pos) \notin {"and"}
      BY <2>5
    <3> HIDE DEF left, right
    <3>6. Sound(ParseOperands("or", left, right), p, {})
      BY <3>1, <3>2, <3>4, OperandsSound
    <3>7. ParseOperands("or", left, right).pred # Rejected =>
             KindAt(ParseOperands("or", left, right).pos) \notin {"and"} \cup {"or"}
      BY <3>2, <3>4, <3>5, LoopsEnd
    <3>8. QED
      BY <3>2, <3>3, <3>6, <3>7
  <2>7. QED
    BY <2>2, <2>5, <2>6 DEF IsSound
<1>2. Starts \subseteq T
  <2> HIDE DEF T
  <2>1. QED
    BY <1>1, Backward
<1>3. QED
  BY <1>2
-----------------------------------------------------------------------------
(* The parser and the grammar agree on every sequence of tokens.             *)
LEMMA ParserIsGrammar ==
    ASSUME Len(words) \in Nat
    PROVE  /\ \A n \in 1..Len(words) : Complete(n) => ParseFlatFilter = Beginning(n)
           /\ ParseFlatFilter # Rejected => \E n \in 1..Len(words) : Complete(n)
<1> DEFINE result == Parse[1].or
<1>1. 1 \in Starts
  BY DEF Starts
<1>2. ParseFlatFilter = result.pred
  BY DEF ParseFlatFilter
<1>3. \A n \in 1..Len(words) : Beginning(n) = MeansAt(1, n + 1) /\ n + 1 \in Starts /\ 1 <= n + 1
  BY DEF Beginning, MeansAt, Starts
<1>4. \A n \in 1..Len(words) :
         n = Len(words) \/ words[n + 1].kind \notin {"and", "or"} <=> KindAt(n + 1) \notin Lists
  BY DEF KindAt, Lists
<1>5. ASSUME NEW n \in 1..Len(words), Complete(n)
      PROVE  result.pred = Beginning(n)
  <2> DEFINE q == n + 1
             m == MeansAt(1, q)
  <2>1. m # Rejected /\ KindAt(q) \notin Lists
    BY <1>3, <1>4, <1>5 DEF Complete
  <2>2. ReadOn(1, q)
    BY <1>1, <1>3, AllReadOn
  <2> HIDE DEF q
  <2>3. result = ParseOperands("or", Parsed(m, q), Parse[q + 1].or)
    BY <2>1, <2>2 DEF ReadOn, Lists
  <2>4. KindAt(q) # "or"
    BY <2>1 DEF Lists
  <2>5. Parsed(m, q).pos = q /\ Parsed(m, q).pred = m
    BY DEF Parsed
  <2>6. result = Parsed(m, q)
    BY <2>3, <2>4, <2>5 DEF ParseOperands
  <2>7. QED
    BY <1>3, <2>5, <2>6 DEF q
<1>6. ASSUME result.pred # Rejected
      PROVE  \E n \in 1..Len(words) : Complete(n)
  <2> DEFINE q == result.pos
             n == q - 1
  <2>1. result \in Results(1)
    BY <1>1, ParsesIn DEF IsParsed
  <2>2. q \in Starts /\ 1 < q
    BY <1>1, <1>6, <2>1, ResultEnds
  <2>3. MeansAt(1, q) # Rejected /\ KindAt(q) \notin Lists
    BY <1>1, <1>6, AllSound DEF IsSound, Sound
  <2> HIDE DEF result
  <2>4. n \in 1..Len(words) /\ n + 1 = q
    BY <2>2 DEF Starts
  <2>5. Complete(n)
    <3> HIDE DEF q, n
    <3>1. Beginning(n) = MeansAt(1, q)
      BY <1>3, <2>4
    <3>2. n = Len(words) \/ words[n + 1].kind \notin {"and", "or"}
      BY <1>4, <2>3, <2>4
    <3>3. QED
      BY <2>3, <3>1, <3>2 DEF Complete
  <2>6. QED
    BY <2>4, <2>5
<1>7. QED
  BY <1>2, <1>5, <1>6

(* The words are a sequence, and a search answers with what they are parsed  *)
(* to.                                                                       *)
AllWords == Words \cup Strays \cup {Triple(c)[k] : c \in Comparisons, k \in 1..3}
Asked ==
    /\ words \in Seq(AllWords)
    /\ answer # Pending /\ words # << >> => answer = ParseFlatFilter

LEMMA SameWords ==
    ASSUME words' = words
    PROVE  ParseFlatFilter' = ParseFlatFilter
<1>1. \A p : KindAt(p)' = KindAt(p)
  BY DEF KindAt
<1>2. \A p : ParseComparison(p)' = ParseComparison(p)
  BY <1>1 DEF ParseComparison
<1>3. \A p, inner : ParseTerm(p, inner)' = ParseTerm(p, inner)
  BY <1>1, <1>2 DEF ParseTerm
<1>4. \A kind, left, right : ParseOperands(kind, left, right)' = ParseOperands(kind, left, right)
  BY <1>1 DEF ParseOperands
<1>5. \A p, f : ParseStep(p, f)' = ParseStep(p, f)
  BY <1>3, <1>4 DEF ParseStep
<1>6. \A f : [p \in Starts' |-> ParseStep(p, f)'] = [p \in Starts |-> ParseStep(p, f)]
  BY <1>5 DEF Starts
<1>7. Parse = CHOOSE f : f = [p \in Starts |-> ParseStep(p, f)]
  BY DEF Parse, ParseStep, Starts
<1>8. Parse' = CHOOSE f : f = [p \in Starts' |-> ParseStep(p, f)']
  BY DEF Parse, ParseStep, Starts
<1>9. Parse' = Parse
  BY <1>6, <1>7, <1>8
<1>10. QED
  BY <1>9 DEF ParseFlatFilter

LEMMA AskedInit ==
    ASSUME FilterInit
    PROVE  Asked
<1>1. answer = Pending
  BY DEF FilterInit
<1>2. CASE words = << >>
  BY <1>1, <1>2 DEF Asked
<1>3. CASE body \in Writable /\ words = Flat[body]
  <2>1. words \in Seq(Words)
    BY <1>3, FlatInWords
  <2>2. Words \subseteq AllWords
    BY DEF AllWords
  <2> HIDE DEF AllWords
  <2>3. words \in Seq(AllWords)
    BY <2>1, <2>2
  <2>4. QED
    BY <1>1, <2>3 DEF Asked
<1>4. QED
  BY <1>2, <1>3 DEF FilterInit

LEMMA AskedNext ==
    ASSUME Asked, [FilterNext]_(filterVars)
    PROVE  Asked'
<1>1. ASSUME NEW part \in Seq(AllWords), Write(part)
      PROVE  Asked'
  <2>1. words' = words \o part /\ answer' = Pending
    BY <1>1 DEF Write
  <2>2. words \in Seq(AllWords)
    BY DEF Asked
  <2>3. words' \in Seq(AllWords)
    BY <2>1, <2>2
  <2>4. QED
    BY <2>1, <2>3 DEF Asked
<1>2. \A c \in Comparisons : Triple(c) \in Seq(AllWords)
  <2> SUFFICES ASSUME NEW c \in Comparisons PROVE Triple(c) \in Seq(AllWords)
    OBVIOUS
  <2>1. \A k \in 1..3 : Triple(c)[k] \in AllWords
    BY DEF AllWords
  <2>2. Triple(c)[1] \in AllWords /\ Triple(c)[2] \in AllWords /\ Triple(c)[3] \in AllWords
    BY <2>1
  <2>3. Triple(c) = <<Triple(c)[1], Triple(c)[2], Triple(c)[3]>>
    BY DEF Triple
  <2> DEFINE x == Triple(c)[1]
             y == Triple(c)[2]
             z == Triple(c)[3]
  <2> HIDE DEF x, y, z
  <2>4. <<x, y, z>> \in Seq(AllWords)
    BY <2>2 DEF x, y, z
  <2>5. QED
    BY <2>3, <2>4 DEF x, y, z
<1>3. \A t \in Strays : <<t>> \in Seq(AllWords)
  BY DEF AllWords
<1>4. CASE Search
  <2>1. words' = words /\ answer' = ParseResourceFilter
    BY <1>4 DEF Search
  <2>2. words # << >> => answer' = ParseFlatFilter
    BY <2>1 DEF ParseResourceFilter
  <2>3. ParseFlatFilter' = ParseFlatFilter
    BY <2>1, SameWords
  <2>4. QED
    BY <2>1, <2>2, <2>3 DEF Asked
<1>5. CASE UNCHANGED filterVars
  <2>1. words' = words /\ answer' = answer
    BY <1>5 DEF filterVars
  <2>2. ParseFlatFilter' = ParseFlatFilter
    BY <2>1, SameWords
  <2>3. QED
    BY <2>1, <2>2 DEF Asked
<1>6. QED
  BY <1>1, <1>2, <1>3, <1>4, <1>5 DEF FilterNext

(* The flat parser agrees with the grammar, for every sequence of tokens: it *)
(* gives what the longest complete beginning means, and refuses if there is  *)
(* none, or if an "and" or "or" follows it.                                  *)
THEOREM AlwaysBeginningParsed == FilterSpec => []BeginningParsed
<1>1. FilterInit => Asked
  BY AskedInit
<1>2. Asked /\ [FilterNext]_(filterVars) => Asked'
  BY AskedNext
<1>3. Asked => BeginningParsed
  <2> SUFFICES ASSUME Asked, answer # Pending, words # << >>
               PROVE  IF \E n \in 1..Len(words) : Complete(n)
                      THEN \A n \in 1..Len(words) : Complete(n) => answer = Beginning(n)
                      ELSE answer = Rejected
    BY DEF BeginningParsed
  <2>1. Len(words) \in Nat /\ answer = ParseFlatFilter
    BY DEF Asked
  <2>2. QED
    BY <2>1, ParserIsGrammar
<1>4. QED
  BY <1>1, <1>2, <1>3, PTL DEF FilterSpec
-----------------------------------------------------------------------------
(* Numbers from 1 on, one after the other.                                   *)
LEMMA Upward ==
    ASSUME NEW n \in Nat, NEW T, n # 0 => 1 \in T, \A k \in 2..n : k - 1 \in T => k \in T
    PROVE  \A k \in 1..n : k \in T
<1> DEFINE bad == {k \in 1..n : k \notin T}
<1> SUFFICES ASSUME bad # {} PROVE FALSE
  OBVIOUS
<1>1. bad \subseteq Nat
  OBVIOUS
<1>2. PICK k \in bad : \A m \in bad : k <= m
  BY <1>1, Least
<1>3. k # 1 /\ k \in 2..n
  OBVIOUS
<1>4. k - 1 \in 1..n /\ k - 1 \notin bad
  BY <1>2, <1>3
<1>5. QED
  BY <1>3, <1>4

(* The parts of a list.                                                      *)
LEMMA ItemsAre ==
    ASSUME NEW e \in Exprs, e.type = "list"
    PROVE  /\ Len(e.items) \in Nat /\ DOMAIN e.items = 1..Len(e.items)
           /\ \A k \in DOMAIN e.items : e.items[k] \in Exprs /\ Level[e.items[k]] < Level[e]
           /\ e.items \in Seq(Exprs) /\ e = List(e.items)
<1>1. e \in [type : {"list"}, items : Seq(Exprs)] /\ \A k \in DOMAIN e.items : Level[e.items[k]] < Level[e]
  <2>1. e \notin [type : {"number"}, number : Given]
    OBVIOUS
  <2>2. e \notin [type : {"ident"}, name : STRING] /\ e # Other
    BY DEF Other
  <2>3. QED
    BY <2>1, <2>2, ExprsAssumption
<1>2. e.items \in Seq(Exprs) /\ e = List(e.items)
  BY <1>1 DEF List
<1>3. QED
  BY <1>1, <1>2

(* What holds for an expression if it holds for its parts, holds.            *)
LEMMA OnParts ==
    ASSUME NEW T,
           \A e \in Exprs :
              (e.type = "list" => \A k \in DOMAIN e.items : e.items[k] \in T) => e \in T
    PROVE  \A e \in Exprs : e \in T
<1> DEFINE bad == {e \in Exprs : e \notin T}
           levels == {Level[e] : e \in bad}
<1> SUFFICES ASSUME bad # {} PROVE FALSE
  OBVIOUS
<1>0. \A e \in Exprs : Level[e] \in Nat
  BY ExprsAssumption
<1>1. levels \subseteq Nat /\ levels # {}
  BY <1>0
<1>2. PICK n \in levels : \A m \in levels : n <= m
  <2> HIDE DEF levels
  <2>1. QED
    BY <1>1, Least
<1>3. PICK e \in bad : Level[e] = n
  OBVIOUS
<1>4. ASSUME e.type = "list", NEW k \in DOMAIN e.items
      PROVE  e.items[k] \in T
  <2>1. e.items[k] \in Exprs /\ Level[e.items[k]] < n
    BY <1>3, <1>4, ItemsAre
  <2>2. e.items[k] \in bad => n <= Level[e.items[k]]
    BY <1>2
  <2>3. Level[e.items[k]] \in Nat /\ n \in Nat
    BY <1>0, <1>1, <2>1
  <2>4. QED
    BY <2>1, <2>2, <2>3
<1>5. QED
  BY <1>4

(* A recursion over expressions, with values in V.                           *)
Agree(e, g, h) == e.type = "list" => \A k \in DOMAIN e.items : g[e.items[k]] = h[e.items[k]]

OfParts(V, step) ==
    /\ V # {} /\ step \in [Exprs \X [Exprs -> V] -> V]
    /\ \A e \in Exprs, g \in [Exprs -> V], h \in [Exprs -> V] :
          Agree(e, g, h) => step[<<e, g>>] = step[<<e, h>>]

(* A step that looks only at the parts of an expression defines a function.  *)
LEMMA OnExprs ==
    ASSUME NEW V, NEW step, OfParts(V, step)
    PROVE  \E h \in [Exprs -> V] : \A e \in Exprs : h[e] = step[<<e, h>>]
<1> DEFINE W == [e \in Exprs |-> V]
           H == [Exprs -> V]
<1>0. /\ V # {} /\ step \in [Exprs \X H -> V]
      /\ \A e \in Exprs, g \in H, h \in H : Agree(e, g, h) => step[<<e, g>>] = step[<<e, h>>]
  BY DEF OfParts
<1>1. Choices(Exprs, V, W) = H
  BY DEF Choices
<1>2. ASSUME NEW e \in Exprs, NEW g \in H, NEW h \in H,
             \A y \in Exprs : Level[y] < Level[e] => g[y] = h[y]
      PROVE  step[<<e, g>>] = step[<<e, h>>]
  <2>1. Agree(e, g, h)
    <3>1. ASSUME e.type = "list", NEW k \in DOMAIN e.items PROVE g[e.items[k]] = h[e.items[k]]
      BY <1>2, <3>1, ItemsAre
    <3>2. QED
      BY <3>1 DEF Agree
  <2>2. QED
    BY <1>0, <2>1
<1>3. Descends(Exprs, V, W, Level, step)
  <2>1. \A e \in Exprs, h \in H : step[<<e, h>>] \in V
    <3>1. \A e \in Exprs, h \in H : <<e, h>> \in Exprs \X H
      OBVIOUS
    <3>2. QED
      BY <1>0, <3>1
  <2>2. \A e \in Exprs, h \in H : step[<<e, h>>] \in W[e]
    BY <2>1
  <2> HIDE DEF W
  <2>3. QED
    BY <1>0, <1>1, <1>2, <2>2 DEF Descends
<1>4. MaxLevel \in Nat /\ Level \in [Exprs -> 0..MaxLevel]
  BY ExprsAssumption
<1>5. H # {}
  <2>1. PICK v \in V : TRUE
    BY <1>0
  <2>2. [e \in Exprs |-> v] \in H
    OBVIOUS
  <2>3. QED
    BY <2>2
<1>6. QED
  <2> HIDE DEF W, H
  <2>1. \E h \in H : \A e \in Exprs : h[e] = step[<<e, h>>]
    BY <1>1, <1>3, <1>4, <1>5, Recursion
  <2>2. QED
    BY <2>1 DEF H
-----------------------------------------------------------------------------
(* The values that Reduce goes through: f is what is made of the first k.    *)
Folding(f, values, V, g) ==
    /\ f \in [1..Len(values) -> V]
    /\ f = [k \in 1..Len(values) |-> IF k = 1 THEN values[1] ELSE g[<<f[k - 1], values[k]>>]]

(* There is such a function, for a list that is not empty.                   *)
LEMMA Folded ==
    ASSUME NEW V, NEW values \in Seq(V), values # << >>, NEW g \in [V \X V -> V]
    PROVE  \E f : Folding(f, values, V, g)
<1> DEFINE n == Len(values)
           S == 1..n
           W == [k \in S |-> V]
           H == [S -> V]
           rank == [k \in S |-> k]
           ValueAt(k, h) == IF k = 1 THEN values[1] ELSE g[<<h[k - 1], values[k]>>]
           step == [a \in S \X H |-> ValueAt(a[1], a[2])]
<1>1. n \in Nat /\ \A k \in S : values[k] \in V
  OBVIOUS
<1>2. Choices(S, V, W) = H
  BY DEF Choices
<1>3. \A k \in S, h \in H : ValueAt(k, h) \in V
  <2> SUFFICES ASSUME NEW k \in S, NEW h \in H, k # 1 PROVE g[<<h[k - 1], values[k]>>] \in V
    BY <1>1
  <2>1. k - 1 \in S
    BY <1>1
  <2>2. <<h[k - 1], values[k]>> \in V \X V
    BY <1>1, <2>1
  <2>3. QED
    BY <2>2
<1>4. \A k \in S, h \in H : step[<<k, h>>] = ValueAt(k, h)
  <2> HIDE DEF H, ValueAt, S
  <2>1. QED
    OBVIOUS
<1>5. step \in [S \X H -> V]
  <2> HIDE DEF H, ValueAt, S
  <2>1. \A a \in S \X H : a[1] \in S /\ a[2] \in H
    OBVIOUS
  <2>2. QED
    BY <1>3, <2>1
<1>6. ASSUME NEW k \in S, NEW x \in H, NEW h \in H, \A y \in S : rank[y] < rank[k] => x[y] = h[y]
      PROVE  step[<<k, x>>] = step[<<k, h>>]
  <2>1. k # 1 => k - 1 \in S /\ rank[k - 1] < rank[k]
    BY <1>1
  <2>2. ValueAt(k, x) = ValueAt(k, h)
    BY <1>6, <2>1
  <2> HIDE DEF step, ValueAt, H, S
  <2>3. QED
    BY <1>4, <2>2
<1>7. Descends(S, V, W, rank, step)
  <2> HIDE DEF S, H, step, rank
  <2>1. \A k \in S, h \in H : <<k, h>> \in S \X H
    OBVIOUS
  <2>2. \A k \in S, h \in H : step[<<k, h>>] \in W[k]
    BY <1>5, <2>1
  <2> HIDE DEF W
  <2>3. QED
    BY <1>2, <1>5, <1>6, <2>2 DEF Descends
<1>8. rank \in [S -> 0..n] /\ H # {}
  <2>1. [k \in S |-> values[k]] \in H
    BY <1>1
  <2>2. QED
    BY <1>1, <2>1
<1>9. PICK f \in H : \A k \in S : f[k] = step[<<k, f>>]
  <2> HIDE DEF S, H, step, rank, n, W
  <2>1. QED
    BY <1>1, <1>2, <1>7, <1>8, Recursion
<1>10. f = [k \in S |-> ValueAt(k, f)]
  <2>1. f = [k \in S |-> f[k]]
    OBVIOUS
  <2> HIDE DEF step, ValueAt, H
  <2>2. QED
    BY <1>4, <1>9, <2>1
<1>11. QED
  BY <1>10 DEF Folding

(* Numbers combined are numbers.                                             *)
LEMMA Combined ==
    ASSUME NEW method, NEW V, NEW values \in Seq(V), values # << >>,
           \A x, y \in V : Combine(method, x, y) \in V
    PROVE  Reduce(LAMBDA x, y : Combine(method, x, y), values) \in V
<1> DEFINE n == Len(values)
           g == [p \in V \X V |-> Combine(method, p[1], p[2])]
           Step(f) == [k \in 1..n |->
                          IF k = 1 THEN values[1] ELSE Combine(method, f[k - 1], values[k])]
           upto == CHOOSE x : x = Step(x)
<1>0. n \in Nat /\ n # 0 /\ \A k \in 1..n : values[k] \in V
  OBVIOUS
<1>1. g \in [V \X V -> V] /\ \A x, y \in V : g[<<x, y>>] = Combine(method, x, y)
  <2>1. \A x, y \in V : <<x, y>> \in V \X V
    OBVIOUS
  <2>2. QED
    BY <2>1
<1> HIDE DEF g
<1>2. PICK f : Folding(f, values, V, g)
  BY <1>1, Folded
<1>3. f = Step(f)
  <2>1. ASSUME NEW k \in 1..n, k # 1
        PROVE  g[<<f[k - 1], values[k]>>] = Combine(method, f[k - 1], values[k])
    <3>1. k - 1 \in 1..n
      BY <1>0, <2>1
    <3>2. f[k - 1] \in V
      BY <1>2, <3>1 DEF Folding
    <3>3. QED
      BY <1>0, <1>1, <3>2
  <2>2. QED
    BY <1>2, <2>1 DEF Folding
<1>4. upto = Step(upto)
  <2> HIDE DEF Step
  <2>1. QED
    BY <1>3
<1>5. Reduce(LAMBDA x, y : Combine(method, x, y), values) = upto[n]
  BY DEF Reduce
<1> HIDE DEF upto
<1>6. \A k \in 1..n : upto[k] \in V
  <2> DEFINE T == {j \in 1..n : upto[j] \in V}
  <2>1. 1 \in T
    BY <1>0, <1>4
  <2>2. ASSUME NEW k \in 2..n, k - 1 \in T PROVE k \in T
    <3>1. k \in 1..n /\ k # 1
      BY <1>0
    <3>2. upto[k] = Combine(method, upto[k - 1], values[k])
      BY <1>4, <3>1
    <3>3. QED
      BY <1>0, <2>2, <3>1, <3>2
  <2>3. \A k \in 1..n : k \in T
    <3> HIDE DEF T, n
    <3>1. QED
      BY <1>0, <2>1, <2>2, Upward
  <2>4. QED
    BY <2>3
<1>7. QED
  <2>1. upto[n] \in V
    BY <1>0, <1>6
  <2>2. QED
    BY <1>5, <2>1
-----------------------------------------------------------------------------
(* Operations make floats of floats, and of fine ones, which are finite or   *)
(* come from an overflow, fine ones.                                         *)
Fine == {x \in Floats : x[2] # 0 \/ x[3] # 0}

(* Products of numbers, for the provers, which know no laws of *.            *)
LEMMA Products ==
    /\ \A a \in Int, b \in Int : a * b \in Int
    /\ \A a \in Nat, b \in Nat : a * b \in Nat /\ (a # 0 /\ b # 0 => a * b # 0)
OBVIOUS

(* Rounding keeps floats, what is finite or comes from an overflow, so.      *)
LEMMA RoundedIn ==
    ASSUME NEW a \in Int, NEW b \in Nat, NEW o \in Nat
    PROVE  /\ Rounded(<<a, b, o>>) \in Floats
           /\ b # 0 \/ o # 0 => Rounded(<<a, b, o>>) \in Fine
<1> DEFINE x == <<a, b, o>>
           over == x[1] > Largest * x[2] \/ -x[1] > Largest * x[2]
<1>1. x \in Floats /\ x[1] = a /\ x[2] = b /\ x[3] = o
  BY DEF Floats
<1>2. Signum(a) \in Int
  BY DEF Signum
<1>3. Rounded(x) = IF b = 0 THEN <<Signum(a), 0, o>>
                   ELSE IF over THEN <<Signum(a), 0, o + 1>> ELSE x
  BY <1>1 DEF Rounded
<1> HIDE DEF over
<1>4. <<Signum(a), 0, o>> \in Floats /\ <<Signum(a), 0, o + 1>> \in Floats
  BY <1>2 DEF Floats
<1>5. o + 1 # 0 /\ <<Signum(a), 0, o>>[3] = o /\ <<Signum(a), 0, o + 1>>[3] = o + 1
  OBVIOUS
<1> HIDE DEF x
<1>6. Rounded(x) \in Floats /\ (b # 0 \/ o # 0 => Rounded(x) \in Fine)
  BY <1>1, <1>3, <1>4, <1>5 DEF Fine
<1>7. QED
  BY <1>6 DEF x

(* The parts of a float.                                                     *)
LEMMA FloatParts ==
    ASSUME NEW x \in Floats
    PROVE  /\ x[1] \in Int /\ x[2] \in Nat /\ x[3] \in Nat
           /\ x \in Fine <=> x[2] # 0 \/ x[3] # 0
BY DEF Floats, Fine

(* Products are floats, and of fine ones fine.                               *)
LEMMA TimesIn ==
    ASSUME NEW x \in Floats, NEW y \in Floats
    PROVE  /\ Times(x, y) \in Floats
           /\ x \in Fine /\ y \in Fine => Times(x, y) \in Fine
<1> DEFINE a == x[1] * y[1]
           b == x[2] * y[2]
           o == x[3] + y[3]
<1>1. /\ x[1] \in Int /\ x[2] \in Nat /\ x[3] \in Nat /\ y[1] \in Int /\ y[2] \in Nat /\ y[3] \in Nat
      /\ x \in Fine => x[2] # 0 \/ x[3] # 0
      /\ y \in Fine => y[2] # 0 \/ y[3] # 0
  BY FloatParts
<1>2. a \in Int /\ b \in Nat /\ (x[2] # 0 /\ y[2] # 0 => b # 0)
  BY <1>1, Products
<1>3. o \in Nat /\ (x[3] # 0 \/ y[3] # 0 => o # 0)
  BY <1>1
<1>4. Times(x, y) = Rounded(<<a, b, o>>)
  BY DEF Times
<1> HIDE DEF a, b, o
<1>5. QED
  BY <1>1, <1>2, <1>3, <1>4, RoundedIn

(* So are sums.                                                              *)
LEMMA PlusIn ==
    ASSUME NEW x \in Floats, NEW y \in Floats
    PROVE  /\ Plus(x, y) \in Floats
           /\ x \in Fine /\ y \in Fine => Plus(x, y) \in Fine
<1> DEFINE a == x[1] * y[2] + y[1] * x[2]
           b == x[2] * y[2]
           o == x[3] + y[3]
           equal == x[2] = 0 /\ y[2] = 0 /\ x[1] = y[1]
           same == <<x[1], 0, o>>
<1>1. /\ x[1] \in Int /\ x[2] \in Nat /\ x[3] \in Nat /\ y[1] \in Int /\ y[2] \in Nat /\ y[3] \in Nat
      /\ x \in Fine => x[2] # 0 \/ x[3] # 0
      /\ y \in Fine => y[2] # 0 \/ y[3] # 0
  BY FloatParts
<1>2. a \in Int /\ b \in Nat /\ (x[2] # 0 /\ y[2] # 0 => b # 0)
  <2>1. x[1] * y[2] \in Int /\ y[1] * x[2] \in Int
    BY <1>1, Products
  <2>2. b \in Nat /\ (x[2] # 0 /\ y[2] # 0 => b # 0)
    BY <1>1, Products
  <2>3. QED
    BY <2>1, <2>2
<1>3. o \in Nat /\ (x[3] # 0 \/ y[3] # 0 => o # 0)
  BY <1>1
<1>4. Plus(x, y) = IF equal THEN same ELSE Rounded(<<a, b, o>>)
  BY DEF Plus
<1> HIDE DEF a, b, o
<1>5. same \in Floats /\ (o # 0 => same \in Fine)
  BY <1>1, <1>3 DEF Floats, Fine
<1>6. equal => x[2] = 0 /\ y[2] = 0
  OBVIOUS
<1> HIDE DEF equal, same
<1>7. QED
  BY <1>1, <1>2, <1>3, <1>4, <1>5, <1>6, RoundedIn

(* Sets of numbers that stay together.                                       *)
Kinship == {Fine, Floats}

(* What has no part of zero has a reciprocal.                                *)
LEMMA ReciprocalIn ==
    ASSUME NEW y \in Floats, ~IsZero(y)
    PROVE  /\ Reciprocal(y) \in Floats
           /\ y \in Fine => Reciprocal(y) \in Fine
<1>1. y[1] \in Int /\ y[2] \in Nat /\ y[3] \in Nat /\ (y \in Fine => y[2] # 0 \/ y[3] # 0)
  BY FloatParts
<1>2. y[2] # 0 => y[1] # 0
  BY DEF IsZero, IsFinite
<1>3. CASE y[1] < 0
  <2>1. Reciprocal(y) = <<-y[2], -y[1], y[3]>>
    BY <1>3 DEF Reciprocal
  <2>2. -y[2] \in Int /\ -y[1] \in Nat /\ -y[1] # 0
    BY <1>1, <1>3
  <2>3. QED
    BY <1>1, <2>1, <2>2 DEF Floats, Fine
<1>4. CASE ~(y[1] < 0)
  <2>1. Reciprocal(y) = <<y[2], y[1], y[3]>>
    BY <1>4 DEF Reciprocal
  <2>2. y[1] \in Nat /\ y[2] \in Int
    BY <1>1, <1>4
  <2>3. QED
    BY <1>1, <1>2, <2>1, <2>2 DEF Floats, Fine
<1>5. QED
  BY <1>3, <1>4

(* Arithmetic within one of them.                                            *)
LEMMA KinshipIn ==
    ASSUME NEW S \in Kinship, NEW x \in S, NEW y \in S
    PROVE  /\ Plus(x, y) \in S /\ Times(x, y) \in S /\ Minus(x, y) \in S
           /\ ~IsZero(y) => Times(x, Reciprocal(y)) \in S
<1>1. S = Fine \/ S = Floats
  BY DEF Kinship
<1>2. \A u, v \in S : Plus(u, v) \in S /\ Times(u, v) \in S
  <2>1. Fine \subseteq Floats
    BY DEF Fine
  <2>2. QED
    BY <1>1, <2>1, PlusIn, TimesIn
<1>3. <<-1, 1, 0>> \in S
  BY <1>1 DEF Fine, Floats
<1>4. Minus(x, y) \in S
  BY <1>2, <1>3 DEF Minus
<1>5. ~IsZero(y) => Reciprocal(y) \in S
  <2>1. Fine \subseteq Floats
    BY DEF Fine
  <2>2. QED
    BY <1>1, <2>1, ReciprocalIn
<1>6. QED
  BY <1>2, <1>4, <1>5

(* An operation stays among its operands, whatever it divides by.            *)
LEMMA OperateIn ==
    ASSUME NEW S \in Kinship, NEW op \in Arithmetic, NEW x \in S, NEW y \in S
    PROVE  Operate(op, x, y) \in S
<1>1. /\ Plus(x, y) \in S /\ Times(x, y) \in S /\ Minus(x, y) \in S
      /\ ~IsZero(y) => Times(x, Reciprocal(y)) \in S
  BY KinshipIn
<1>2. <<0, 1, 0>> \in S
  BY DEF Kinship, Fine, Floats
<1>3. op = "+" \/ op = "-" \/ op = "*" \/ op = "/"
  BY DEF Arithmetic
<1>4. CASE op = "+"
  BY <1>1, <1>4 DEF Operate
<1>5. CASE op = "-"
  BY <1>1, <1>5 DEF Operate
<1>6. CASE op = "*"
  BY <1>1, <1>6 DEF Operate
<1>7. CASE op = "/"
  BY <1>1, <1>2, <1>7 DEF Operate
<1>8. QED
  BY <1>3, <1>4, <1>5, <1>6, <1>7

(* So does a collapse, of however many values.                               *)
LEMMA CollapseIn ==
    ASSUME NEW S \in Kinship, NEW method, NEW values \in Seq(S), values # << >>
    PROVE  Collapse(method, values) \in S
<1> DEFINE all == Reduce(LAMBDA x, y : Combine(method, x, y), values)
<1>1. \A x, y \in S : Plus(x, y) \in S /\ Times(x, y) \in S
  BY KinshipIn
<1>2. \A x, y \in S : Combine(method, x, y) \in S
  BY <1>1 DEF Combine
<1>3. all \in S
  BY <1>2, Combined
<1>4. Len(values) \in Nat \ {0} /\ values[Len(values)] \in S
  OBVIOUS
<1>5. <<Len(values), 1, 0>> \in S /\ <<1, Len(values), 0>> \in S
  <2>1. \A m \in Nat \ {0} : <<m, 1, 0>> \in Fine /\ <<1, m, 0>> \in Fine
    BY DEF Fine, Floats
  <2>2. Fine \subseteq S
    BY DEF Kinship, Fine, Floats
  <2>3. QED
    BY <1>4, <2>1, <2>2
<1>6. Times(all, <<1, Len(values), 0>>) \in S
  BY <1>1, <1>3, <1>5
<1>7. Collapse(method, values) =
        IF method = "count" THEN <<Len(values), 1, 0>>
        ELSE IF method = "last" THEN values[Len(values)]
        ELSE IF method \in {"sum", "min", "max"} THEN all
        ELSE Times(all, <<1, Len(values), 0>>)
  BY DEF Collapse
<1> HIDE DEF all
<1>8. QED
  BY <1>3, <1>4, <1>5, <1>6, <1>7
-----------------------------------------------------------------------------
(* Sequences that are put together, one after the other.                     *)
LEMMA Concatenated ==
    ASSUME NEW S, NEW values \in Seq(Seq(S)), values # << >>
    PROVE  \E upto \in [1..Len(values) -> Seq(S)] :
              /\ \A k \in 1..Len(values) :
                    upto[k] = IF k = 1 THEN values[1] ELSE upto[k - 1] \o values[k]
              /\ Reduce(Concat, values) = upto[Len(values)]
<1> DEFINE n == Len(values)
           V == Seq(S)
           g == [p \in V \X V |-> p[1] \o p[2]]
           Step(f) == [k \in 1..n |-> IF k = 1 THEN values[1] ELSE f[k - 1] \o values[k]]
           upto == CHOOSE x : x = Step(x)
<1>0. n \in Nat /\ n # 0 /\ \A k \in 1..n : values[k] \in V
  OBVIOUS
<1>c. \A x, y \in V : x \o y \in V
  OBVIOUS
<1> HIDE DEF V
<1>1. g \in [V \X V -> V] /\ \A x, y \in V : g[<<x, y>>] = x \o y
  <2>1. \A x, y \in V : <<x, y>> \in V \X V
    OBVIOUS
  <2>2. \A p \in V \X V : p[1] \o p[2] \in V
    BY <1>c
  <2>3. QED
    BY <2>1, <2>2
<1> HIDE DEF g
<1>2. PICK f : Folding(f, values, V, g)
  BY <1>1, Folded DEF V
<1>3. f = Step(f)
  <2>1. ASSUME NEW k \in 1..n, k # 1
        PROVE  g[<<f[k - 1], values[k]>>] = f[k - 1] \o values[k]
    <3>1. k - 1 \in 1..n
      BY <1>0, <2>1
    <3>2. f[k - 1] \in V
      BY <1>2, <3>1 DEF Folding
    <3>3. QED
      BY <1>0, <1>1, <3>2
  <2>2. QED
    BY <1>2, <2>1 DEF Folding
<1>4. upto = Step(upto)
  <2> HIDE DEF Step
  <2>1. QED
    BY <1>3
<1>5. Reduce(Concat, values) = upto[n]
  BY DEF Reduce, Concat
<1> HIDE DEF upto
<1>6. \A k \in 1..n : upto[k] = IF k = 1 THEN values[1] ELSE upto[k - 1] \o values[k]
  BY <1>4
<1>7. \A k \in 1..n : upto[k] \in V
  <2> DEFINE T == {j \in 1..n : upto[j] \in V}
  <2>1. 1 \in T
    BY <1>0, <1>4
  <2>2. ASSUME NEW k \in 2..n, k - 1 \in T PROVE k \in T
    <3>1. k \in 1..n /\ k # 1
      BY <1>0
    <3>2. upto[k] = upto[k - 1] \o values[k]
      BY <1>6, <3>1
    <3>3. QED
      BY <1>0, <1>c, <2>2, <3>1, <3>2
  <2>3. \A k \in 1..n : k \in T
    <3> HIDE DEF T, n
    <3>1. QED
      BY <1>0, <2>1, <2>2, Upward
  <2>4. QED
    BY <2>3
<1>8. upto \in [1..n -> V]
  <2>1. upto = [k \in 1..n |-> upto[k]]
    BY <1>4
  <2>2. QED
    BY <1>7, <2>1
<1>9. QED
  BY <1>5, <1>6, <1>8 DEF V

(* The values at a timestamp: there is one, and all are among those answered. *)
LEMMA BucketIn ==
    ASSUME NEW S, NEW set, NEW n \in Nat, DOMAIN set = 1..n, NEW t,
           \A k \in 1..n : t \in DOMAIN set[k] => set[k][t] \in S,
           NEW m \in 1..n, t \in DOMAIN set[m]
    PROVE  Bucket(set, t) \in Seq(S) /\ Bucket(set, t) # << >>
<1> DEFINE values == [k \in DOMAIN set |-> IF t \in DOMAIN set[k] THEN <<set[k][t]>> ELSE << >>]
<1>1. \A k \in 1..n : values[k] \in Seq(S)
  OBVIOUS
<1>2. values \in Seq(Seq(S)) /\ Len(values) = n /\ n # 0 /\ values # << >>
  <2>1. values \in [1..n -> Seq(S)]
    BY <1>1
  <2> HIDE DEF values
  <2>2. values \in Seq(Seq(S)) /\ Len(values) = n
    BY <2>1
  <2>3. QED
    BY <2>2
<1>3. values[m] # << >>
  OBVIOUS
<1>4. Bucket(set, t) = Reduce(Concat, values)
  BY DEF Bucket
<1> HIDE DEF values
<1>5. PICK upto \in [1..n -> Seq(S)] :
         /\ \A k \in 1..n : upto[k] = IF k = 1 THEN values[1] ELSE upto[k - 1] \o values[k]
         /\ Reduce(Concat, values) = upto[n]
  BY <1>2, Concatenated
<1>6. \A k \in 1..n : k >= m => upto[k] # << >>
  <2> DEFINE T == {k \in 1..n : k >= m => upto[k] # << >>}
  <2>1. 1 \in T
    BY <1>2, <1>3, <1>5
  <2>2. ASSUME NEW k \in 2..n, k - 1 \in T PROVE k \in T
    <3>0. k \in 1..n /\ k - 1 \in 1..n /\ k # 1
      OBVIOUS
    <3>1. k \in 1..n /\ k - 1 \in 1..n /\ upto[k] = upto[k - 1] \o values[k]
      BY <1>5, <3>0
    <3>2. upto[k - 1] \in Seq(S) /\ values[k] \in Seq(S)
      BY <1>1, <3>1
    <3>3. ASSUME upto[k - 1] # << >> \/ values[k] # << >>
          PROVE  upto[k - 1] \o values[k] # << >>
      BY <3>2, <3>3
    <3>4. k >= m => k = m \/ k - 1 >= m
      BY <3>1
    <3>5. QED
      BY <1>3, <2>2, <3>1, <3>3, <3>4
  <2>3. \A k \in 1..n : k \in T
    <3> HIDE DEF T
    <3>1. QED
      BY <2>1, <2>2, Upward
  <2>4. QED
    BY <2>3
<1>7. QED
  BY <1>2, <1>4, <1>5, <1>6
-----------------------------------------------------------------------------
(* The values of expressions.                                                *)
Instants == UNION {DOMAIN a : a \in Answers \ {Gone, Failed}}
AllSeries == UNION {[T -> Floats] : T \in SUBSET Instants}
AllValues ==
    [kind : {"scalar"}, scalar : Floats] \cup [kind : {"series"}, series : AllSeries]
        \cup [kind : {"set"}, set : [DOMAIN Matched -> AllSeries]] \cup {Error}
Answered == measures \in [Metrics \X OfResources -> Answers]

(* What a value has of its kind.                                             *)
LEMMA ResultsAre ==
    ASSUME NEW v \in AllValues
    PROVE  /\ v.kind \in {"scalar", "series", "set", "error"}
           /\ v.kind = "scalar" => v.scalar \in Floats
           /\ v.kind = "series" => v.series \in AllSeries
           /\ v.kind = "set" => v.set \in [DOMAIN Matched -> AllSeries]
<1>1. CASE v \in [kind : {"scalar"}, scalar : Floats]
  BY <1>1
<1>2. CASE v \in [kind : {"series"}, series : AllSeries]
  BY <1>2
<1>3. CASE v \in [kind : {"set"}, set : [DOMAIN Matched -> AllSeries]]
  BY <1>3
<1>4. CASE v = Error
  BY <1>4 DEF Error
<1>5. QED
  BY <1>1, <1>2, <1>3, <1>4 DEF AllValues

(* The values that the operations make.                                      *)
LEMMA ResultsHave ==
    /\ \A x \in Floats :
          ScalarValue(x) \in AllValues /\ ScalarValue(x).kind = "scalar" /\ ScalarValue(x).scalar = x
    /\ \A s \in AllSeries :
          SeriesValue(s) \in AllValues /\ SeriesValue(s).kind = "series" /\ SeriesValue(s).series = s
    /\ \A f \in [DOMAIN Matched -> AllSeries] :
          SetValue(f) \in AllValues /\ SetValue(f).kind = "set" /\ SetValue(f).set = f
    /\ Error \in AllValues /\ Error.kind = "error"
BY DEF AllValues, ScalarValue, SeriesValue, SetValue, Error

(* Series have floats at some of the instants, the empty one at none.        *)
LEMMA SeriesAre ==
    /\ \A s \in AllSeries : /\ DOMAIN s \subseteq Instants
                            /\ \A t \in DOMAIN s : s[t] \in Floats
    /\ \A T \in SUBSET Instants : [T -> Floats] \subseteq AllSeries
    /\ << >> \in AllSeries /\ DOMAIN << >> = {}
<1>1. << >> \in [{} -> Floats] /\ DOMAIN << >> = {}
  <2>1. << >> \in Seq(Floats) /\ Len(<< >>) = 0
    OBVIOUS
  <2>2. 1..0 = {}
    OBVIOUS
  <2>3. QED
    BY <2>1, <2>2
<1>2. QED
  BY <1>1 DEF AllSeries

(* The matched resources are numbered.                                       *)
LEMMA MatchedAre ==
    /\ Len(Matched) \in Nat /\ DOMAIN Matched = 1..Len(Matched)
    /\ \A k \in DOMAIN Matched : Matched[k] \in OfResources
    /\ \A r \in OfResources : \E k \in DOMAIN Matched : r = Matched[k]
BY AnswersAssumption DEF OfResources

(* What is given is no overflow: it is fine if, and only if, it is finite.   *)
LEMMA GivenAre ==
    /\ Given \subseteq Floats
    /\ \A x \in Given : x \in Fine <=> IsFinite(x)
BY DEF Given, Floats, Fine, IsFinite

(* The metrics of the resources: one that failed is an error; else they have *)
(* at a timestamp what was answered.                                         *)
LEMMA MetricSetIs ==
    ASSUME Answered, NEW metric \in Metrics
    PROVE  /\ MetricSet(metric) \in AllValues
           /\ MetricSet(metric).kind =
                IF \E r \in OfResources : measures[<<metric, r>>] = Failed THEN "error" ELSE "set"
           /\ MetricSet(metric).kind = "set" =>
                \A k \in DOMAIN Matched : \A t :
                   /\ t \in DOMAIN MetricSet(metric).set[k] <=>
                         /\ measures[<<metric, Matched[k]>>] # Gone
                         /\ t \in DOMAIN measures[<<metric, Matched[k]>>]
                   /\ t \in DOMAIN MetricSet(metric).set[k] =>
                         MetricSet(metric).set[k][t] = measures[<<metric, Matched[k]>>][t]
<1> DEFINE failed == \E k \in DOMAIN Matched : measures[<<metric, Matched[k]>>] = Failed
           set == [k \in DOMAIN Matched |->
                      IF measures[<<metric, Matched[k]>>] = Gone THEN << >> ELSE measures[<<metric, Matched[k]>>]]
<1>1. \A k \in DOMAIN Matched : measures[<<metric, Matched[k]>>] \in Answers
  <2>1. \A k \in DOMAIN Matched : <<metric, Matched[k]>> \in Metrics \X OfResources
    BY MatchedAre
  <2>2. QED
    BY <2>1 DEF Answered
<1>2. failed <=> \E r \in OfResources : measures[<<metric, r>>] = Failed
  BY MatchedAre
<1>3. \A a \in Answers \ {Gone, Failed} : a \in AllSeries
  <2>1. \A a \in Answers \ {Gone, Failed} : a \in [DOMAIN a -> Floats]
    BY AnswersAssumption, GivenAre
  <2>2. \A a \in Answers \ {Gone, Failed} : DOMAIN a \in SUBSET Instants
    BY DEF Instants
  <2>3. QED
    BY <2>1, <2>2, SeriesAre
<1>4. CASE failed
  BY <1>2, <1>4, ResultsHave DEF MetricSet
<1>5. CASE ~failed
  <2>1. MetricSet(metric) = SetValue(set)
    BY <1>5 DEF MetricSet
  <2>2. \A k \in DOMAIN Matched :
           set[k] = IF measures[<<metric, Matched[k]>>] = Gone THEN << >> ELSE measures[<<metric, Matched[k]>>]
    OBVIOUS
  <2>3. \A k \in DOMAIN Matched : set[k] \in AllSeries
    BY <1>1, <1>3, <1>5, SeriesAre
  <2>4. set \in [DOMAIN Matched -> AllSeries]
    BY <2>3
  <2>5. \A k \in DOMAIN Matched : set[k] = << >> => DOMAIN set[k] = {}
    BY SeriesAre
  <2> HIDE DEF set, failed
  <2>6. MetricSet(metric) \in AllValues /\ MetricSet(metric).kind = "set" /\ MetricSet(metric).set = set
    BY <2>1, <2>4, ResultsHave
  <2>7. ASSUME NEW k \in DOMAIN Matched, NEW t
        PROVE  /\ t \in DOMAIN set[k] <=>
                     /\ measures[<<metric, Matched[k]>>] # Gone
                     /\ t \in DOMAIN measures[<<metric, Matched[k]>>]
               /\ t \in DOMAIN set[k] => set[k][t] = measures[<<metric, Matched[k]>>][t]
    BY <2>2, <2>5
  <2>8. QED
    BY <1>2, <1>5, <2>6, <2>7
<1>6. QED
  BY <1>4, <1>5
-----------------------------------------------------------------------------
(* Whether a value has a measure at t, and whether that is a number.         *)
HasAt(v, t) ==
    IF v.kind = "series" THEN t \in DOMAIN v.series
    ELSE IF v.kind = "set" THEN \E k \in DOMAIN v.set : t \in DOMAIN v.set[k]
    ELSE TRUE
FineAt(v, t) ==
    /\ v.kind = "scalar" => v.scalar \in Fine
    /\ v.kind = "series" => (t \in DOMAIN v.series => v.series[t] \in Fine)
    /\ v.kind = "set" => \A k \in DOMAIN v.set : t \in DOMAIN v.set[k] => v.set[k][t] \in Fine
Operands == {"scalar", "series"}

(* An aggregate has a value where any series has one, a number of numbers.   *)
LEMMA AggregateSeriesSetIs ==
    ASSUME NEW method, NEW set \in [DOMAIN Matched -> AllSeries]
    PROVE  /\ AggregateSeriesSet(method, set) \in AllSeries
           /\ \A t : t \in DOMAIN AggregateSeriesSet(method, set)
                        <=> \E k \in DOMAIN set : t \in DOMAIN set[k]
           /\ \A t \in DOMAIN AggregateSeriesSet(method, set) :
                 (\A k \in DOMAIN set : t \in DOMAIN set[k] => set[k][t] \in Fine)
                    => AggregateSeriesSet(method, set)[t] \in Fine
<1> DEFINE T == UNION {DOMAIN set[k] : k \in DOMAIN set}
           agg == [t \in T |-> Collapse(method, Bucket(set, t))]
           n == Len(Matched)
<1>1. n \in Nat /\ DOMAIN set = 1..n
  BY MatchedAre
<1>2. AggregateSeriesSet(method, set) = agg
  BY DEF AggregateSeriesSet
<1>3. \A k \in 1..n : set[k] \in AllSeries
  BY <1>1
<1>4. T \in SUBSET Instants
  BY <1>1, <1>3, SeriesAre
<1>5. \A t : t \in T <=> \E k \in DOMAIN set : t \in DOMAIN set[k]
  OBVIOUS
<1> HIDE DEF T
<1>6. ASSUME NEW t \in T, NEW S \in Kinship,
             \A k \in 1..n : t \in DOMAIN set[k] => set[k][t] \in S
      PROVE  Collapse(method, Bucket(set, t)) \in S
  <2>1. PICK m \in 1..n : t \in DOMAIN set[m]
    BY <1>1, <1>5
  <2>2. Bucket(set, t) \in Seq(S) /\ Bucket(set, t) # << >>
    BY <1>1, <1>6, <2>1, BucketIn
  <2>3. QED
    BY <2>2, CollapseIn
<1>7. \A t \in T : Collapse(method, Bucket(set, t)) \in Floats
  <2>1. \A t \in T : \A k \in 1..n : t \in DOMAIN set[k] => set[k][t] \in Floats
    BY <1>3, SeriesAre
  <2>2. Floats \in Kinship
    BY DEF Kinship
  <2>3. QED
    BY <1>6, <2>1, <2>2
<1>8. \A t \in T : (\A k \in DOMAIN set : t \in DOMAIN set[k] => set[k][t] \in Fine)
                      => Collapse(method, Bucket(set, t)) \in Fine
  <2>1. Fine \in Kinship
    BY DEF Kinship
  <2>2. QED
    BY <1>1, <1>6, <2>1
<1>9. agg \in [T -> Floats]
  BY <1>7
<1>10. agg \in AllSeries
  BY <1>4, <1>9, SeriesAre
<1>11. QED
  BY <1>2, <1>5, <1>8, <1>10

(* Two operands.                                                             *)
Combines(v, l, r) ==
    /\ v \in AllValues /\ v.kind # "set"
    /\ v.kind \in Operands <=> l.kind \in Operands /\ r.kind \in Operands
    /\ v.kind \in Operands => (v.kind = "series" <=> l.kind = "series" \/ r.kind = "series")
    /\ v.kind \in Operands => \A t : HasAt(v, t) <=> HasAt(l, t) /\ HasAt(r, t)
    /\ \A t : FineAt(l, t) /\ FineAt(r, t) => FineAt(v, t)

(* That is what an operation does with two values.                           *)
LEMMA ApplyIs ==
    ASSUME NEW op \in Arithmetic, NEW l \in AllValues, NEW r \in AllValues
    PROVE  Combines(ApplyBinaryOperation(op, l, r), l, r)
<1> DEFINE v == ApplyBinaryOperation(op, l, r)
<1>1. /\ l.kind \in {"scalar", "series", "set", "error"}
      /\ r.kind \in {"scalar", "series", "set", "error"}
  BY ResultsAre
<1>2. \A S \in Kinship : \A x, y \in S : Operate(op, x, y) \in S
  BY OperateIn
<1>3. Fine \in Kinship /\ Floats \in Kinship
  BY DEF Kinship
<1>4. CASE "error" \in {l.kind, r.kind} \/ "set" \in {l.kind, r.kind}
  <2>1. v = Error
    BY <1>4 DEF ApplyBinaryOperation
  <2> HIDE DEF v
  <2>2. v \in AllValues /\ v.kind = "error"
    BY <2>1, ResultsHave
  <2>3. ~(l.kind \in Operands /\ r.kind \in Operands) /\ v.kind \notin Operands
    BY <1>4, <2>2 DEF Operands
  <2>4. QED
    BY <2>2, <2>3 DEF Combines, FineAt, v
<1>5. CASE l.kind = "scalar" /\ r.kind = "scalar"
  <2>1. v = ScalarValue(Operate(op, l.scalar, r.scalar))
    BY <1>5 DEF ApplyBinaryOperation
  <2>2. Operate(op, l.scalar, r.scalar) \in Floats
    BY <1>2, <1>3, <1>5, ResultsAre
  <2> HIDE DEF v
  <2>3. v \in AllValues /\ v.kind = "scalar" /\ v.scalar = Operate(op, l.scalar, r.scalar)
    BY <2>1, <2>2, ResultsHave
  <2>4. \A t : FineAt(l, t) /\ FineAt(r, t) => FineAt(v, t)
    BY <1>2, <1>3, <1>5, <2>3 DEF FineAt
  <2>5. QED
    BY <1>5, <2>3, <2>4 DEF Combines, HasAt, Operands, v
<1>6. CASE l.kind = "series" /\ r.kind = "scalar"
  <2> DEFINE s == [t \in DOMAIN l.series |-> Operate(op, l.series[t], r.scalar)]
  <2>1. v = SeriesValue(s)
    BY <1>6 DEF ApplyBinaryOperation
  <2>2. l.series \in AllSeries /\ r.scalar \in Floats
    BY <1>6, ResultsAre
  <2>3. s \in AllSeries
    <3>1. DOMAIN l.series \in SUBSET Instants /\ \A t \in DOMAIN l.series : l.series[t] \in Floats
      BY <2>2, SeriesAre
    <3>2. s \in [DOMAIN l.series -> Floats]
      BY <1>2, <1>3, <2>2, <3>1
    <3>3. QED
      BY <3>1, <3>2, SeriesAre
  <2> HIDE DEF v
  <2>4. v \in AllValues /\ v.kind = "series" /\ v.series = s
    BY <2>1, <2>3, ResultsHave
  <2>5. \A t : FineAt(l, t) /\ FineAt(r, t) => FineAt(v, t)
    BY <1>2, <1>3, <1>6, <2>4 DEF FineAt
  <2>6. QED
    BY <1>6, <2>4, <2>5 DEF Combines, HasAt, Operands, v
<1>7. CASE l.kind = "scalar" /\ r.kind = "series"
  <2> DEFINE s == [t \in DOMAIN r.series |-> Operate(op, l.scalar, r.series[t])]
  <2>1. v = SeriesValue(s)
    BY <1>7 DEF ApplyBinaryOperation
  <2>2. r.series \in AllSeries /\ l.scalar \in Floats
    BY <1>7, ResultsAre
  <2>3. s \in AllSeries
    <3>1. DOMAIN r.series \in SUBSET Instants /\ \A t \in DOMAIN r.series : r.series[t] \in Floats
      BY <2>2, SeriesAre
    <3>2. s \in [DOMAIN r.series -> Floats]
      BY <1>2, <1>3, <2>2, <3>1
    <3>3. QED
      BY <3>1, <3>2, SeriesAre
  <2> HIDE DEF v
  <2>4. v \in AllValues /\ v.kind = "series" /\ v.series = s
    BY <2>1, <2>3, ResultsHave
  <2>5. \A t : FineAt(l, t) /\ FineAt(r, t) => FineAt(v, t)
    BY <1>2, <1>3, <1>7, <2>4 DEF FineAt
  <2>6. QED
    BY <1>7, <2>4, <2>5 DEF Combines, HasAt, Operands, v
<1>8. CASE l.kind = "series" /\ r.kind = "series"
  <2> DEFINE T == DOMAIN l.series \cap DOMAIN r.series
             s == [t \in T |-> Operate(op, l.series[t], r.series[t])]
  <2>1. v = SeriesValue(s)
    BY <1>8 DEF ApplyBinaryOperation
  <2>2. l.series \in AllSeries /\ r.series \in AllSeries
    BY <1>8, ResultsAre
  <2>3. s \in AllSeries
    <3>1. T \in SUBSET Instants /\ \A t \in T : l.series[t] \in Floats /\ r.series[t] \in Floats
      BY <2>2, SeriesAre
    <3>2. s \in [T -> Floats]
      BY <1>2, <1>3, <3>1
    <3>3. QED
      BY <3>1, <3>2, SeriesAre
  <2> HIDE DEF v
  <2>4. v \in AllValues /\ v.kind = "series" /\ v.series = s
    BY <2>1, <2>3, ResultsHave
  <2>5. \A t : FineAt(l, t) /\ FineAt(r, t) => FineAt(v, t)
    BY <1>2, <1>3, <1>8, <2>4 DEF FineAt
  <2>6. QED
    BY <1>8, <2>4, <2>5 DEF Combines, HasAt, Operands, v
<1>9. QED
  BY <1>1, <1>4, <1>5, <1>6, <1>7, <1>8
-----------------------------------------------------------------------------
(* Many operands.                                                            *)
CombinesAll(v, values, n) ==
    /\ v \in AllValues /\ (n > 1 => v.kind # "set")
    /\ v.kind \in Operands <=> \A j \in 1..n : values[j].kind \in Operands
    /\ v.kind \in Operands => (v.kind = "series" <=> \E j \in 1..n : values[j].kind = "series")
    /\ v.kind \in Operands => \A t : HasAt(v, t) <=> \A j \in 1..n : HasAt(values[j], t)
    /\ \A t : (\A j \in 1..n : FineAt(values[j], t)) => FineAt(v, t)

(* From n operands to one more.                                              *)
LEMMA OneMore ==
    ASSUME NEW values, NEW n \in Nat \ {0}, NEW u, NEW v,
           CombinesAll(u, values, n), Combines(v, u, values[n + 1])
    PROVE  CombinesAll(v, values, n + 1)
<1>1. 1..(n + 1) = 1..n \cup {n + 1}
  OBVIOUS
<1>2. v \in AllValues /\ v.kind # "set"
  BY DEF Combines
<1>3. v.kind \in Operands <=> \A j \in 1..(n + 1) : values[j].kind \in Operands
  BY <1>1 DEF Combines, CombinesAll
<1>4. v.kind \in Operands => u.kind \in Operands
  BY DEF Combines
<1>5. v.kind \in Operands => (v.kind = "series" <=> \E j \in 1..(n + 1) : values[j].kind = "series")
  BY <1>1, <1>4 DEF Combines, CombinesAll
<1>6. v.kind \in Operands => \A t : HasAt(v, t) <=> \A j \in 1..(n + 1) : HasAt(values[j], t)
  BY <1>1, <1>4 DEF Combines, CombinesAll
<1>7. \A t : (\A j \in 1..(n + 1) : FineAt(values[j], t)) => FineAt(v, t)
  BY <1>1 DEF Combines, CombinesAll
<1>8. QED
  BY <1>2, <1>3, <1>5, <1>6, <1>7 DEF CombinesAll

(* That is what an operation does with a list of values.                     *)
LEMMA ApplyAllIs ==
    ASSUME NEW op \in Arithmetic, NEW values \in Seq(AllValues), values # << >>
    PROVE  CombinesAll(ApplyAll(op, values), values, Len(values))
<1> DEFINE n == Len(values)
           V == AllValues
           g == [p \in V \X V |-> ApplyBinaryOperation(op, p[1], p[2])]
           Step(f) == [k \in 1..n |->
                          IF k = 1 THEN values[1] ELSE ApplyBinaryOperation(op, f[k - 1], values[k])]
           upto == CHOOSE x : x = Step(x)
<1>0. n \in Nat /\ n # 0 /\ \A k \in 1..n : values[k] \in V
  OBVIOUS
<1>1. g \in [V \X V -> V] /\ \A x, y \in V : g[<<x, y>>] = ApplyBinaryOperation(op, x, y)
  <2>1. \A x, y \in V : <<x, y>> \in V \X V
    OBVIOUS
  <2>2. \A x, y \in V : ApplyBinaryOperation(op, x, y) \in V
    BY ApplyIs DEF Combines
  <2>3. QED
    BY <2>1, <2>2
<1> HIDE DEF g
<1>2. PICK f : Folding(f, values, V, g)
  BY <1>1, Folded
<1>3. f = Step(f)
  <2>1. ASSUME NEW k \in 1..n, k # 1
        PROVE  g[<<f[k - 1], values[k]>>] = ApplyBinaryOperation(op, f[k - 1], values[k])
    <3>1. k - 1 \in 1..n
      BY <1>0, <2>1
    <3>2. f[k - 1] \in V
      BY <1>2, <3>1 DEF Folding
    <3>3. QED
      BY <1>0, <1>1, <3>2
  <2>2. QED
    BY <1>2, <2>1 DEF Folding
<1>4. upto = Step(upto)
  <2> HIDE DEF Step
  <2>1. QED
    BY <1>3
<1>5. ApplyAll(op, values) = upto[n]
  BY DEF ApplyAll, Reduce
<1> HIDE DEF upto
<1>6. \A k \in 1..n : CombinesAll(upto[k], values, k)
  <2> DEFINE T == {j \in 1..n : CombinesAll(upto[j], values, j)}
  <2>1. 1 \in T
    <3>1. upto[1] = values[1] /\ 1 \in 1..n /\ 1..1 = {1} /\ ~(1 > 1)
      BY <1>0, <1>4
    <3>2. CombinesAll(values[1], values, 1)
      BY <1>0, <3>1 DEF CombinesAll
    <3>3. QED
      BY <3>1, <3>2
  <2>2. ASSUME NEW k \in 2..n, k - 1 \in T PROVE k \in T
    <3>1. k \in 1..n /\ k # 1 /\ k - 1 \in Nat \ {0} /\ (k - 1) + 1 = k
      BY <1>0
    <3>2. upto[k] = ApplyBinaryOperation(op, upto[k - 1], values[k])
      BY <1>4, <3>1
    <3>3. CombinesAll(upto[k - 1], values, k - 1)
      BY <2>2
    <3>4. Combines(upto[k], upto[k - 1], values[k])
      <4>1. upto[k - 1] \in AllValues
        BY <3>3 DEF CombinesAll
      <4>2. QED
        BY <1>0, <3>1, <3>2, <4>1, ApplyIs
    <3>5. CombinesAll(upto[k], values, (k - 1) + 1)
      BY <3>1, <3>3, <3>4, OneMore
    <3>6. QED
      BY <3>1, <3>5
  <2>3. \A k \in 1..n : k \in T
    <3> HIDE DEF T, n
    <3>1. QED
      BY <1>0, <2>1, <2>2, Upward
  <2>4. QED
    BY <2>3
<1>7. QED
  BY <1>0, <1>5, <1>6
-----------------------------------------------------------------------------
(* The recursions over expressions define functions.                         *)
OperandsOf(e, h) == [k \in 1..(Len(e.items) - 1) |-> h[e.items[k + 1]]]

EvalStep(e, h) ==
    IF e.type = "number" THEN ScalarValue(e.number)
    ELSE IF IsMetric(e) THEN MetricSet(e)
    ELSE IF IsAggregate(e) /\ h[e.items[3]].kind = "set"
    THEN SeriesValue(AggregateSeriesSet(e.items[2].name, h[e.items[3]].set))
    ELSE IF IsArithmetic(e) THEN ApplyAll(Operation(e), OperandsOf(e, h))
    ELSE Error

(* What operations have for operands.                                        *)
LEMMA OperationsAre ==
    ASSUME NEW e \in Exprs
    PROVE  /\ e.type = "number" => e.number \in Floats /\ ~IsMetric(e) /\ Operation(e) = "none"
           /\ IsMetric(e) => e \in Metrics
           /\ Operation(e) # "none" => e.type = "list"
           /\ IsAggregate(e) => 3 \in DOMAIN e.items
           /\ IsArithmetic(e) => /\ Len(e.items) >= 3 /\ Operation(e) \in Arithmetic
                                 /\ \A k \in 1..(Len(e.items) - 1) : k + 1 \in DOMAIN e.items
<1>1. e.type = "number" => e.number \in Floats
  <2>1. e.type = "number" => e \in [type : {"number"}, number : Given]
    BY ExprsAssumption DEF Other
  <2>2. QED
    BY <2>1, GivenAre
<1>2. Operation(e) # "none" => e.type = "list"
  BY DEF Operation
<1>3. e.type = "number" => ~IsMetric(e) /\ Operation(e) = "none"
  BY DEF Operation, IsMetric
<1>4. IsMetric(e) => e \in Metrics
  BY DEF Metrics
<1>5. IsAggregate(e) => 3 \in DOMAIN e.items
  <2>1. IsAggregate(e) => e.type = "list" /\ Len(e.items) = 3
    BY <1>2 DEF IsAggregate
  <2>2. QED
    BY <2>1, ItemsAre
<1>6. IsArithmetic(e) => /\ Len(e.items) >= 3 /\ Operation(e) \in Arithmetic
                         /\ \A k \in 1..(Len(e.items) - 1) : k + 1 \in DOMAIN e.items
  <2>1. IsArithmetic(e) => Operation(e) \in Arithmetic /\ e.type = "list" /\ Len(e.items) >= 3
    BY <1>2 DEF IsArithmetic, Arithmetic
  <2>2. QED
    BY <2>1, ItemsAre
<1>7. QED
  BY <1>1, <1>2, <1>3, <1>4, <1>5, <1>6

(* An expression has a value if its parts have.                              *)
LEMMA EvalStepIn ==
    ASSUME Answered, NEW e \in Exprs, NEW h,
           e.type = "list" => \A k \in DOMAIN e.items : h[e.items[k]] \in AllValues
    PROVE  EvalStep(e, h) \in AllValues
<1>1. CASE e.type = "number"
  BY <1>1, OperationsAre, ResultsHave DEF EvalStep
<1>2. CASE e.type # "number" /\ IsMetric(e)
  BY <1>2, OperationsAre, MetricSetIs DEF EvalStep
<1>3. CASE e.type # "number" /\ ~IsMetric(e) /\ IsAggregate(e) /\ h[e.items[3]].kind = "set"
  <2>1. e.type = "list" /\ 3 \in DOMAIN e.items
    BY <1>3, OperationsAre DEF IsAggregate
  <2>2. h[e.items[3]].set \in [DOMAIN Matched -> AllSeries]
    BY <1>3, <2>1, ResultsAre
  <2>3. EvalStep(e, h) = SeriesValue(AggregateSeriesSet(e.items[2].name, h[e.items[3]].set))
    BY <1>3 DEF EvalStep
  <2>4. QED
    BY <2>2, <2>3, AggregateSeriesSetIs, ResultsHave
<1>4. CASE /\ e.type # "number" /\ ~IsMetric(e) /\ ~(IsAggregate(e) /\ h[e.items[3]].kind = "set")
           /\ IsArithmetic(e)
  <2> DEFINE n == Len(e.items) - 1
             values == OperandsOf(e, h)
  <2>1. /\ e.type = "list" /\ Operation(e) \in Arithmetic /\ n \in Nat /\ n # 0
        /\ \A k \in 1..n : k + 1 \in DOMAIN e.items
    BY <1>4, OperationsAre, ItemsAre DEF Arithmetic
  <2>2. values \in [1..n -> AllValues]
    BY <2>1 DEF OperandsOf
  <2>3. values \in Seq(AllValues) /\ values # << >>
    <3> HIDE DEF values, n
    <3>1. values \in Seq(AllValues) /\ Len(values) = n
      BY <2>1, <2>2
    <3>2. QED
      BY <2>1, <3>1
  <2>4. EvalStep(e, h) = ApplyAll(Operation(e), values)
    BY <1>4 DEF EvalStep
  <2> HIDE DEF values
  <2>5. QED
    BY <2>1, <2>3, <2>4, ApplyAllIs DEF CombinesAll
<1>5. CASE /\ e.type # "number" /\ ~IsMetric(e) /\ ~(IsAggregate(e) /\ h[e.items[3]].kind = "set")
           /\ ~IsArithmetic(e)
  BY <1>5, ResultsHave DEF EvalStep
<1>6. QED
  BY <1>1, <1>2, <1>3, <1>4, <1>5

(* The recursion of evaluateAggregate defines a value for each expression.   *)
LEMMA EvalIs ==
    ASSUME Answered
    PROVE  \A e \in Exprs : Eval[e] = EvalStep(e, Eval)
<1> DEFINE V == AllValues
           H == [Exprs -> V]
           step == [a \in Exprs \X H |-> EvalStep(a[1], a[2])]
<1>1. \A e \in Exprs, h \in H : EvalStep(e, h) \in V
  <2> SUFFICES ASSUME NEW e \in Exprs, NEW h \in H PROVE EvalStep(e, h) \in V
    OBVIOUS
  <2>1. e.type = "list" => \A k \in DOMAIN e.items : h[e.items[k]] \in AllValues
    BY ItemsAre
  <2>2. QED
    BY <2>1, EvalStepIn
<1>2. ASSUME NEW e \in Exprs, NEW g \in H, NEW h \in H, Agree(e, g, h)
      PROVE  EvalStep(e, g) = EvalStep(e, h)
  <2>1. IsAggregate(e) => g[e.items[3]] = h[e.items[3]]
    BY <1>2, OperationsAre DEF Agree, IsAggregate
  <2>2. IsArithmetic(e) => OperandsOf(e, g) = OperandsOf(e, h)
    <3> SUFFICES ASSUME IsArithmetic(e) PROVE OperandsOf(e, g) = OperandsOf(e, h)
      OBVIOUS
    <3>1. e.type = "list" /\ \A k \in 1..(Len(e.items) - 1) : k + 1 \in DOMAIN e.items
      BY OperationsAre DEF IsArithmetic, Arithmetic
    <3>2. \A k \in 1..(Len(e.items) - 1) : g[e.items[k + 1]] = h[e.items[k + 1]]
      BY <1>2, <3>1 DEF Agree
    <3>3. QED
      BY <3>2 DEF OperandsOf
  <2> HIDE DEF H
  <2>3. QED
    BY <2>1, <2>2 DEF EvalStep
<1>3. \A e \in Exprs, h \in H : step[<<e, h>>] = EvalStep(e, h)
  <2> HIDE DEF H
  <2>1. QED
    OBVIOUS
<1>4. step \in [Exprs \X H -> V]
  <2> HIDE DEF H
  <2>1. \A a \in Exprs \X H : a[1] \in Exprs /\ a[2] \in H
    OBVIOUS
  <2>2. QED
    BY <1>1, <2>1
<1> HIDE DEF step
<1>5. AllValues # {}
  BY ResultsHave
<1>6. PICK h \in H : \A e \in Exprs : h[e] = step[<<e, h>>]
  <2>1. OfParts(V, step)
    BY <1>2, <1>3, <1>4, <1>5 DEF OfParts
  <2>2. QED
    BY <2>1, OnExprs
<1>7. h = [e \in Exprs |-> EvalStep(e, h)]
  <2>1. h = [e \in Exprs |-> h[e]]
    OBVIOUS
  <2>2. QED
    BY <1>3, <1>6, <2>1
<1>8. Eval = CHOOSE f : f = [e \in Exprs |-> EvalStep(e, f)]
  BY DEF Eval, EvalStep, OperandsOf
<1>9. Eval = [e \in Exprs |-> EvalStep(e, Eval)]
  BY <1>7, <1>8
<1>10. QED
  BY <1>9

(* As Eval, so KindOf and Leaves.                                            *)
AllKinds == {"scalar", "series", "set", "error"}
KindsOf(e, h) == {h[e.items[k]] : k \in 2..Len(e.items)}

KindStep(e, h) ==
    IF e.type = "number" THEN "scalar"
    ELSE IF IsMetric(e) THEN "set"
    ELSE IF IsAggregate(e) /\ h[e.items[3]] = "set" THEN "series"
    ELSE IF IsArithmetic(e) /\ KindsOf(e, h) \subseteq {"scalar", "series"}
    THEN IF "series" \in KindsOf(e, h) THEN "series" ELSE "scalar"
    ELSE "error"

(* That of KindOf a kind.                                                    *)
LEMMA KindIs ==
    \A e \in Exprs : KindOf[e] = KindStep(e, KindOf)
<1> DEFINE V == AllKinds
           H == [Exprs -> V]
           step == [a \in Exprs \X H |-> KindStep(a[1], a[2])]
<1>1. \A e, h : KindStep(e, h) \in V
  BY DEF KindStep, AllKinds
<1>2. ASSUME NEW e \in Exprs, NEW g \in H, NEW h \in H, Agree(e, g, h)
      PROVE  KindStep(e, g) = KindStep(e, h)
  <2>1. IsAggregate(e) => g[e.items[3]] = h[e.items[3]]
    BY <1>2, OperationsAre DEF Agree, IsAggregate
  <2>2. IsArithmetic(e) => KindsOf(e, g) = KindsOf(e, h)
    <3> SUFFICES ASSUME IsArithmetic(e) PROVE KindsOf(e, g) = KindsOf(e, h)
      OBVIOUS
    <3>1. e.type = "list"
      BY OperationsAre DEF IsArithmetic, Arithmetic
    <3>2. \A k \in 2..Len(e.items) : g[e.items[k]] = h[e.items[k]]
      BY <1>2, <3>1, ItemsAre DEF Agree
    <3>3. QED
      BY <3>2 DEF KindsOf
  <2> HIDE DEF H
  <2>3. QED
    BY <2>1, <2>2 DEF KindStep
<1>3. \A e \in Exprs, h \in H : step[<<e, h>>] = KindStep(e, h)
  <2> HIDE DEF H
  <2>1. QED
    OBVIOUS
<1>4. step \in [Exprs \X H -> V]
  <2> HIDE DEF H
  <2>1. QED
    BY <1>1
<1> HIDE DEF step
<1>5. PICK h \in H : \A e \in Exprs : h[e] = step[<<e, h>>]
  <2>1. V # {}
    BY DEF AllKinds
  <2>2. OfParts(V, step)
    BY <1>2, <1>3, <1>4, <2>1 DEF OfParts
  <2>3. QED
    BY <2>2, OnExprs
<1>6. h = [e \in Exprs |-> KindStep(e, h)]
  <2>1. h = [e \in Exprs |-> h[e]]
    OBVIOUS
  <2>2. QED
    BY <1>3, <1>5, <2>1
<1>7. KindOf = CHOOSE f : f = [e \in Exprs |-> KindStep(e, f)]
  BY DEF KindOf, KindStep, KindsOf
<1>8. KindOf = [e \in Exprs |-> KindStep(e, KindOf)]
  BY <1>6, <1>7
<1>9. QED
  BY <1>8

LeavesStep(e, h) ==
    IF e.type = "list" /\ ~IsMetric(e) THEN UNION {h[e.items[k]] : k \in DOMAIN e.items} ELSE {e}

(* That of Leaves the leaves.                                                *)
LEMMA LeavesAre ==
    \A e \in Exprs : Leaves[e] = LeavesStep(e, Leaves)
<1> DEFINE V == SUBSET Exprs
           H == [Exprs -> V]
           step == [a \in Exprs \X H |-> LeavesStep(a[1], a[2])]
<1>1. \A e \in Exprs, h \in H : LeavesStep(e, h) \in V
  BY ItemsAre DEF LeavesStep
<1>2. ASSUME NEW e \in Exprs, NEW g \in H, NEW h \in H, Agree(e, g, h)
      PROVE  LeavesStep(e, g) = LeavesStep(e, h)
  <2> HIDE DEF H
  <2>1. CASE e.type = "list"
    <3>1. {g[e.items[k]] : k \in DOMAIN e.items} = {h[e.items[k]] : k \in DOMAIN e.items}
      BY <1>2, <2>1 DEF Agree
    <3>2. QED
      BY <3>1 DEF LeavesStep
  <2>2. QED
    BY <2>1 DEF LeavesStep
<1>3. \A e \in Exprs, h \in H : step[<<e, h>>] = LeavesStep(e, h)
  <2> HIDE DEF H
  <2>1. QED
    OBVIOUS
<1>4. step \in [Exprs \X H -> V]
  <2> HIDE DEF H, V
  <2>1. \A a \in Exprs \X H : a[1] \in Exprs /\ a[2] \in H
    OBVIOUS
  <2>2. QED
    BY <1>1, <2>1
<1> HIDE DEF step
<1>5. PICK h \in H : \A e \in Exprs : h[e] = step[<<e, h>>]
  <2>1. V # {}
    OBVIOUS
  <2>2. OfParts(V, step)
    BY <1>2, <1>3, <1>4, <2>1 DEF OfParts
  <2>3. QED
    BY <2>2, OnExprs
<1>6. h = [e \in Exprs |-> LeavesStep(e, h)]
  <2>1. h = [e \in Exprs |-> h[e]]
    OBVIOUS
  <2>2. QED
    BY <1>3, <1>5, <2>1
<1>7. Leaves = CHOOSE f : f = [e \in Exprs |-> LeavesStep(e, f)]
  BY DEF Leaves, LeavesStep
<1>8. Leaves = [e \in Exprs |-> LeavesStep(e, Leaves)]
  BY <1>6, <1>7
<1>9. QED
  BY <1>8
AtomsStep(e, h) ==
    IF e.type = "list" THEN UNION {h[e.items[k]] : k \in DOMAIN e.items} ELSE {e}

(* That of AtomsOf the atoms.                                                *)
LEMMA AtomsAre ==
    \A e \in Exprs : AtomsOf[e] = AtomsStep(e, AtomsOf)
<1> DEFINE V == SUBSET Exprs
           H == [Exprs -> V]
           step == [a \in Exprs \X H |-> AtomsStep(a[1], a[2])]
<1>1. \A e \in Exprs, h \in H : AtomsStep(e, h) \in V
  BY ItemsAre DEF AtomsStep
<1>2. ASSUME NEW e \in Exprs, NEW g \in H, NEW h \in H, Agree(e, g, h)
      PROVE  AtomsStep(e, g) = AtomsStep(e, h)
  <2> HIDE DEF H
  <2>1. CASE e.type = "list"
    <3>1. {g[e.items[k]] : k \in DOMAIN e.items} = {h[e.items[k]] : k \in DOMAIN e.items}
      BY <1>2, <2>1 DEF Agree
    <3>2. QED
      BY <3>1 DEF AtomsStep
  <2>2. QED
    BY <2>1 DEF AtomsStep
<1>3. \A e \in Exprs, h \in H : step[<<e, h>>] = AtomsStep(e, h)
  <2> HIDE DEF H
  <2>1. QED
    OBVIOUS
<1>4. step \in [Exprs \X H -> V]
  <2> HIDE DEF H, V
  <2>1. \A a \in Exprs \X H : a[1] \in Exprs /\ a[2] \in H
    OBVIOUS
  <2>2. QED
    BY <1>1, <2>1
<1> HIDE DEF step
<1>5. PICK h \in H : \A e \in Exprs : h[e] = step[<<e, h>>]
  <2>1. V # {}
    OBVIOUS
  <2>2. OfParts(V, step)
    BY <1>2, <1>3, <1>4, <2>1 DEF OfParts
  <2>3. QED
    BY <2>2, OnExprs
<1>6. h = [e \in Exprs |-> AtomsStep(e, h)]
  <2>1. h = [e \in Exprs |-> h[e]]
    OBVIOUS
  <2>2. QED
    BY <1>3, <1>5, <2>1
<1>7. AtomsOf = CHOOSE f : f = [e \in Exprs |-> AtomsStep(e, f)]
  BY DEF AtomsOf, AtomsStep
<1>8. AtomsOf = [e \in Exprs |-> AtomsStep(e, AtomsOf)]
  BY <1>6, <1>7
<1>9. QED
  BY <1>8

(* What can be written can be, part by part.                                 *)
LEMMA TextualParts ==
    ASSUME NEW e \in Exprs, Textual(e)
    PROVE  /\ e.type = "list" => \A k \in DOMAIN e.items : Textual(e.items[k])
           /\ e.type # "list" => Atom(TextOf(e)) = e /\ TextOf(e) \notin {Open, Close}
           /\ Other \notin AtomsOf[e]
<1>1. AtomsOf[e] = AtomsStep(e, AtomsOf)
  BY AtomsAre
<1>2. ASSUME e.type = "list", NEW k \in DOMAIN e.items PROVE Textual(e.items[k])
  <2>1. AtomsOf[e.items[k]] \subseteq AtomsOf[e]
    BY <1>1, <1>2 DEF AtomsStep
  <2>2. QED
    BY <2>1 DEF Textual
<1>3. ASSUME e.type # "list" PROVE Atom(TextOf(e)) = e /\ TextOf(e) \notin {Open, Close}
  <2>1. e \in AtomsOf[e]
    BY <1>1, <1>3 DEF AtomsStep
  <2>2. QED
    BY <2>1 DEF Textual
<1>4. Other \notin AtomsOf[e]
  <2>1. \A t : Atom(t).type \in {"number", "ident"}
    BY DEF Atom, Number, Ident
  <2>2. Other.type \notin {"number", "ident"}
    BY DEF Other
  <2>3. \A x \in AtomsOf[e] : Atom(TextOf(x)) = x
    BY DEF Textual
  <2>4. QED
    BY <2>1, <2>2, <2>3
<1>5. QED
  BY <1>2, <1>3, <1>4
-----------------------------------------------------------------------------
(* What an expression means: which value it has.                             *)
Fails(e) == \E m \in MetricsOf(e), r \in OfResources : measures[<<m, r>>] = Failed
Present(e, t) ==
    \A m \in MetricsOf(e) : \E r \in OfResources :
        measures[<<m, r>>] # Gone /\ t \in DOMAIN measures[<<m, r>>]
HasNonFinite(e, t) ==
    \/ \E l \in Leaves[e] : l.type = "number" /\ ~IsFinite(l.number)
    \/ \E m \in MetricsOf(e), r \in OfResources :
          /\ measures[<<m, r>>] # Gone /\ t \in DOMAIN measures[<<m, r>>]
          /\ ~IsFinite(measures[<<m, r>>][t])

Means(e, v) ==
    /\ v \in AllValues
    /\ v.kind = IF Fails(e) THEN "error" ELSE KindOf[e]
    /\ v.kind # "error" => \A t : HasAt(v, t) <=> Present(e, t)
    /\ \A t : ~HasNonFinite(e, t) => FineAt(v, t)

(* What is no list is its own leaf, and no metric.                           *)
LEMMA OfLeaf ==
    ASSUME NEW e \in Exprs, e.type # "list"
    PROVE  Leaves[e] = {e} /\ MetricsOf(e) = {}
<1>1. Leaves[e] = {e}
  BY LeavesAre DEF LeavesStep
<1>2. QED
  BY <1>1 DEF MetricsOf

(* A list that is no metric fails, is present and not finite as its parts.   *)
LEMMA OfItems ==
    ASSUME NEW e \in Exprs, e.type = "list", ~IsMetric(e)
    PROVE  /\ Fails(e) <=> \E k \in DOMAIN e.items : Fails(e.items[k])
           /\ \A t : Present(e, t) <=> \A k \in DOMAIN e.items : Present(e.items[k], t)
           /\ \A t : HasNonFinite(e, t) <=> \E k \in DOMAIN e.items : HasNonFinite(e.items[k], t)
<1>1. Leaves[e] = UNION {Leaves[e.items[k]] : k \in DOMAIN e.items}
  BY LeavesAre DEF LeavesStep
<1>2. \A x : x \in Leaves[e] <=> \E k \in DOMAIN e.items : x \in Leaves[e.items[k]]
  BY <1>1
<1>3. \A m : m \in MetricsOf(e) <=> \E k \in DOMAIN e.items : m \in MetricsOf(e.items[k])
  BY <1>2 DEF MetricsOf
<1>4. QED
  BY <1>2, <1>3 DEF Fails, Present, HasNonFinite

(* An identifier asks nothing of the measures.                               *)
LEMMA OfIdent ==
    ASSUME NEW e \in Exprs, IsIdent(e)
    PROVE  ~Fails(e) /\ \A t : Present(e, t) /\ ~HasNonFinite(e, t)
<1>1. Leaves[e] = {e} /\ MetricsOf(e) = {}
  BY OfLeaf DEF IsIdent
<1>2. e.type # "number"
  BY DEF IsIdent
<1>3. QED
  BY <1>1, <1>2 DEF Fails, Present, HasNonFinite

(* A number means itself at every instant.                                   *)
LEMMA NumberMeans ==
    ASSUME Answered, NEW e \in Exprs, e.type = "number"
    PROVE  Means(e, Eval[e])
<1> DEFINE v == Eval[e]
<1>1. v = ScalarValue(e.number) /\ KindOf[e] = "scalar"
  BY EvalIs, KindIs DEF EvalStep, KindStep
<1>2. e.number \in Floats /\ e.number \in Given
  <2>1. e \in [type : {"number"}, number : Given]
    BY ExprsAssumption DEF Other
  <2>2. QED
    BY <2>1, GivenAre
<1> HIDE DEF v
<1>3. v \in AllValues /\ v.kind = "scalar" /\ v.scalar = e.number
  BY <1>1, <1>2, ResultsHave
<1>4. Leaves[e] = {e} /\ MetricsOf(e) = {}
  BY OfLeaf
<1>5. ~Fails(e) /\ \A t : Present(e, t)
  BY <1>4 DEF Fails, Present
<1>6. \A t : HasAt(v, t)
  BY <1>3 DEF HasAt
<1>7. \A t : ~HasNonFinite(e, t) => FineAt(v, t)
  <2>1. ASSUME NEW t, ~HasNonFinite(e, t) PROVE e.number \in Fine
    <3>1. IsFinite(e.number)
      BY <1>4, <2>1 DEF HasNonFinite
    <3>2. QED
      BY <1>2, <3>1, GivenAre
  <2>2. QED
    BY <1>3, <2>1 DEF FineAt
<1>8. QED
  BY <1>1, <1>3, <1>5, <1>6, <1>7 DEF Means, v

(* A metric means its answers for the resources.                             *)
LEMMA MetricMeans ==
    ASSUME Answered, NEW e \in Exprs, IsMetric(e)
    PROVE  Means(e, Eval[e])
<1> DEFINE v == Eval[e]
<1>1. e \in Metrics /\ e.type # "number" /\ e.type = "list"
  BY OperationsAre DEF IsMetric
<1>2. v = MetricSet(e) /\ KindOf[e] = "set"
  BY <1>1, EvalIs, KindIs DEF EvalStep, KindStep
<1>3. Leaves[e] = {e}
  BY LeavesAre DEF LeavesStep
<1>4. MetricsOf(e) = {e}
  BY <1>1, <1>3 DEF MetricsOf
<1> HIDE DEF v
<1>5. /\ v \in AllValues
      /\ v.kind = IF \E r \in OfResources : measures[<<e, r>>] = Failed THEN "error" ELSE "set"
      /\ v.kind = "set" =>
           \A k \in DOMAIN Matched : \A t :
              /\ t \in DOMAIN v.set[k] <=>
                    measures[<<e, Matched[k]>>] # Gone /\ t \in DOMAIN measures[<<e, Matched[k]>>]
              /\ t \in DOMAIN v.set[k] => v.set[k][t] = measures[<<e, Matched[k]>>][t]
  BY <1>1, <1>2, MetricSetIs
<1>6. Fails(e) <=> \E r \in OfResources : measures[<<e, r>>] = Failed
  BY <1>4 DEF Fails
<1>7. v.kind = "set" => DOMAIN v.set = DOMAIN Matched /\ v.set \in [DOMAIN Matched -> AllSeries]
  BY <1>5, ResultsAre
<1>8. v.kind = "set" => \A t : HasAt(v, t) <=> Present(e, t)
  <2> SUFFICES ASSUME v.kind = "set", NEW t PROVE HasAt(v, t) <=> Present(e, t)
    OBVIOUS
  <2>1. HasAt(v, t) <=> \E k \in DOMAIN Matched : t \in DOMAIN v.set[k]
    BY <1>7 DEF HasAt
  <2>2. Present(e, t) <=> \E r \in OfResources :
                             measures[<<e, r>>] # Gone /\ t \in DOMAIN measures[<<e, r>>]
    BY <1>4 DEF Present
  <2>3. \A k \in DOMAIN Matched :
           t \in DOMAIN v.set[k] <=>
              measures[<<e, Matched[k]>>] # Gone /\ t \in DOMAIN measures[<<e, Matched[k]>>]
    BY <1>5
  <2>4. HasAt(v, t) => Present(e, t)
    BY <2>1, <2>2, <2>3, MatchedAre
  <2>5. Present(e, t) => HasAt(v, t)
    <3> SUFFICES ASSUME NEW r \in OfResources,
                        measures[<<e, r>>] # Gone /\ t \in DOMAIN measures[<<e, r>>]
                 PROVE  HasAt(v, t)
      BY <2>2
    <3>1. PICK k \in DOMAIN Matched : r = Matched[k]
      BY MatchedAre
    <3>2. QED
      BY <2>1, <2>3, <3>1
  <2>6. QED
    BY <2>4, <2>5
<1>9. ASSUME NEW t, ~HasNonFinite(e, t)
      PROVE  FineAt(v, t)
  <2>1. \A r \in OfResources : measures[<<e, r>>] # Gone /\ t \in DOMAIN measures[<<e, r>>]
                                  => IsFinite(measures[<<e, r>>][t])
    BY <1>4, <1>9 DEF HasNonFinite
  <2>2. ASSUME v.kind = "set", NEW k \in DOMAIN v.set, t \in DOMAIN v.set[k]
        PROVE  v.set[k][t] \in Fine
    <3>1. k \in DOMAIN Matched /\ Matched[k] \in OfResources
      BY <1>7, <2>2, MatchedAre
    <3>2. /\ measures[<<e, Matched[k]>>] # Gone /\ t \in DOMAIN measures[<<e, Matched[k]>>]
          /\ v.set[k][t] = measures[<<e, Matched[k]>>][t]
      BY <1>5, <2>2, <3>1
    <3>3. measures[<<e, Matched[k]>>] # Failed
      BY <1>5, <2>2, <3>1
    <3>4. measures[<<e, Matched[k]>>] \in Answers
      BY <1>1, <3>1 DEF Answered
    <3>5. v.set[k][t] \in Given
      BY <3>2, <3>3, <3>4, AnswersAssumption
    <3>6. QED
      BY <2>1, <3>1, <3>2, <3>5, GivenAre
  <2>3. v.kind \in {"set", "error"}
    BY <1>5
  <2>4. QED
    BY <2>2, <2>3 DEF FineAt
<1>10. QED
  BY <1>2, <1>5, <1>6, <1>8, <1>9 DEF Means, v

(* An aggregate means what its operand does, if that is a set.               *)
LEMMA AggregateMeans ==
    ASSUME Answered, NEW e \in Exprs, IsAggregate(e), Means(e.items[3], Eval[e.items[3]])
    PROVE  Means(e, Eval[e])
<1> DEFINE v == Eval[e]
           set == Eval[e.items[3]]
           agg == AggregateSeriesSet(e.items[2].name, set.set)
<1>1. /\ e.type = "list" /\ e.type # "number" /\ ~IsMetric(e) /\ ~IsArithmetic(e)
      /\ Operation(e) = "aggregate" /\ Len(e.items) = 3 /\ DOMAIN e.items = 1..3
      /\ \A k \in 1..3 : e.items[k] \in Exprs
  <2>1. Operation(e) = "aggregate" /\ Len(e.items) = 3
    BY DEF IsAggregate
  <2>2. e.type = "list"
    BY <2>1, OperationsAre
  <2>3. ~IsMetric(e) /\ ~IsArithmetic(e)
    BY <2>1 DEF IsMetric, IsArithmetic, Arithmetic
  <2>4. QED
    BY <2>1, <2>2, <2>3, ItemsAre
<1>2. IsIdent(e.items[1]) /\ IsIdent(e.items[2])
  BY <1>1 DEF IsAggregate, Operation
<1>3. 1..3 = {1, 2, 3}
  OBVIOUS
<1>4. /\ Fails(e) <=> Fails(e.items[3])
      /\ \A t : Present(e, t) <=> Present(e.items[3], t)
      /\ \A t : HasNonFinite(e, t) <=> HasNonFinite(e.items[3], t)
  <2>1. \A k \in {1, 2} : ~Fails(e.items[k]) /\ \A t : Present(e.items[k], t) /\ ~HasNonFinite(e.items[k], t)
    BY <1>1, <1>2, <1>3, OfIdent
  <2>2. QED
    BY <1>1, <1>3, <2>1, OfItems
<1>5. KindOf[e] = IF KindOf[e.items[3]] = "set" THEN "series" ELSE "error"
  BY <1>1, KindIs DEF KindStep
<1>6. v = IF set.kind = "set" THEN SeriesValue(agg) ELSE Error
  BY <1>1, EvalIs DEF EvalStep
<1>7. set \in AllValues /\ set.kind = IF Fails(e) THEN "error" ELSE KindOf[e.items[3]]
  BY <1>4 DEF Means
<1>8. CASE set.kind = "set"
  <2>1. set.set \in [DOMAIN Matched -> AllSeries]
    BY <1>7, <1>8, ResultsAre
  <2>2. /\ agg \in AllSeries
        /\ \A t : t \in DOMAIN agg <=> HasAt(set, t)
        /\ \A t \in DOMAIN agg : FineAt(set, t) => agg[t] \in Fine
    BY <1>8, <2>1, AggregateSeriesSetIs DEF HasAt, FineAt
  <2> HIDE DEF agg, v
  <2>3. v \in AllValues /\ v.kind = "series" /\ v.series = agg
    BY <1>6, <1>8, <2>2, ResultsHave
  <2>4. v.kind = IF Fails(e) THEN "error" ELSE KindOf[e]
    BY <1>5, <1>7, <1>8, <2>3
  <2>5. \A t : HasAt(v, t) <=> Present(e, t)
    BY <1>4, <1>8, <2>2, <2>3 DEF HasAt, Means
  <2>6. \A t : ~HasNonFinite(e, t) => FineAt(v, t)
    BY <1>4, <2>2, <2>3 DEF FineAt, Means
  <2>7. QED
    BY <2>3, <2>4, <2>5, <2>6 DEF Means, v
<1>9. CASE set.kind # "set"
  <2> HIDE DEF v, set
  <2>1. v \in AllValues /\ v.kind = "error"
    BY <1>6, <1>9, ResultsHave
  <2>2. QED
    BY <1>5, <1>7, <1>9, <2>1 DEF Means, FineAt, v
<1>10. QED
  BY <1>8, <1>9

(* An operation means what all of its operands do.                           *)
LEMMA ArithmeticMeans ==
    ASSUME Answered, NEW e \in Exprs, IsArithmetic(e),
           \A k \in DOMAIN e.items : Means(e.items[k], Eval[e.items[k]])
    PROVE  Means(e, Eval[e])
<1> DEFINE v == Eval[e]
           n == Len(e.items) - 1
           values == OperandsOf(e, Eval)
           some == \E k \in DOMAIN e.items : Fails(e.items[k])
           kinds == KindsOf(e, KindOf)
<1>1. /\ e.type = "list" /\ e.type # "number" /\ ~IsMetric(e) /\ ~IsAggregate(e)
      /\ Operation(e) \in Arithmetic /\ n \in Nat /\ n > 1 /\ DOMAIN e.items = 1..(n + 1)
      /\ \A k \in DOMAIN e.items : e.items[k] \in Exprs
  <2>1. Operation(e) \in Arithmetic /\ Len(e.items) >= 3
    BY DEF IsArithmetic
  <2>2. e.type = "list"
    BY <2>1, OperationsAre DEF Arithmetic
  <2>3. ~IsMetric(e) /\ ~IsAggregate(e)
    BY <2>1 DEF IsMetric, IsAggregate, Arithmetic
  <2>4. QED
    BY <2>1, <2>2, <2>3, ItemsAre
<1>2. IsIdent(e.items[1])
  BY <1>1 DEF Operation, Arithmetic
<1>3. /\ \A j \in 1..n : j + 1 \in DOMAIN e.items /\ values[j] = Eval[e.items[j + 1]]
      /\ values \in Seq(AllValues) /\ values # << >> /\ Len(values) = n
  <2>1. \A j \in 1..n : j + 1 \in DOMAIN e.items
    BY <1>1
  <2>2. \A j \in 1..n : values[j] = Eval[e.items[j + 1]]
    BY DEF OperandsOf
  <2>3. \A j \in 1..n : Eval[e.items[j + 1]] \in AllValues
    BY <2>1 DEF Means
  <2>4. values \in [1..n -> AllValues]
    BY <2>3 DEF OperandsOf
  <2> HIDE DEF values, n
  <2>5. values \in Seq(AllValues) /\ Len(values) = n
    BY <1>1, <2>4
  <2>6. QED
    BY <1>1, <2>1, <2>2, <2>5
<1>4. v = ApplyAll(Operation(e), values)
  BY <1>1, EvalIs DEF EvalStep
<1> HIDE DEF v, values, n
<1>5. CombinesAll(v, values, n)
  BY <1>1, <1>3, <1>4, ApplyAllIs
<1>6. \A k \in DOMAIN e.items : k = 1 \/ \E j \in 1..n : k = j + 1
  <2>1. \A k \in DOMAIN e.items : k # 1 => k - 1 \in 1..n /\ k = (k - 1) + 1
    BY <1>1
  <2>2. QED
    BY <2>1
<1>7. 1 \in DOMAIN e.items /\ ~Fails(e.items[1])
      /\ \A t : Present(e.items[1], t) /\ ~HasNonFinite(e.items[1], t)
  BY <1>1, <1>2, OfIdent
<1>8. /\ Fails(e) <=> \E j \in 1..n : Fails(e.items[j + 1])
      /\ \A t : Present(e, t) <=> \A j \in 1..n : Present(e.items[j + 1], t)
      /\ \A t : HasNonFinite(e, t) <=> \E j \in 1..n : HasNonFinite(e.items[j + 1], t)
  <2>1. /\ Fails(e) <=> \E k \in DOMAIN e.items : Fails(e.items[k])
        /\ \A t : Present(e, t) <=> \A k \in DOMAIN e.items : Present(e.items[k], t)
        /\ \A t : HasNonFinite(e, t) <=> \E k \in DOMAIN e.items : HasNonFinite(e.items[k], t)
    BY <1>1, OfItems
  <2>2. QED
    BY <1>3, <1>6, <1>7, <2>1
<1>9. \A j \in 1..n :
         /\ values[j].kind = IF Fails(e.items[j + 1]) THEN "error" ELSE KindOf[e.items[j + 1]]
         /\ values[j].kind # "error" => \A t : HasAt(values[j], t) <=> Present(e.items[j + 1], t)
         /\ \A t : ~HasNonFinite(e.items[j + 1], t) => FineAt(values[j], t)
  BY <1>3 DEF Means
<1>10. kinds = {KindOf[e.items[j + 1]] : j \in 1..n}
  <2>1. \A k \in 2..Len(e.items) : k - 1 \in 1..n /\ k = (k - 1) + 1
    BY <1>1 DEF n
  <2>2. \A j \in 1..n : j + 1 \in 2..Len(e.items)
    BY <1>1 DEF n
  <2>3. QED
    BY <2>1, <2>2 DEF KindsOf
<1>11. KindOf[e] = IF kinds \subseteq Operands THEN IF "series" \in kinds THEN "series" ELSE "scalar"
                   ELSE "error"
  BY <1>1, KindIs DEF KindStep, Operands
<1> HIDE DEF kinds
<1>12. v.kind = IF Fails(e) THEN "error" ELSE KindOf[e]
  <2>1. v.kind \in {"scalar", "series", "error"}
    BY <1>1, <1>5, ResultsAre DEF CombinesAll
  <2>2. CASE Fails(e)
    <3>1. PICK j \in 1..n : values[j].kind = "error"
      BY <1>8, <1>9, <2>2
    <3>2. v.kind \notin Operands
      BY <1>5, <3>1 DEF CombinesAll, Operands
    <3>3. QED
      BY <2>1, <2>2, <3>2 DEF Operands
  <2>3. CASE ~Fails(e)
    <3>1. \A j \in 1..n : values[j].kind = KindOf[e.items[j + 1]]
      BY <1>8, <1>9, <2>3
    <3>2. v.kind \in Operands <=> kinds \subseteq Operands
      BY <1>5, <1>10, <3>1 DEF CombinesAll
    <3>3. v.kind \in Operands => (v.kind = "series" <=> "series" \in kinds)
      BY <1>5, <1>10, <3>1 DEF CombinesAll
    <3>4. QED
      BY <1>11, <2>1, <2>3, <3>2, <3>3 DEF Operands
  <2>4. QED
    BY <2>2, <2>3
<1>13. ASSUME v.kind # "error", NEW t
       PROVE  HasAt(v, t) <=> Present(e, t)
  <2>1. v.kind \in Operands
    BY <1>1, <1>5, <1>13, ResultsAre DEF CombinesAll, Operands
  <2>2. HasAt(v, t) <=> \A j \in 1..n : HasAt(values[j], t)
    BY <1>5, <2>1 DEF CombinesAll
  <2>3. \A j \in 1..n : values[j].kind # "error"
    BY <1>5, <2>1 DEF CombinesAll, Operands
  <2>4. QED
    BY <1>8, <1>9, <2>2, <2>3
<1>14. \A t : ~HasNonFinite(e, t) => FineAt(v, t)
  BY <1>5, <1>8, <1>9 DEF CombinesAll
<1>15. v \in AllValues
  BY <1>5 DEF CombinesAll
<1>16. QED
  BY <1>12, <1>13, <1>14, <1>15 DEF Means, v

(* What is none of these is an error.                                        *)
LEMMA NothingMeans ==
    ASSUME Answered, NEW e \in Exprs, e.type # "number",
           ~IsMetric(e), ~IsAggregate(e), ~IsArithmetic(e)
    PROVE  Means(e, Eval[e])
<1>1. Eval[e] = Error /\ KindOf[e] = "error"
  BY EvalIs, KindIs DEF EvalStep, KindStep
<1>2. Eval[e] \in AllValues /\ Eval[e].kind = "error"
  BY <1>1, ResultsHave
<1>3. QED
  BY <1>1, <1>2 DEF Means, FineAt

(* Every expression means what its metrics and numbers say, at any nesting.  *)
LEMMA EvalMeans ==
    ASSUME Answered
    PROVE  \A e \in Exprs : Means(e, Eval[e])
<1> DEFINE T == {e \in Exprs : Means(e, Eval[e])}
<1>1. ASSUME NEW e \in Exprs, e.type = "list" => \A k \in DOMAIN e.items : e.items[k] \in T
      PROVE  e \in T
  <2>1. CASE e.type = "number"
    BY <2>1, NumberMeans
  <2>2. CASE IsMetric(e)
    BY <2>2, MetricMeans
  <2>3. CASE IsAggregate(e)
    <3>1. e.type = "list" /\ 3 \in DOMAIN e.items
      BY <2>3, OperationsAre DEF IsAggregate
    <3>2. QED
      BY <1>1, <2>3, <3>1, AggregateMeans
  <2>4. CASE IsArithmetic(e)
    <3>1. e.type = "list"
      BY <2>4, OperationsAre DEF IsArithmetic, Arithmetic
    <3>2. QED
      BY <1>1, <2>4, <3>1, ArithmeticMeans
  <2>5. QED
    BY <2>1, <2>2, <2>3, <2>4, NothingMeans
<1>2. \A e \in Exprs : e \in T
  <2> HIDE DEF T
  <2>1. QED
    BY <1>1, OnParts
<1>3. QED
  BY <1>2
-----------------------------------------------------------------------------
(* What a client writes for an expression.                                   *)
Tokens == STRING \cup {Open, Close, "null"}
PartsOf(e, h) ==
    [k \in 1..(Len(e.items) + 2) |->
        IF k = 1 THEN <<Open>> ELSE IF k = Len(e.items) + 2 THEN <<Close>> ELSE h[e.items[k - 1]]]
PutTogether(parts) == Reduce(Concat, parts)
WriteStep(e, h) == IF e.type # "list" THEN <<TextOf(e)>> ELSE PutTogether(PartsOf(e, h))

(* Numbers, identifiers and others are a token each.                         *)
LEMMA TextIn ==
    ASSUME NEW e \in Exprs, e.type # "list"
    PROVE  TextOf(e) \in Tokens
<1>1. CASE e.type = "number"
  <2>1. \E t \in DOMAIN ParseFloat : ParseFloat[t] = e.number
    BY <1>1, ExprsAssumption DEF Other
  <2>2. TextOf(e) \in DOMAIN ParseFloat
    BY <1>1, <2>1 DEF TextOf
  <2>3. QED
    BY <2>2, FloatAssumption DEF Tokens
<1>2. CASE IsIdent(e)
  <2>1. e \in [type : {"ident"}, name : STRING]
    BY <1>2, ExprsAssumption DEF Other, IsIdent
  <2>2. e.name \in STRING /\ e.type # "number"
    BY <2>1
  <2>3. QED
    BY <1>2, <2>2 DEF TextOf, Tokens
<1>3. CASE e.type # "number" /\ ~IsIdent(e)
  BY <1>3 DEF TextOf, Tokens
<1>4. QED
  BY <1>1, <1>2, <1>3

(* As Concatenated, with what stands where.                                  *)
Pieces(upto, parts, all) ==
    /\ upto \in [1..Len(parts) -> Seq(Tokens)]
    /\ \A k \in 1..Len(parts) : upto[k] = IF k = 1 THEN parts[1] ELSE upto[k - 1] \o parts[k]
    /\ all = upto[Len(parts)]

(* What is written for a list has a start for each of its parts.             *)
LEMMA PartsIn ==
    ASSUME NEW e \in Exprs, e.type = "list", NEW h,
           \A k \in DOMAIN e.items : h[e.items[k]] \in Seq(Tokens)
    PROVE  /\ PartsOf(e, h) \in Seq(Seq(Tokens)) /\ PartsOf(e, h) # << >>
           /\ Len(PartsOf(e, h)) = Len(e.items) + 2
           /\ PutTogether(PartsOf(e, h)) \in Seq(Tokens)
           /\ \E upto : Pieces(upto, PartsOf(e, h), PutTogether(PartsOf(e, h)))
<1> DEFINE parts == PartsOf(e, h)
           n == Len(e.items)
<1>1. n \in Nat /\ DOMAIN e.items = 1..n
  BY ItemsAre
<1>2. <<Open>> \in Seq(Tokens) /\ <<Close>> \in Seq(Tokens)
  <2>1. Open \in Tokens /\ Close \in Tokens
    BY DEF Tokens
  <2>2. QED
    BY <2>1
<1>3. \A k \in 1..(n + 2) : parts[k] \in Seq(Tokens)
  <2>1. \A k \in 1..(n + 2) : k = 1 \/ k = n + 2 \/ k - 1 \in 1..n
    BY <1>1
  <2>2. QED
    BY <1>1, <1>2, <2>1 DEF PartsOf
<1>4. parts \in [1..(n + 2) -> Seq(Tokens)]
  BY <1>3 DEF PartsOf
<1> HIDE DEF parts
<1>5. parts \in Seq(Seq(Tokens)) /\ Len(parts) = n + 2 /\ parts # << >>
  <2> DEFINE m == n + 2
  <2>1. m \in Nat /\ m # 0 /\ parts \in [1..m -> Seq(Tokens)]
    BY <1>1, <1>4
  <2> HIDE DEF m
  <2>2. parts \in Seq(Seq(Tokens)) /\ Len(parts) = m
    BY <2>1
  <2>3. QED
    BY <2>1, <2>2 DEF m
<1>6. PICK upto \in [1..Len(parts) -> Seq(Tokens)] :
         /\ \A k \in 1..Len(parts) : upto[k] = IF k = 1 THEN parts[1] ELSE upto[k - 1] \o parts[k]
         /\ Reduce(Concat, parts) = upto[Len(parts)]
  BY <1>5, Concatenated
<1>7. PutTogether(parts) = upto[Len(parts)]
  BY <1>6 DEF PutTogether
<1>8. Pieces(upto, parts, PutTogether(parts))
  BY <1>6, <1>7 DEF Pieces
<1>9. PutTogether(parts) \in Seq(Tokens)
  <2>1. Len(parts) \in 1..Len(parts)
    BY <1>1, <1>5
  <2>2. QED
    BY <1>6, <1>7, <2>1
<1>10. QED
  BY <1>5, <1>8, <1>9 DEF parts

(* The recursion of a client that writes an expression defines tokens.       *)
LEMMA WrittenAre ==
    \A e \in Exprs : Written[e] = WriteStep(e, Written)
<1> DEFINE V == Seq(Tokens)
           H == [Exprs -> V]
           step == [a \in Exprs \X H |-> WriteStep(a[1], a[2])]
<1>1. \A e \in Exprs, h \in H : WriteStep(e, h) \in V
  <2> SUFFICES ASSUME NEW e \in Exprs, NEW h \in H PROVE WriteStep(e, h) \in V
    OBVIOUS
  <2>1. CASE e.type # "list"
    <3>1. TextOf(e) \in Tokens /\ WriteStep(e, h) = <<TextOf(e)>>
      BY <2>1, TextIn DEF WriteStep
    <3>2. \A x \in Tokens : <<x>> \in Seq(Tokens)
      OBVIOUS
    <3>3. QED
      BY <3>1, <3>2
  <2>2. CASE e.type = "list"
    <3>1. \A k \in DOMAIN e.items : h[e.items[k]] \in Seq(Tokens)
      BY <2>2, ItemsAre
    <3>2. QED
      BY <2>2, <3>1, PartsIn DEF WriteStep
  <2>3. QED
    BY <2>1, <2>2
<1>2. ASSUME NEW e \in Exprs, NEW g \in H, NEW h \in H, Agree(e, g, h)
      PROVE  WriteStep(e, g) = WriteStep(e, h)
  <2> HIDE DEF H
  <2>1. CASE e.type = "list"
    <3>1. Len(e.items) \in Nat /\ DOMAIN e.items = 1..Len(e.items)
      BY <2>1, ItemsAre
    <3>2. \A k \in 1..(Len(e.items) + 2) : k = 1 \/ k = Len(e.items) + 2 \/ k - 1 \in DOMAIN e.items
      BY <3>1
    <3>3. PartsOf(e, g) = PartsOf(e, h)
      BY <1>2, <2>1, <3>2 DEF Agree, PartsOf
    <3>4. QED
      BY <3>3 DEF WriteStep
  <2>2. QED
    BY <2>1 DEF WriteStep
<1>3. \A e \in Exprs, h \in H : step[<<e, h>>] = WriteStep(e, h)
  <2> HIDE DEF H
  <2>1. QED
    OBVIOUS
<1>4. step \in [Exprs \X H -> V]
  <2> HIDE DEF H, V
  <2>1. \A a \in Exprs \X H : a[1] \in Exprs /\ a[2] \in H
    OBVIOUS
  <2>2. QED
    BY <1>1, <2>1
<1> HIDE DEF step
<1>5. PICK h \in H : \A e \in Exprs : h[e] = step[<<e, h>>]
  <2>1. V # {}
    <3>1. << >> \in V
      OBVIOUS
    <3>2. QED
      BY <3>1
  <2> HIDE DEF V
  <2>2. OfParts(V, step)
    BY <1>2, <1>3, <1>4, <2>1 DEF OfParts
  <2>3. QED
    BY <2>2, OnExprs
<1>6. h = [e \in Exprs |-> WriteStep(e, h)]
  <2>1. h = [e \in Exprs |-> h[e]]
    OBVIOUS
  <2>2. QED
    BY <1>3, <1>5, <2>1
<1>7. Written = CHOOSE f : f = [e \in Exprs |-> WriteStep(e, f)]
  BY DEF Written, WriteStep, PutTogether, PartsOf
<1>8. Written = [e \in Exprs |-> WriteStep(e, Written)]
  BY <1>6, <1>7
<1>9. QED
  BY <1>8

(* What is written has tokens only.                                          *)
LEMMA WrittenIn ==
    \A e \in Exprs : Written[e] \in Seq(Tokens)
<1> DEFINE T == {e \in Exprs : Written[e] \in Seq(Tokens)}
<1>1. ASSUME NEW e \in Exprs, e.type = "list" => \A k \in DOMAIN e.items : e.items[k] \in T
      PROVE  e \in T
  <2>1. CASE e.type # "list"
    <3>1. TextOf(e) \in Tokens /\ Written[e] = <<TextOf(e)>>
      BY <2>1, WrittenAre, TextIn DEF WriteStep
    <3>2. \A x \in Tokens : <<x>> \in Seq(Tokens)
      OBVIOUS
    <3>3. QED
      BY <3>1, <3>2
  <2>2. CASE e.type = "list"
    BY <1>1, <2>2, WrittenAre, PartsIn DEF WriteStep
  <2>3. QED
    BY <2>1, <2>2
<1>2. \A e \in Exprs : e \in T
  <2> HIDE DEF T
  <2>1. QED
    BY <1>1, OnParts
<1>3. QED
  BY <1>2

(* Where the parts of a list stand in what is written for it.                *)
Laid(e, start) ==
    LET n == Len(e.items)
        w == Written[e]
    IN /\ start \in [1..(n + 1) -> Nat] /\ start[1] = 1 /\ Len(w) = start[n + 1] + 1
       /\ w[1] = Open /\ w[start[n + 1] + 1] = Close
       /\ \A k \in 1..n :
             /\ start[k + 1] = start[k] + Len(Written[e.items[k]])
             /\ \A j \in 1..Len(Written[e.items[k]]) : w[start[k] + j] = Written[e.items[k]][j]

(* What stands where in two sequences, one after the other.                  *)
LEMMA ConcatFacts ==
    ASSUME NEW S, NEW a \in Seq(S), NEW b \in Seq(S)
    PROVE  /\ a \o b \in Seq(S) /\ Len(a) \in Nat /\ Len(b) \in Nat
           /\ Len(a \o b) = Len(a) + Len(b)
           /\ \A j \in 1..Len(a) : (a \o b)[j] = a[j]
           /\ \A j \in 1..Len(b) : (a \o b)[Len(a) + j] = b[j]
OBVIOUS

Begins(a, b) == Len(a) <= Len(b) /\ \A j \in 1..Len(a) : b[j] = a[j]

(* What begins a beginning begins the whole.                                 *)
LEMMA BeginsOn ==
    ASSUME NEW a, NEW b, NEW c, Len(a) \in Nat, Len(b) \in Nat, Len(c) \in Nat,
           Begins(a, b), Begins(b, c)
    PROVE  Begins(a, c)
BY DEF Begins

(* Each piece begins what is written, and stands after the one before it.    *)
LEMMA PiecesBegin ==
    ASSUME NEW parts \in Seq(Seq(Tokens)), NEW upto, NEW w, Pieces(upto, parts, w)
    PROVE  /\ \A k \in 1..Len(parts) : Begins(upto[k], w) /\ upto[k] \in Seq(Tokens)
           /\ \A k \in 2..Len(parts) :
                 /\ Len(upto[k]) = Len(upto[k - 1]) + Len(parts[k])
                 /\ \A j \in 1..Len(parts[k]) : w[Len(upto[k - 1]) + j] = parts[k][j]
           /\ Len(parts) # 0 => upto[1] = parts[1] /\ w = upto[Len(parts)]
<1> DEFINE n == Len(parts)
<1>1. n \in Nat /\ \A k \in 1..n : parts[k] \in Seq(Tokens) /\ upto[k] \in Seq(Tokens)
  <2>1. n \in Nat /\ \A k \in 1..n : parts[k] \in Seq(Tokens)
    OBVIOUS
  <2>2. upto \in [1..n -> Seq(Tokens)]
    BY DEF Pieces
  <2>3. QED
    BY <2>1, <2>2
<1>2. \A k \in 2..n : k \in 1..n /\ k - 1 \in 1..n /\ k # 1
  BY <1>1
<1>3. \A k \in 2..n :
         /\ upto[k] = upto[k - 1] \o parts[k]
         /\ Len(upto[k - 1]) \in Nat /\ Len(parts[k]) \in Nat
         /\ Len(upto[k]) = Len(upto[k - 1]) + Len(parts[k])
         /\ Begins(upto[k - 1], upto[k])
         /\ \A j \in 1..Len(parts[k]) : upto[k][Len(upto[k - 1]) + j] = parts[k][j]
  <2> SUFFICES ASSUME NEW k \in 2..n
               PROVE  /\ upto[k] = upto[k - 1] \o parts[k]
                      /\ Len(upto[k - 1]) \in Nat /\ Len(parts[k]) \in Nat
                      /\ Len(upto[k]) = Len(upto[k - 1]) + Len(parts[k])
                      /\ Begins(upto[k - 1], upto[k])
                      /\ \A j \in 1..Len(parts[k]) : upto[k][Len(upto[k - 1]) + j] = parts[k][j]
    OBVIOUS
  <2>1. upto[k] = upto[k - 1] \o parts[k]
    BY <1>2 DEF Pieces
  <2> DEFINE a == upto[k - 1]
             b == parts[k]
  <2>2. a \in Seq(Tokens) /\ b \in Seq(Tokens)
    BY <1>1, <1>2
  <2>3. upto[k] = a \o b
    BY <2>1
  <2> HIDE DEF a, b
  <2>4. /\ Len(a) \in Nat /\ Len(b) \in Nat /\ Len(upto[k]) = Len(a) + Len(b)
        /\ Begins(a, upto[k])
        /\ \A j \in 1..Len(b) : upto[k][Len(a) + j] = b[j]
    BY <2>2, <2>3, ConcatFacts DEF Begins
  <2>5. QED
    BY <2>1, <2>4 DEF a, b
<1>4. \A m \in 1..n : \A k \in 1..m : Begins(upto[k], upto[m])
  <2> DEFINE T == {m \in 1..n : \A k \in 1..m : Begins(upto[k], upto[m])}
  <2>1. n # 0 => 1 \in T
    <3>1. \A k \in 1..1 : k = 1
      OBVIOUS
    <3>2. n # 0 => 1 \in 1..n /\ Len(upto[1]) \in Nat
      BY <1>1
    <3>3. QED
      BY <3>1, <3>2 DEF Begins
  <2>2. ASSUME NEW m \in 2..n, m - 1 \in T PROVE m \in T
    <3>1. ASSUME NEW k \in 1..m PROVE Begins(upto[k], upto[m])
      <4>1. CASE k = m
        <5>1. Len(upto[m]) \in Nat
          BY <1>1, <1>2
        <5>2. QED
          BY <4>1, <5>1 DEF Begins
      <4>2. CASE k # m
        <5>1. k \in 1..(m - 1) /\ k \in 1..n
          BY <1>1, <4>2
        <5>2. Begins(upto[k], upto[m - 1]) /\ Begins(upto[m - 1], upto[m])
          BY <1>3, <2>2, <5>1
        <5>3. Len(upto[k]) \in Nat /\ Len(upto[m - 1]) \in Nat /\ Len(upto[m]) \in Nat
          BY <1>1, <1>2, <5>1
        <5>4. QED
          BY <5>2, <5>3, BeginsOn
      <4>3. QED
        BY <4>1, <4>2
    <3>2. QED
      BY <1>2, <3>1
  <2>3. \A m \in 1..n : m \in T
    <3> HIDE DEF T, n
    <3>1. QED
      BY <1>1, <2>1, <2>2, Upward
  <2>4. QED
    BY <2>3
<1>5. n # 0 => w = upto[n] /\ upto[1] = parts[1]
  <2>1. n # 0 => 1 \in 1..n
    BY <1>1
  <2>2. QED
    BY <2>1 DEF Pieces
<1>6. \A k \in 1..n : Begins(upto[k], w)
  <2>1. \A k \in 1..n : n \in 1..n /\ n # 0
    BY <1>1
  <2>2. QED
    BY <1>4, <1>5, <2>1
<1>7. ASSUME NEW k \in 2..n, NEW j \in 1..Len(parts[k])
      PROVE  w[Len(upto[k - 1]) + j] = parts[k][j]
  <2>1. Begins(upto[k], w)
    BY <1>2, <1>6
  <2>2. /\ Len(upto[k - 1]) \in Nat /\ Len(parts[k]) \in Nat
        /\ Len(upto[k]) = Len(upto[k - 1]) + Len(parts[k])
        /\ upto[k][Len(upto[k - 1]) + j] = parts[k][j]
    BY <1>3
  <2>3. Len(upto[k - 1]) + j \in 1..Len(upto[k])
    <3> DEFINE a == Len(upto[k - 1])
               b == Len(parts[k])
               c == Len(upto[k])
    <3>1. a \in Nat /\ b \in Nat /\ c = a + b /\ j \in 1..b
      BY <2>2
    <3> HIDE DEF a, b, c
    <3>2. a + j \in 1..c
      BY <3>1
    <3>3. QED
      BY <3>2 DEF a, c
  <2>4. QED
    BY <2>1, <2>2, <2>3 DEF Begins
<1>8. QED
  BY <1>1, <1>3, <1>5, <1>6, <1>7

(* The parts of a list stand one after the other, in parentheses.            *)
LEMMA ListLaid ==
    ASSUME NEW e \in Exprs, e.type = "list"
    PROVE  \E start : Laid(e, start)
<1> DEFINE n == Len(e.items)
           w == Written[e]
           parts == PartsOf(e, Written)
<1>1. n \in Nat /\ DOMAIN e.items = 1..n /\ \A k \in 1..n : Written[e.items[k]] \in Seq(Tokens)
  BY ItemsAre, WrittenIn
<1>2. w = PutTogether(parts)
  BY WrittenAre DEF WriteStep
<1>3. /\ parts[1] = <<Open>> /\ parts[n + 2] = <<Close>>
      /\ \A k \in 1..n : parts[k + 1] = Written[e.items[k]]
  <2>1. 1 \in 1..(n + 2) /\ n + 2 \in 1..(n + 2) /\ n + 2 # 1
    BY <1>1
  <2>2. \A k \in 1..n : k + 1 \in 1..(n + 2) /\ k + 1 # 1 /\ k + 1 # n + 2 /\ (k + 1) - 1 = k
    BY <1>1
  <2>3. QED
    BY <2>1, <2>2 DEF PartsOf
<1> HIDE DEF parts, w
<1>4. parts \in Seq(Seq(Tokens)) /\ Len(parts) = n + 2 /\ \E upto : Pieces(upto, parts, w)
  BY <1>1, <1>2, PartsIn DEF parts
<1>5. PICK upto : Pieces(upto, parts, w)
  BY <1>4
<1>6. /\ \A k \in 1..(n + 2) : Begins(upto[k], w) /\ upto[k] \in Seq(Tokens)
      /\ \A k \in 2..(n + 2) :
            /\ Len(upto[k]) = Len(upto[k - 1]) + Len(parts[k])
            /\ \A j \in 1..Len(parts[k]) : w[Len(upto[k - 1]) + j] = parts[k][j]
      /\ upto[1] = <<Open>> /\ w = upto[n + 2]
  <2>1. n + 2 # 0
    BY <1>1
  <2>2. /\ \A k \in 1..Len(parts) : Begins(upto[k], w) /\ upto[k] \in Seq(Tokens)
        /\ \A k \in 2..Len(parts) :
              /\ Len(upto[k]) = Len(upto[k - 1]) + Len(parts[k])
              /\ \A j \in 1..Len(parts[k]) : w[Len(upto[k - 1]) + j] = parts[k][j]
        /\ Len(parts) # 0 => upto[1] = parts[1] /\ w = upto[Len(parts)]
    BY <1>4, <1>5, PiecesBegin
  <2>3. QED
    BY <1>3, <1>4, <2>1, <2>2
<1> DEFINE start == [k \in 1..(n + 1) |-> Len(upto[k])]
<1>7. \A k \in 1..(n + 1) : k \in 1..(n + 2) /\ start[k] = Len(upto[k]) /\ start[k] \in Nat
  BY <1>1, <1>6
<1>8. start \in [1..(n + 1) -> Nat]
  BY <1>7
<1>9. start[1] = 1 /\ w[1] = Open
  <2>1. 1 \in 1..(n + 1) /\ 1 \in 1..(n + 2)
    BY <1>1
  <2>2. Len(<<Open>>) = 1 /\ <<Open>>[1] = Open
    OBVIOUS
  <2>3. Begins(<<Open>>, w) /\ Len(upto[1]) = 1
    BY <1>6, <2>1, <2>2
  <2>4. QED
    BY <2>1, <2>2, <2>3 DEF Begins
<1>10. Len(w) = start[n + 1] + 1 /\ w[start[n + 1] + 1] = Close
  <2>1. n + 2 \in 2..(n + 2) /\ (n + 2) - 1 = n + 1 /\ n + 1 \in 1..(n + 1)
    BY <1>1
  <2>2. Len(<<Close>>) = 1 /\ <<Close>>[1] = Close /\ 1 \in 1..1
    OBVIOUS
  <2>3. Len(upto[n + 2]) = Len(upto[n + 1]) + Len(<<Close>>)
        /\ \A j \in 1..Len(<<Close>>) : w[Len(upto[n + 1]) + j] = <<Close>>[j]
    BY <1>3, <1>6, <2>1
  <2>4. w[Len(upto[n + 1]) + 1] = Close
    BY <2>2, <2>3
  <2>5. QED
    BY <1>6, <1>7, <2>1, <2>2, <2>3, <2>4
<1>11. ASSUME NEW k \in 1..n
       PROVE  /\ start[k + 1] = start[k] + Len(Written[e.items[k]])
              /\ \A j \in 1..Len(Written[e.items[k]]) : w[start[k] + j] = Written[e.items[k]][j]
  <2>1. k + 1 \in 2..(n + 2) /\ (k + 1) - 1 = k /\ k \in 1..(n + 1) /\ k + 1 \in 1..(n + 1)
    BY <1>1
  <2>2. /\ Len(upto[k + 1]) = Len(upto[k]) + Len(parts[k + 1])
        /\ \A j \in 1..Len(parts[k + 1]) : w[Len(upto[k]) + j] = parts[k + 1][j]
    BY <1>6, <2>1
  <2>3. QED
    BY <1>3, <1>7, <2>1, <2>2
<1> HIDE DEF start
<1>12. Laid(e, start)
  BY <1>8, <1>9, <1>10, <1>11 DEF Laid, w
<1>13. QED
  BY <1>12
-----------------------------------------------------------------------------
(* The recursion of the parser defines a function: it goes on behind where   *)
(* it is.                                                                    *)
Last == Len(request.tokens)
Positions == 1..(Last + 1)
ReadStep(p, h) ==
    LET one == One(p, h[p + 1].items)
    IN [one |-> one, items |-> Items(p, one, h[one.pos].items)]

Ahead(r, p) == r = Refused \/ r.pos \in (p + 1)..(Last + 1)
AheadAt(h, p) == Ahead(h[p].one, p) /\ Ahead(h[p].items, p)

(* A step of the parser leads ahead, or is refused.                          *)
LEMMA StepAhead ==
    ASSUME Last \in Nat, NEW p \in Positions,
           NEW h, \A q \in Positions : p < q => AheadAt(h, q)
    PROVE  LET r == ReadStep(p, h)
           IN /\ Ahead(r.one, p) /\ Ahead(r.items, p)
              /\ ~AtEnd(p) => p + 1 \in Positions
              /\ r.one.expr # NoExpr => r.one.pos \in Positions /\ p < r.one.pos
<1> DEFINE one == One(p, h[p + 1].items)
           others == h[one.pos].items
           items == Items(p, one, others)
<1>1. ~AtEnd(p) => p + 1 \in Positions /\ p + 1 \in (p + 1)..(Last + 1)
  BY DEF AtEnd, Positions, Last
<1>2. \A q \in Positions : \A r : p < q /\ Ahead(r, q) => Ahead(r, p)
  BY DEF Ahead, Positions
<1>3. Ahead(one, p)
  <2>1. CASE AtEnd(p)
    BY <2>1 DEF One, Ahead
  <2>2. CASE ~AtEnd(p) /\ TokenAt(p) = Open
    <3>1. p < p + 1
      BY DEF Positions
    <3>2. Ahead(h[p + 1].items, p)
      BY <1>1, <1>2, <2>2, <3>1 DEF AheadAt
    <3>3. QED
      BY <2>2, <3>2 DEF One
  <2>3. CASE ~AtEnd(p) /\ TokenAt(p) # Open
    BY <1>1, <2>3 DEF One, Ahead
  <2>4. QED
    BY <2>1, <2>2, <2>3
<1> HIDE DEF one
<1>4. one.expr # NoExpr => one.pos \in Positions /\ p < one.pos
  BY <1>3 DEF Ahead, Refused, Positions
<1>5. Ahead(items, p)
  <2>1. CASE AtEnd(p)
    BY <2>1 DEF Items, Ahead
  <2>2. CASE ~AtEnd(p) /\ TokenAt(p) = Close
    BY <1>1, <2>2 DEF Items, Closed, Ahead
  <2>3. CASE ~AtEnd(p) /\ TokenAt(p) # Close /\ (one.expr = NoExpr \/ others.expr = NoExpr)
    BY <2>3 DEF Items, Ahead
  <2>4. CASE ~AtEnd(p) /\ TokenAt(p) # Close /\ ~(one.expr = NoExpr \/ others.expr = NoExpr)
    <3>1. Ahead(others, p)
      BY <1>2, <1>4, <2>4 DEF AheadAt
    <3>2. items.pos = others.pos
      BY <2>4 DEF Items
    <3>3. others # Refused
      BY <2>4 DEF Refused
    <3> HIDE DEF items, others
    <3>4. QED
      BY <3>1, <3>2, <3>3 DEF Ahead
  <2>5. QED
    BY <2>1, <2>2, <2>3, <2>4
<1>6. ReadStep(p, h) = [one |-> one, items |-> items]
  BY DEF ReadStep, one
<1> HIDE DEF items
<1>7. ReadStep(p, h).one = one /\ ReadStep(p, h).items = items
  BY <1>6
<1>8. QED
  BY <1>1, <1>3, <1>4, <1>5, <1>7

(* A step of the parser looks only at what is ahead.                         *)
LEMMA StepSame ==
    ASSUME Last \in Nat, NEW p \in Positions,
           NEW g, NEW h, \A q \in Positions : p < q => AheadAt(h, q) /\ g[q] = h[q]
    PROVE  ReadStep(p, g) = ReadStep(p, h)
<1> DEFINE one == One(p, h[p + 1].items)
<1>1. /\ ~AtEnd(p) => p + 1 \in Positions /\ p < p + 1
      /\ one.expr # NoExpr => one.pos \in Positions /\ p < one.pos
  <2>1. /\ ~AtEnd(p) => p + 1 \in Positions
        /\ ReadStep(p, h).one.expr # NoExpr =>
              ReadStep(p, h).one.pos \in Positions /\ p < ReadStep(p, h).one.pos
    BY StepAhead
  <2>2. ReadStep(p, h).one = one
    BY DEF ReadStep
  <2>3. p < p + 1
    BY DEF Positions
  <2> HIDE DEF one
  <2>4. QED
    BY <2>1, <2>2, <2>3
<1>2. One(p, g[p + 1].items) = one
  BY <1>1 DEF One
<1> HIDE DEF one
<1>3. Items(p, one, g[one.pos].items) = Items(p, one, h[one.pos].items)
  BY <1>1 DEF Items
<1>4. QED
  BY <1>2, <1>3 DEF ReadStep, one

(* So there is what the parser reads from each position.                     *)
LEMMA ReadIs ==
    ASSUME Last \in Nat
    PROVE  \A p \in Positions : Read[p] = ReadStep(p, Read)
<1> DEFINE Good(h, n) == \A p \in Positions : Last + 1 - p < n => h[p] = ReadStep(p, h) /\ AheadAt(h, p)
           Upto(n) == \E h : h = [p \in Positions |-> h[p]] /\ Good(h, n)
           T == {n \in 1..(Last + 2) : Upto(n - 1)}
<1>1. Upto(0)
  <2> DEFINE h == [p \in Positions |-> Refused]
  <2>1. h = [p \in Positions |-> h[p]]
    OBVIOUS
  <2>2. \A p \in Positions : ~(Last + 1 - p < 0)
    BY DEF Positions
  <2> HIDE DEF h
  <2>3. QED
    BY <2>1, <2>2
<1>2. ASSUME NEW n \in Nat, Upto(n)
      PROVE  Upto(n + 1)
  <2>1. PICK h : h = [p \in Positions |-> h[p]] /\ Good(h, n)
    BY <1>2
  <2> DEFINE k == [p \in Positions |-> ReadStep(p, h)]
  <2>2. k = [p \in Positions |-> k[p]] /\ \A p \in Positions : k[p] = ReadStep(p, h)
    OBVIOUS
  <2>3. \A p \in Positions : Last + 1 - p < n => k[p] = h[p]
    BY <2>1
  <2> HIDE DEF k
  <2>4. ASSUME NEW p \in Positions, Last + 1 - p < n + 1
        PROVE  k[p] = ReadStep(p, k) /\ AheadAt(k, p)
    <3>1. \A q \in Positions : p < q => Last + 1 - q < n
      BY <2>4 DEF Positions
    <3>2. \A q \in Positions : p < q => AheadAt(h, q) /\ k[q] = h[q]
      BY <2>1, <2>3, <3>1
    <3>3. ReadStep(p, k) = ReadStep(p, h)
      BY <3>2, StepSame
    <3>4. Ahead(ReadStep(p, h).one, p) /\ Ahead(ReadStep(p, h).items, p)
      BY <3>2, StepAhead
    <3>5. QED
      BY <2>2, <3>3, <3>4 DEF AheadAt
  <2>5. Good(k, n + 1)
    BY <2>4
  <2> HIDE DEF Good
  <2>6. QED
    BY <2>2, <2>5
<1> HIDE DEF Upto
<1>3. Upto(Last + 1)
  <2>1. 1 \in T
    BY <1>1
  <2>2. ASSUME NEW n \in 2..(Last + 2), n - 1 \in T PROVE n \in T
    <3>1. n - 2 \in Nat /\ (n - 2) + 1 = n - 1 /\ (n - 1) - 1 = n - 2 /\ n \in 1..(Last + 2)
      OBVIOUS
    <3>2. Upto((n - 1) - 1)
      BY <2>2
    <3>3. Upto((n - 2) + 1)
      BY <1>2, <3>1, <3>2
    <3>4. QED
      BY <3>1, <3>3
  <2>3. \A n \in 1..(Last + 2) : n \in T
    <3> DEFINE m == Last + 2
    <3>1. m \in Nat
      OBVIOUS
    <3> HIDE DEF T
    <3>2. QED
      BY <2>1, <2>2, <3>1, Upward
  <2>4. Last + 2 \in T /\ (Last + 2) - 1 = Last + 1
    BY <2>3
  <2>5. QED
    BY <2>4
<1>4. PICK h : h = [p \in Positions |-> h[p]] /\ Good(h, Last + 1)
  BY <1>3 DEF Upto
<1>5. \A p \in Positions : h[p] = ReadStep(p, h)
  <2>1. \A p \in Positions : Last + 1 - p < Last + 1
    BY DEF Positions
  <2>2. QED
    BY <1>4, <2>1
<1>6. h = [p \in Positions |-> ReadStep(p, h)]
  BY <1>4, <1>5
<1>7. Read = CHOOSE f : f = [p \in Positions |-> ReadStep(p, f)]
  BY DEF Read, ReadStep, Positions, Last
<1>8. Read = [p \in Positions |-> ReadStep(p, Read)]
  BY <1>6, <1>7
<1>9. QED
  BY <1>8
-----------------------------------------------------------------------------
(* What a client writes is read as what was written, if all of it is there.  *)
Fits(p, w) == \A k \in 1..Len(w) : p + k - 1 <= Last => TokenAt(p + k - 1) = w[k]
Outcome(e, to) == IF to <= Last + 1 THEN [expr |-> e, pos |-> to] ELSE Refused
ReadsBack(e) ==
    \A p \in Positions :
        Fits(p, Written[e]) => Read[p].one = Outcome(e, p + Len(Written[e]))

(* What the tokens and NoExpr are not.                                       *)
LEMMA LeafTypes ==
    /\ Open # Close
    /\ \A e \in Exprs : e # NoExpr
    /\ \A s \in Seq(Exprs) : List(s) # NoExpr
    /\ Refused.expr = NoExpr
<1>1. Open # Close
  BY DEF Open, Close
<1>2. \A s \in Seq(Exprs) : List(s) \in [type : {"list"}, items : Seq(Exprs)]
  BY DEF List
<1>3. NoExpr \notin Exprs /\ NoExpr \notin [type : {"list"}, items : Seq(Exprs)]
  BY ExprsAssumption
<1>4. QED
  BY <1>1, <1>2, <1>3 DEF Refused

(* No expression begins as a list ends.                                      *)
LEMMA FirstToken ==
    ASSUME NEW e \in Exprs, Textual(e)
    PROVE  Len(Written[e]) \in Nat \ {0} /\ Written[e][1] # Close
<1>1. CASE e.type # "list"
  <2>1. Written[e] = <<TextOf(e)>> /\ TextOf(e) # Close
    BY <1>1, WrittenAre, TextualParts DEF WriteStep
  <2>2. QED
    BY <2>1
<1>2. CASE e.type = "list"
  <2>1. PICK start : Laid(e, start)
    BY <1>2, ListLaid
  <2>2. Len(e.items) \in Nat
    BY <1>2, ItemsAre
  <2>3. Len(e.items) + 1 \in 1..(Len(e.items) + 1)
    BY <2>2
  <2>4. start[Len(e.items) + 1] \in Nat
    BY <2>1, <2>3 DEF Laid
  <2>5. QED
    BY <2>1, <2>4, LeafTypes DEF Laid
<1>3. QED
  BY <1>1, <1>2

Rest(s, k) == [j \in 1..(Len(s) + 1 - k) |-> s[k + j - 1]]

(* The items of a list from one on.                                          *)
LEMMA RestIs ==
    ASSUME NEW S, NEW s \in Seq(S), NEW k \in 1..Len(s)
    PROVE  /\ <<s[k]>> \o Rest(s, k + 1) = Rest(s, k)
           /\ Rest(s, k + 1) \in Seq(S)
<1> DEFINE n == Len(s)
           r == Rest(s, k + 1)
<1>1. n \in Nat /\ \A j \in 1..n : s[j] \in S
  OBVIOUS
<1>2. r \in Seq(S) /\ Len(r) = n - k /\ \A j \in 1..(n - k) : r[j] = s[k + j]
  <2>1. \A j \in 1..(n - k) : k + j \in 1..n /\ (k + 1) + j - 1 = k + j
    BY <1>1
  <2>2. n + 1 - (k + 1) = n - k /\ n - k \in Nat
    BY <1>1
  <2>3. r = [j \in 1..(n - k) |-> s[(k + 1) + j - 1]]
    BY <2>2 DEF Rest
  <2>4. r \in [1..(n - k) -> S] /\ \A j \in 1..(n - k) : r[j] = s[k + j]
    BY <1>1, <2>1, <2>3
  <2> DEFINE m == n - k
  <2> HIDE DEF r
  <2>m. m \in Nat /\ r \in [1..m -> S]
    BY <2>2, <2>4
  <2> HIDE DEF m
  <2>5. r \in Seq(S) /\ Len(r) = m
    BY <2>m
  <2>6. QED
    BY <2>4, <2>5 DEF m
<1> HIDE DEF r
<1>3. <<s[k]>> \o r = Rest(s, k)
  <2> DEFINE a == <<s[k]>>
             m == n + 1 - k
  <2>1. a \in Seq(S) /\ Len(a) = 1 /\ a[1] = s[k]
    BY <1>1
  <2> HIDE DEF a
  <2>2. /\ a \o r \in Seq(S) /\ Len(a \o r) = 1 + (n - k)
        /\ (a \o r)[1] = s[k]
        /\ \A j \in 1..(n - k) : (a \o r)[1 + j] = s[k + j]
    <3>1. /\ a \o r \in Seq(S) /\ Len(a \o r) = Len(a) + Len(r)
          /\ \A j \in 1..Len(a) : (a \o r)[j] = a[j]
          /\ \A j \in 1..Len(r) : (a \o r)[Len(a) + j] = r[j]
      <4>1. r \in Seq(S) /\ a \in Seq(S)
        BY <1>2, <2>1
      <4>2. QED
        BY <4>1, ConcatFacts
    <3>2. 1 \in 1..1
      OBVIOUS
    <3>3. QED
      BY <1>2, <2>1, <3>1, <3>2
  <2>3. \A j \in 1..m : j = 1 \/ (j - 1 \in 1..(n - k) /\ 1 + (j - 1) = j /\ k + (j - 1) = k + j - 1)
    BY <1>1
  <2>4. \A j \in 1..m : (a \o r)[j] = s[k + j - 1]
    <3>1. ASSUME NEW j \in 1..m, j = 1 PROVE (a \o r)[j] = s[k + j - 1]
      <4>1. k + 1 - 1 = k
        BY <1>1
      <4>2. QED
        BY <2>2, <3>1, <4>1
    <3>2. ASSUME NEW j \in 1..m, j # 1 PROVE (a \o r)[j] = s[k + j - 1]
      <4>1. (a \o r)[1 + (j - 1)] = s[k + (j - 1)]
        BY <2>2, <2>3, <3>2
      <4>2. QED
        BY <2>3, <3>2, <4>1
    <3>3. QED
      BY <3>1, <3>2
  <2>5. 1 + (n - k) = m /\ m \in Nat
    BY <1>1
  <2> HIDE DEF m
  <2> DEFINE b == a \o r
  <2>6. b \in Seq(S) /\ Len(b) = m /\ \A j \in 1..m : b[j] = s[k + j - 1]
    BY <2>2, <2>4, <2>5
  <2> HIDE DEF b
  <2>7. b = [j \in 1..m |-> s[k + j - 1]]
    BY <2>5, <2>6
  <2>8. QED
    BY <2>7 DEF b, a, m, Rest
<1>4. QED
  BY <1>2, <1>3 DEF r

(* The first and the last of them.                                           *)
LEMMA RestEnds ==
    ASSUME NEW S, NEW s \in Seq(S)
    PROVE  Rest(s, Len(s) + 1) = << >> /\ Rest(s, 1) = s
<1> DEFINE n == Len(s)
<1>1. n \in Nat
  OBVIOUS
<1>2. Rest(s, n + 1) = << >>
  <2>1. 1..(n + 1 - (n + 1)) = 1..0
    BY <1>1
  <2>2. QED
    BY <2>1 DEF Rest
<1>3. Rest(s, 1) = s
  <2>1. n + 1 - 1 = n /\ \A j \in 1..n : 1 + j - 1 = j
    BY <1>1
  <2>2. Rest(s, 1) = [j \in 1..n |-> s[j]]
    BY <2>1 DEF Rest
  <2>3. s = [j \in 1..n |-> s[j]]
    OBVIOUS
  <2>4. QED
    BY <2>2, <2>3
<1>4. QED
  BY <1>2, <1>3

(* The two parts of what it reads.                                           *)
LEMMA ReadAt ==
    ASSUME Last \in Nat, NEW p \in Positions
    PROVE  /\ Read[p].one = One(p, Read[p + 1].items)
           /\ Read[p].items = Items(p, Read[p].one, Read[Read[p].one.pos].items)
<1> DEFINE one == One(p, Read[p + 1].items)
           items == Items(p, one, Read[one.pos].items)
<1>1. Read[p] = ReadStep(p, Read)
  BY ReadIs
<1>2. ReadStep(p, Read) = [one |-> one, items |-> items]
  BY DEF ReadStep
<1> HIDE DEF one, items
<1>3. Read[p].one = one /\ Read[p].items = items
  BY <1>1, <1>2
<1>4. QED
  BY <1>3 DEF one, items

(* A token that is an expression is read as that.                            *)
LEMMA LeafReads ==
    ASSUME Last \in Nat, NEW e \in Exprs, e.type # "list", Textual(e)
    PROVE  ReadsBack(e)
<1> DEFINE x == TextOf(e)
<1>1. Written[e] = <<x>> /\ Len(<<x>>) = 1 /\ <<x>>[1] = x
  BY WrittenAre DEF WriteStep
<1>2. x # Open /\ Atom(x) = e
  BY TextualParts
<1> HIDE DEF x
<1>3. ASSUME NEW p \in Positions, Fits(p, Written[e])
      PROVE  Read[p].one = Outcome(e, p + 1)
  <2>1. Read[p].one = One(p, Read[p + 1].items)
    BY ReadAt
  <2>2. CASE p <= Last
    <3>1. 1 \in 1..1 /\ p + 1 - 1 = p /\ p + 1 <= Last + 1 /\ ~(p > Last)
      BY <2>2 DEF Positions
    <3>2. TokenAt(p) = x
      BY <1>1, <1>3, <2>2, <3>1 DEF Fits
    <3>3. QED
      BY <1>2, <2>1, <3>1, <3>2 DEF One, Outcome, AtEnd, Last
  <2>3. CASE ~(p <= Last)
    <3>1. p > Last /\ ~(p + 1 <= Last + 1)
      BY <2>3 DEF Positions
    <3>2. QED
      BY <2>1, <3>1 DEF One, Outcome, AtEnd, Last
  <2>4. QED
    BY <2>2, <2>3
<1>4. QED
  BY <1>1, <1>3 DEF ReadsBack

(* A list is, if its items are: from the last one to the first.              *)
LEMMA ListReadsBack ==
    ASSUME Last \in Nat, NEW e \in Exprs, e.type = "list",
           \A k \in DOMAIN e.items : Textual(e.items[k]) /\ ReadsBack(e.items[k])
    PROVE  ReadsBack(e)
<1> DEFINE n == Len(e.items)
           w == Written[e]
<1>1. /\ n \in Nat /\ DOMAIN e.items = 1..n /\ e.items \in Seq(Exprs) /\ e = List(e.items)
      /\ \A k \in 1..n : e.items[k] \in Exprs
  BY ItemsAre
<1>2. PICK start : Laid(e, start)
  BY ListLaid
<1>3. /\ \A k \in 1..(n + 1) : start[k] \in Nat
      /\ start[1] = 1 /\ Len(w) = start[n + 1] + 1
      /\ w[1] = Open /\ w[start[n + 1] + 1] = Close
      /\ \A k \in 1..n :
            /\ start[k + 1] = start[k] + Len(Written[e.items[k]])
            /\ \A j \in 1..Len(Written[e.items[k]]) : w[start[k] + j] = Written[e.items[k]][j]
  BY <1>2 DEF Laid
<1>n. n + 1 \in 1..(n + 1) /\ 1 \in 1..(n + 1)
  BY <1>1
<1> HIDE DEF n, w
<1> DEFINE end == start[n + 1]
<1>e. end \in Nat /\ Len(w) = end + 1
  BY <1>3, <1>n
<1>4. ASSUME NEW p \in Positions, Fits(p, w)
      PROVE  Read[p].one = Outcome(e, p + Len(w))
  <2> DEFINE to == p + Len(w)
             ItemsFrom(k) == p + start[k] \in Positions =>
                             Read[p + start[k]].items = Outcome(List(Rest(e.items, k)), to)
             T == {j \in 1..(n + 1) :
                     start[n + 2 - j] <= end /\ ItemsFrom(n + 2 - j)}
  <2>t. p \in Nat /\ to = p + end + 1 /\ to \in Nat
    BY <1>e DEF Positions
  <2> HIDE DEF to, end
  <2>1. \A q \in Positions : /\ Read[q].one = One(q, Read[q + 1].items)
                             /\ Read[q].items = Items(q, Read[q].one, Read[Read[q].one.pos].items)
    BY ReadAt
  <2>2. \A q \in Positions : AtEnd(q) <=> q = Last + 1
    BY DEF AtEnd, Positions, Last
  <2>3. ItemsFrom(n + 1)
    <3> SUFFICES ASSUME p + end \in Positions
                 PROVE  Read[p + end].items = Outcome(List(Rest(e.items, n + 1)), to)
      BY DEF end
    <3> DEFINE q == p + end
    <3>1. Rest(e.items, n + 1) = << >>
      BY <1>1, RestEnds DEF n
    <3>2. CASE q = Last + 1
      <4>1. Read[q].items = Refused
        BY <2>1, <2>2, <3>2 DEF Items
      <4>2. ~(to <= Last + 1)
        BY <1>e, <2>t, <3>2
      <4>3. QED
        BY <4>1, <4>2 DEF Outcome
    <3>3. CASE q # Last + 1
      <4>1. q <= Last /\ p + (end + 1) - 1 = q /\ end + 1 \in 1..Len(w)
        BY <1>e, <2>t, <3>3 DEF Positions
      <4>2. TokenAt(q) = w[end + 1]
        BY <1>4, <4>1 DEF Fits
      <4>3. TokenAt(q) = Close
        BY <1>3, <4>2 DEF end
      <4>4. Read[q].items = Closed(q)
        BY <2>1, <2>2, <3>3, <4>3 DEF Items
      <4>5. q + 1 = to /\ to <= Last + 1
        BY <1>e, <2>t, <4>1
      <4>6. QED
        BY <3>1, <4>4, <4>5 DEF Outcome, Closed
    <3>4. QED
      BY <3>2, <3>3
  <2>4. ASSUME NEW k \in 1..n, start[k + 1] <= end, ItemsFrom(k + 1)
        PROVE  start[k] <= end /\ ItemsFrom(k)
    <3> DEFINE a == e.items[k]
               la == Len(Written[a])
               q == p + start[k]
    <3>1. a \in Exprs /\ ReadsBack(a) /\ la \in Nat \ {0} /\ Written[a][1] # Close
      BY <1>1, FirstToken
    <3>2. /\ start[k] \in Nat /\ start[k + 1] = start[k] + la /\ start[k] <= end
          /\ \A j \in 1..la : w[start[k] + j] = Written[a][j]
      <4>1. k \in 1..(n + 1)
        BY <1>1
      <4>2. start[k] \in Nat /\ start[k + 1] = start[k] + la
            /\ \A j \in 1..la : w[start[k] + j] = Written[a][j]
        BY <1>3, <4>1
      <4> HIDE DEF la
      <4>3. QED
        BY <1>e, <2>4, <3>1, <4>2
    <3> HIDE DEF la
    <3> SUFFICES ASSUME q \in Positions
                 PROVE  Read[q].items = Outcome(List(Rest(e.items, k)), to)
      BY <3>2
    <3>3. CASE q = Last + 1
      <4>1. Read[q].items = Refused
        BY <2>1, <2>2, <3>3 DEF Items
      <4>2. ~(to <= Last + 1)
        BY <1>e, <2>t, <3>2, <3>3
      <4>3. QED
        BY <4>1, <4>2 DEF Outcome
    <3>4. CASE q # Last + 1
      <4>1. Fits(q, Written[a])
        <5>1. ASSUME NEW j \in 1..la, q + j - 1 <= Last PROVE TokenAt(q + j - 1) = Written[a][j]
          <6>1. start[k] + j \in 1..Len(w) /\ p + (start[k] + j) - 1 = q + j - 1
            <7> DEFINE m == start[k]
                       m1 == start[k + 1]
                       lw == Len(w)
            <7>1. m \in Nat /\ m1 = m + la /\ m1 <= end /\ lw = end + 1 /\ end \in Nat /\ la \in Nat
              BY <1>e, <2>4, <3>1, <3>2 DEF la
            <7> HIDE DEF m, m1, lw
            <7>2. j \in 1..la /\ q = p + m /\ p \in Nat
              BY <2>t DEF m
            <7>3. m + j \in 1..lw /\ p + (m + j) - 1 = q + j - 1
              BY <7>1, <7>2
            <7>4. QED
              BY <7>3 DEF m, lw
          <6>2. TokenAt(p + (start[k] + j) - 1) = w[start[k] + j]
            BY <1>4, <5>1, <6>1 DEF Fits
          <6>3. QED
            BY <3>2, <6>1, <6>2
        <5>2. QED
          BY <5>1 DEF Fits, la
      <4>2. TokenAt(q) # Close
        <5>1. 1 \in 1..la /\ q + 1 - 1 = q /\ q <= Last
          BY <2>t, <3>1, <3>2, <3>4 DEF Positions
        <5>2. TokenAt(q) = Written[a][1]
          BY <4>1, <5>1 DEF Fits, la
        <5>3. QED
          BY <3>1, <5>2
      <4>3. Read[q].one = Outcome(a, q + la)
        BY <3>1, <4>1 DEF ReadsBack, la
      <4>4. Read[q].items = Items(q, Read[q].one, Read[Read[q].one.pos].items) /\ ~AtEnd(q)
        BY <2>1, <2>2, <3>4
      <4>5. q + la = p + start[k + 1] /\ q + la \in Nat
        BY <2>t, <3>1, <3>2
      <4>6. CASE ~(q + la <= Last + 1)
        <5>1. Read[q].one.expr = NoExpr
          BY <4>3, <4>6 DEF Outcome, Refused
        <5>2. Read[q].items = Refused
          BY <4>2, <4>4, <5>1 DEF Items
        <5>3. ~(to <= Last + 1)
          BY <1>e, <2>4, <2>t, <3>1, <3>2, <4>5, <4>6
        <5>4. QED
          BY <5>2, <5>3 DEF Outcome
      <4>7. CASE q + la <= Last + 1
        <5> DEFINE one == Read[q].one
                   others == Read[q + la].items
        <5>1. one = [expr |-> a, pos |-> q + la]
          BY <4>3, <4>7 DEF Outcome
        <5>2. one.expr = a /\ one.pos = q + la
          BY <5>1
        <5>3. q + la \in Positions
          BY <3>1, <3>2, <2>t, <4>5, <4>7 DEF Positions
        <5>4. others = Outcome(List(Rest(e.items, k + 1)), to)
          BY <2>4, <4>5, <5>3
        <5>5. /\ Rest(e.items, k + 1) \in Seq(Exprs)
              /\ <<a>> \o Rest(e.items, k + 1) = Rest(e.items, k)
          BY <1>1, RestIs DEF n
        <5>6. a # NoExpr /\ List(Rest(e.items, k + 1)) # NoExpr
          BY <3>1, <5>5, LeafTypes
        <5> HIDE DEF a
        <5>7. Read[q].items = Items(q, one, others)
          BY <4>4, <5>2
        <5> HIDE DEF one, others
        <5>8. CASE to <= Last + 1
          <6>1. others.expr = List(Rest(e.items, k + 1)) /\ others.pos = to
            BY <5>4, <5>8 DEF Outcome
          <6>2. others.expr.items = Rest(e.items, k + 1)
            BY <6>1 DEF List
          <6>3. Read[q].items = [expr |-> List(<<a>> \o Rest(e.items, k + 1)), pos |-> to]
            BY <4>2, <4>4, <5>2, <5>6, <5>7, <6>1, <6>2 DEF Items
          <6>4. QED
            BY <5>5, <5>8, <6>3 DEF Outcome
        <5>9. CASE ~(to <= Last + 1)
          <6>1. others.expr = NoExpr
            BY <5>4, <5>9, LeafTypes DEF Outcome
          <6>2. Read[q].items = Refused
            BY <4>2, <4>4, <5>7, <6>1 DEF Items
          <6>3. QED
            BY <5>9, <6>2 DEF Outcome
        <5>10. QED
          BY <5>8, <5>9
      <4>8. QED
        BY <4>6, <4>7
    <3>5. QED
      BY <3>3, <3>4
  <2>5. ItemsFrom(1)
    <3>1. 1 \in T
      <4>1. n + 2 - 1 = n + 1 /\ 1 \in 1..(n + 1) /\ start[n + 1] <= end
        BY <1>1, <1>e, <1>n DEF end
      <4>2. QED
        BY <2>3, <4>1
    <3>2. ASSUME NEW j \in 2..(n + 1), j - 1 \in T PROVE j \in T
      <4> DEFINE k == n + 2 - j
      <4>1. k \in 1..n /\ n + 2 - (j - 1) = k + 1 /\ j \in 1..(n + 1)
        BY <1>1
      <4>2. start[n + 2 - (j - 1)] <= end /\ ItemsFrom(n + 2 - (j - 1))
        BY <3>2
      <4>3. start[k + 1] <= end /\ ItemsFrom(k + 1)
        BY <4>1, <4>2
      <4>4. start[k] <= end /\ ItemsFrom(k)
        BY <2>4, <4>1, <4>3
      <4>5. QED
        BY <4>1, <4>4
    <3>3. \A j \in 1..(n + 1) : j \in T
      <4> DEFINE m == n + 1
      <4>1. m \in Nat
        BY <1>1
      <4>2. 1 \in T /\ \A j \in 2..m : j - 1 \in T => j \in T
        BY <3>1, <3>2
      <4> HIDE DEF T, m
      <4>3. \A j \in 1..m : j \in T
        BY <4>1, <4>2, Upward
      <4>4. QED
        BY <4>3 DEF m
    <3>4. n + 1 \in T /\ n + 2 - (n + 1) = 1
      BY <1>1, <1>n, <3>3
    <3>5. QED
      BY <3>4
  <2>6. CASE p = Last + 1
    <3>1. Read[p].one = Refused
      BY <2>1, <2>2, <2>6 DEF One
    <3>2. ~(to <= Last + 1)
      BY <1>e, <2>t, <2>6
    <3>3. QED
      BY <3>1, <3>2 DEF Outcome, to
  <2>7. CASE p # Last + 1
    <3>1. p <= Last /\ p + 1 \in Positions /\ p + 1 - 1 = p /\ 1 \in 1..Len(w) /\ start[1] = 1
      BY <1>e, <1>3, <2>7, <2>t DEF Positions
    <3>2. TokenAt(p) = Open
      BY <1>3, <1>4, <3>1 DEF Fits
    <3>3. Read[p].one = Read[p + 1].items
      BY <2>1, <2>2, <2>7, <3>2 DEF One
    <3>4. Rest(e.items, 1) = e.items
      BY <1>1, RestEnds
    <3>5. Read[p + 1].items = Outcome(e, to)
      BY <1>1, <2>5, <3>1, <3>4
    <3>6. QED
      BY <3>3, <3>5 DEF to
  <2>8. QED
    BY <2>6, <2>7
<1>5. QED
  BY <1>4 DEF ReadsBack, w

(* So is every expression, at any nesting.                                   *)
LEMMA AllReadBack ==
    ASSUME Last \in Nat
    PROVE  \A e \in Exprs : Textual(e) => ReadsBack(e)
<1> DEFINE T == {e \in Exprs : Textual(e) => ReadsBack(e)}
<1>1. ASSUME NEW e \in Exprs, e.type = "list" => \A k \in DOMAIN e.items : e.items[k] \in T
      PROVE  e \in T
  <2>1. CASE e.type # "list"
    BY <2>1, LeafReads
  <2>2. CASE e.type = "list"
    <3>1. ASSUME Textual(e)
          PROVE  \A k \in DOMAIN e.items : Textual(e.items[k]) /\ ReadsBack(e.items[k])
      BY <1>1, <2>2, <3>1, TextualParts
    <3>2. QED
      BY <2>2, <3>1, ListReadsBack
  <2>3. QED
    BY <2>1, <2>2
<1>2. \A e \in Exprs : e \in T
  <2> HIDE DEF T
  <2>1. QED
    BY <1>1, OnParts
<1>3. QED
  BY <1>2

(* The requests of AggregateInit: the expression alone, as JSON; its tokens  *)
(* up to one before the last; all of them and others after it.               *)
CutShort(e, given) == \E n \in 1..(Len(Written[e]) - 1) : given = SubSeq(Written[e], 1, n)
Followed(e, given) == \E rest \in Rests : given = Written[e] \o rest
Sent ==
    /\ request.tree \in Exprs
    /\ \/ request.tokens = << >>
       \/ /\ Textual(request.tree)
          /\ CutShort(request.tree, request.tokens) \/ Followed(request.tree, request.tokens)

Meant ==
    IF \/ Len(request.tokens) \in 1..(Len(Written[request.tree]) - 1)
       \/ Other \in AtomsOf[request.tree]
    THEN NoExpr ELSE request.tree

(* A request is read as its expression, unless tokens of that are missing.   *)
LEMMA ParsesBack ==
    ASSUME Sent
    PROVE  ParseOperations = Meant
<1> DEFINE e == request.tree
           w == Written[e]
           sent == request.tokens
           n == Len(w)
<1>0. e \in Exprs /\ w \in Seq(Tokens) /\ (sent = << >> \/ Textual(e))
  BY WrittenIn DEF Sent
<1>2. CASE sent = << >>
  <2>1. ~(Len(sent) \in 1..(n - 1))
    <3>1. Len(sent) = 0
      BY <1>2
    <3> HIDE DEF sent, n
    <3>2. QED
      BY <3>1
  <2>2. QED
    BY <1>2, <2>1 DEF ParseOperations, ExpressionFromAny, Meant
<1> SUFFICES ASSUME Textual(e) PROVE ParseOperations = Meant
  BY <1>0, <1>2
<1>1. e \in Exprs /\ w \in Seq(Tokens) /\ n \in Nat \ {0} /\ Other \notin AtomsOf[e]
  BY <1>0, FirstToken, TextualParts
<1>3. ASSUME sent # << >>, Last \in Nat, Last # 0, Fits(1, w)
      PROVE  ParseOperations = IF n <= Last THEN e ELSE NoExpr
  <2>1. 1 \in Positions
    BY <1>3 DEF Positions
  <2>2. Read[1].one = Outcome(e, 1 + n)
    BY <1>1, <1>3, <2>1, AllReadBack DEF ReadsBack
  <2>3. 1 + n <= Last + 1 <=> n <= Last
    BY <1>1, <1>3
  <2>4. Outcome(e, 1 + n).expr = IF n <= Last THEN e ELSE NoExpr
    BY <2>3 DEF Outcome, Refused
  <2>5. QED
    BY <1>3, <2>2, <2>4 DEF ParseOperations
<1>4. CASE CutShort(e, sent)
  <2>1. PICK m \in 1..(n - 1) : sent = SubSeq(w, 1, m)
    BY <1>4 DEF CutShort
  <2> HIDE DEF n, w, sent
  <2>2. m \in Nat /\ 1 <= m /\ m < n /\ n = Len(w)
    BY <1>1, <2>1 DEF n
  <2>3. Len(sent) = m /\ \A k \in 1..m : sent[k] = w[k]
    <3>1. /\ Len(SubSeq(w, 1, m)) = m
          /\ \A k \in 1..m : SubSeq(w, 1, m)[k] = w[k]
      BY <1>1, <2>2
    <3>2. QED
      BY <2>1, <3>1
  <2>4. Last = m /\ sent # << >>
    BY <2>2, <2>3 DEF Last, sent
  <2>5. Fits(1, w)
    <3>1. \A k \in 1..n : 1 + k - 1 = k /\ (k <= m => k \in 1..m)
      BY <2>2
    <3>2. QED
      BY <2>2, <2>3, <2>4, <3>1 DEF Fits, TokenAt, sent
  <2>6. m \in 1..(n - 1) /\ ~(n <= m) /\ m # 0
    BY <2>2
  <2>7. ParseOperations = NoExpr
    BY <1>3, <2>2, <2>4, <2>5, <2>6
  <2>8. QED
    BY <2>3, <2>6, <2>7 DEF Meant, n, w, sent
<1>5. CASE Followed(e, sent)
  <2>1. PICK rest \in Rests : sent = w \o rest
    BY <1>5 DEF Followed
  <2>2. rest \in Seq(Tokens)
    <3>1. rest \in Seq(STRING)
      BY ExprsAssumption
    <3>2. Len(rest) \in Nat /\ rest \in [1..Len(rest) -> STRING]
      BY <3>1
    <3>3. rest \in [1..Len(rest) -> Tokens]
      BY <3>2 DEF Tokens
    <3>4. QED
      BY <3>2, <3>3
  <2> HIDE DEF n, w, sent
  <2>3. /\ Len(w) = n /\ n \in Nat /\ Len(rest) \in Nat /\ Len(sent) = n + Len(rest)
        /\ \A k \in 1..n : sent[k] = w[k]
    BY <1>1, <2>1, <2>2, ConcatFacts DEF n
  <2>4. Last = n + Len(rest) /\ Last \in Nat /\ n <= Last /\ Last # 0
    BY <1>1, <2>3 DEF Last, sent
  <2>5. Fits(1, w)
    <3>1. \A k \in 1..n : 1 + k - 1 = k
      BY <2>3
    <3>2. QED
      BY <2>3, <3>1 DEF Fits, TokenAt, sent
  <2>6. sent # << >>
    BY <2>4 DEF Last, sent
  <2>7. ParseOperations = e
    BY <1>3, <2>4, <2>5, <2>6
  <2>8. ~(Len(sent) \in 1..(n - 1))
    BY <2>3
  <2>9. QED
    BY <1>1, <2>7, <2>8 DEF Meant, n, w, sent
<1>6. QED
  BY <1>2, <1>4, <1>5 DEF Sent
-----------------------------------------------------------------------------
(* Between requests of AggregateInit and the response: what was read is the  *)
(* expression, and measures are the answers to all queries or to none.       *)
AggregateInv ==
    /\ Sent
    /\ expr # NoExpr => expr \in Exprs
    /\ measures = Unasked \/ Answered
    /\ StatusExplained
    /\ TimesExplained
    /\ SExprMeansTree
    /\ NonFiniteExplained

(* A request that was just sent is as the invariant says.                    *)
LEMMA AggregateInvInit == AggregateInit => AggregateInv
<1> SUFFICES ASSUME AggregateInit PROVE AggregateInv
  OBVIOUS
<1>1. Sent
  <2>1. PICK e \in Exprs :
           \/ request = [tree |-> e, tokens |-> << >>]
           \/ /\ Textual(e)
              /\ \/ \E n \in 1..(Len(Written[e]) - 1) :
                       request = [tree |-> e, tokens |-> SubSeq(Written[e], 1, n)]
                 \/ \E rest \in Rests : request = [tree |-> e, tokens |-> Written[e] \o rest]
    BY DEF AggregateInit
  <2>2. request.tree = e
    BY <2>1
  <2>3. \/ request.tokens = << >>
        \/ Textual(e) /\ (CutShort(e, request.tokens) \/ Followed(e, request.tokens))
    <3>1. CASE request = [tree |-> e, tokens |-> << >>]
      BY <3>1
    <3>2. ASSUME NEW n \in 1..(Len(Written[e]) - 1),
                 request = [tree |-> e, tokens |-> SubSeq(Written[e], 1, n)]
          PROVE  CutShort(e, request.tokens)
      <4>1. request.tokens = SubSeq(Written[e], 1, n)
        BY <3>2
      <4>2. QED
        BY <4>1 DEF CutShort
    <3>3. ASSUME NEW rest \in Rests, request = [tree |-> e, tokens |-> Written[e] \o rest]
          PROVE  Followed(e, request.tokens)
      <4>1. request.tokens = Written[e] \o rest
        BY <3>3
      <4>2. QED
        BY <4>1 DEF Followed
    <3>4. QED
      BY <2>1, <3>1, <3>2, <3>3
  <2>4. QED
    BY <2>2, <2>3 DEF Sent
<1>2. QED
  BY <1>1 DEF AggregateInit, AggregateInv, StatusExplained, TimesExplained, SExprMeansTree,
              NonFiniteExplained

(* The response of an evaluation is explained by what Eval means.            *)
LEMMA Evaluated ==
    ASSUME Answered, expr \in Exprs, Evaluate
    PROVE  StatusExplained' /\ TimesExplained' /\ NonFiniteExplained'
<1> DEFINE value == Eval[expr]
<1>1. Means(expr, value)
  BY EvalMeans
<1>2. /\ code' = CASE value.kind = "error"  -> 502
                   [] value.kind = "series" -> 200
                   [] OTHER                 -> 400
      /\ series' = IF value.kind = "series" THEN value.series ELSE << >>
  BY DEF Evaluate
<1>u. expr' = expr /\ measures' = measures /\ expr # NoExpr
  BY DEF Evaluate
<1> HIDE DEF value
<1>3a. code' = IF value.kind = "error" THEN 502 ELSE IF value.kind = "series" THEN 200 ELSE 400
  BY <1>2
<1>3. StatusExplained'
  <2>1. value.kind = IF \E m \in MetricsOf(expr), r \in OfResources : measures[<<m, r>>] = Failed
                     THEN "error" ELSE KindOf[expr]
    BY <1>1 DEF Means, Fails
  <2>2. QED
    <3>1. code' = IF \/ KindOf[expr] = "error"
                     \/ \E m \in MetricsOf(expr), r \in OfResources : measures[<<m, r>>] = Failed
                  THEN 502 ELSE IF KindOf[expr] = "series" THEN 200 ELSE 400
      BY <1>3a, <2>1
    <3>2. expr' # NoExpr
      BY <1>u
    <3>3. (\E m \in MetricsOf(expr), r \in OfResources : measures[<<m, r>>] = Failed)'
             <=> \E m \in MetricsOf(expr), r \in OfResources : measures[<<m, r>>] = Failed
      BY <1>u
    <3>4. KindOf[expr]' = KindOf[expr]
      BY <1>u
    <3>5. QED
      BY ONLY <3>1, <3>2, <3>3, <3>4 DEF StatusExplained
<1>4. code' = 200 => value.kind = "series" /\ series' = value.series
  BY <1>2
<1>5. TimesExplained'
  <2>1. ASSUME code' = 200, NEW t
        PROVE  t \in DOMAIN series' <=> Present(expr, t)
    <3>1. HasAt(value, t) <=> Present(expr, t)
      BY <1>1, <1>4, <2>1 DEF Means
    <3>2. QED
      BY <1>4, <2>1, <3>1 DEF HasAt
  <2>2. code' = 200 => \A t : t \in DOMAIN series' <=> Present(expr, t)'
    <3>1. ASSUME NEW t PROVE Present(expr, t)' <=> Present(expr, t)
      BY <1>u DEF Present
    <3>2. QED
      BY <2>1, <3>1
  <2>3. ASSUME code' = 200, NEW t
        PROVE  (t \in DOMAIN series <=>
                  \A m \in MetricsOf(expr) : \E r \in OfResources :
                     measures[<<m, r>>] # Gone /\ t \in DOMAIN measures[<<m, r>>])'
    BY <2>2, <2>3 DEF Present
  <2>4. QED
    BY <2>3 DEF TimesExplained
<1>6. NonFiniteExplained'
  <2>1. ASSUME code' = 200, NEW t \in DOMAIN series', ~IsFinite(series'[t]), ~(series'[t][3] > 0)
        PROVE  HasNonFinite(expr, t)
    <3>1. ~HasNonFinite(expr, t) => value.series[t] \in Fine
      BY <1>1, <1>4, <2>1 DEF Means, FineAt
    <3>2. \A x \in Fine : IsFinite(x) \/ x[3] > 0
      BY DEF IsFinite, Fine, Floats
    <3>3. QED
      BY <1>4, <2>1, <3>1, <3>2
  <2>2. QED
    BY <1>u, <2>1 DEF NonFiniteExplained, HasNonFinite
<1>7. QED
  BY <1>3, <1>5, <1>6

(* Every step keeps it so.                                                   *)
LEMMA AggregateInvNext == AggregateInv /\ [AggregateNext]_aggregateVars => AggregateInv'
<1> SUFFICES ASSUME AggregateInv, [AggregateNext]_aggregateVars
             PROVE  AggregateInv'
  OBVIOUS
<1> USE DEF AggregateInv
<1>1. CASE ParseBody
  <2>1. /\ expr' = ParseOperations /\ code' = IF ParseOperations = NoExpr THEN 400 ELSE 0
        /\ request' = request /\ measures' = measures
    BY <1>1 DEF ParseBody
  <2>2. ParseOperations = Meant
    BY ParsesBack
  <2>3. Sent' /\ (measures = Unasked \/ Answered)'
    BY <2>1 DEF Sent, Answered
  <2>4. request.tree \in Exprs
    BY DEF Sent
  <2>5. (expr # NoExpr => expr \in Exprs)'
    BY <2>1, <2>2, <2>4 DEF Meant
  <2>6. StatusExplained' /\ TimesExplained' /\ NonFiniteExplained'
    BY <2>1 DEF StatusExplained, TimesExplained, NonFiniteExplained
  <2>7. SExprMeansTree'
    BY <2>1, <2>2 DEF SExprMeansTree, Meant
  <2>8. QED
    BY <2>3, <2>5, <2>6, <2>7
<1>2. CASE Answer
  <2>1. /\ code = 0 /\ code' = code /\ request' = request /\ expr' = expr
    BY <1>2 DEF Answer
  <2>a. measures' \in [Metrics \X OfResources -> Answers]
    <3>1. PICK given \in [MetricsOf(expr) \X OfResources -> Answers] :
             measures' = [q \in Metrics \X OfResources |-> IF q \in DOMAIN given THEN given[q] ELSE Gone]
      BY <1>2 DEF Answer
    <3>2. \A q : (IF q \in DOMAIN given THEN given[q] ELSE Gone) \in Answers
      BY AnswersAssumption
    <3>3. QED
      BY <3>1, <3>2
  <2>2. Sent' /\ Answered'
    BY <2>1, <2>a DEF Sent, Answered
  <2>3. StatusExplained' /\ TimesExplained' /\ NonFiniteExplained' /\ SExprMeansTree'
    BY <2>1 DEF StatusExplained, TimesExplained, NonFiniteExplained, SExprMeansTree
  <2>4. QED
    BY <2>1, <2>2, <2>3
<1>3. CASE Evaluate
  <2>1. /\ expr # NoExpr /\ measures # Unasked
        /\ request' = request /\ measures' = measures /\ expr' = expr
    BY <1>3 DEF Evaluate
  <2>2. Sent' /\ Answered'
    BY <2>1 DEF Sent, Answered
  <2>3. StatusExplained' /\ TimesExplained' /\ NonFiniteExplained'
    BY <1>3, <2>1, Evaluated
  <2>4. SExprMeansTree'
    BY <2>1 DEF SExprMeansTree
  <2>5. QED
    BY <2>1, <2>2, <2>3, <2>4
<1>4. CASE UNCHANGED aggregateVars
  <2>1. /\ request' = request /\ measures' = measures /\ expr' = expr
        /\ code' = code /\ series' = series
    BY <1>4 DEF aggregateVars
  <2>2. Sent' /\ (measures = Unasked \/ Answered)' /\ SExprMeansTree'
    BY <2>1 DEF Sent, Answered, SExprMeansTree
  <2>3. StatusExplained'
    <3>1. StatusExplained
      OBVIOUS
    <3>2. QED
      BY ONLY <2>1, <3>1 DEF StatusExplained
  <2>4. TimesExplained'
    BY <2>1 DEF TimesExplained
  <2>5. NonFiniteExplained'
    BY <2>1 DEF NonFiniteExplained
  <2>6. QED
    BY <2>1, <2>2, <2>3, <2>4, <2>5
<1>5. QED
  BY <1>1, <1>2, <1>3, <1>4 DEF AggregateNext

(* The invariant of the specification.                                       *)
LEMMA AggregateInvAlways == AggregateSpec => []AggregateInv
BY AggregateInvInit, AggregateInvNext, PTL DEF AggregateSpec

(* The status is 400 for what cannot be parsed or is no series, 502 for what *)
(* makes no sense or had a failing query anywhere in it, else 200.           *)
THEOREM AlwaysStatusExplained == AggregateSpec => []StatusExplained
BY AggregateInvAlways, PTL DEF AggregateInv

(* At any nesting, there is a measure at the timestamps that each metric has *)
(* for some resource, and at no other.                                       *)
THEOREM AlwaysTimesExplained == AggregateSpec => []TimesExplained
BY AggregateInvAlways, PTL DEF AggregateInv

(* Tokens mean the expression they were written for, if it is complete.      *)
THEOREM AlwaysSExprMeansTree == AggregateSpec => []SExprMeansTree
BY AggregateInvAlways, PTL DEF AggregateInv

(* What is no number in a response comes from Prometheus, from the client or *)
(* from an overflow, never from a division by zero.                          *)
THEOREM AlwaysNonFiniteExplained == AggregateSpec => []NonFiniteExplained
BY AggregateInvAlways, PTL DEF AggregateInv
=============================================================================
