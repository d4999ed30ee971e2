--------------------------- MODULE MeasuresProofs ---------------------------
(* For every clock, request, configuration and set of series: proper         *)
(* requests have measures, of the whole period, each instant once.           *)
(*                                                                           *)
(* The prover has no induction over data, but it has that a set of numbers   *)
(* has a least one, and so a family of finite sets one that is smallest.     *)
(* That is enough for the sums (FoldFunction) of this module.                *)
EXTENDS Measures, FiniteSetTheorems, TLAPS

(* Quotients round down, and products keep the order.                        *)
LEMMA DivIs ==
    ASSUME NEW a \in Int, NEW b \in Nat \ {0}
    PROVE  a \div b \in Int /\ (a \div b) * b <= a /\ a < (a \div b) * b + b
BY SMT

LEMMA DivUnique ==
    ASSUME NEW a \in Int, NEW b \in Nat \ {0}, NEW q \in Int, q * b <= a, a < q * b + b
    PROVE  a \div b = q
BY SMT

LEMMA DivMono ==
    ASSUME NEW a \in Int, NEW c \in Int, NEW b \in Nat \ {0}, a <= c
    PROVE  a \div b <= c \div b
BY SMT

LEMMA TimesMono ==
    ASSUME NEW j \in Int, NEW k \in Int, NEW b \in Nat, j <= k
    PROVE  j * b <= k * b
BY SMT

LEMMA TimesStrict ==
    ASSUME NEW j \in Int, NEW k \in Int, NEW b \in Nat, j * b < k * b
    PROVE  j < k
BY SMT

LEMMA Products ==
    ASSUME NEW a \in Int, NEW b \in Int, NEW c \in Int
    PROVE  /\ (a + b) * c = a * c + b * c
           /\ (a - b) * c = a * c - b * c
           /\ (a * b) * c = a * (b * c)
           /\ a * b = b * a /\ a * b \in Int
BY SMT
-----------------------------------------------------------------------------
(* A set of numbers has a least one.                                         *)
LEMMA Least ==
    ASSUME NEW T, T \subseteq Nat, T # {}
    PROVE  \E n \in T : \A m \in T : n <= m
<1>1. PICK n \in T : \A m \in T : ~ (<<m, n>> \in OpToRel(<, Nat))
  BY WFMin, NatLessThanWellFounded
<1>2. ASSUME NEW m \in T, m < n
      PROVE  <<m, n>> \in OpToRel(<, Nat)
  <2>1. <<m, n>> \in {ss \in Nat \X Nat : ss[1] < ss[2]}
    BY <1>2
  <2>2. QED
    BY ONLY <2>1 DEF OpToRel
<1>3. \A m \in T : ~(m < n)
  BY <1>1, <1>2
<1>4. QED
  BY <1>3

(* A family of finite sets has one that is smallest: induction over finite   *)
(* sets, one element at a time.                                              *)
LEMMA Smallest ==
    ASSUME NEW D, IsFiniteSet(D), NEW T, T \subseteq SUBSET D, T # {}
    PROVE  \E S \in T : IsFiniteSet(S) /\ \A x \in S : S \ {x} \notin T
<1> DEFINE sizes == {Cardinality(S) : S \in T}
<1>1. \A S \in T : IsFiniteSet(S) /\ Cardinality(S) \in Nat
  BY FS_Subset, FS_CardinalityType
<1>2. sizes \subseteq Nat /\ sizes # {}
  BY <1>1
<1> HIDE DEF sizes
<1>3. PICK n \in sizes : \A m \in sizes : n <= m
  BY <1>2, Least
<1>4. PICK S \in T : Cardinality(S) = n
  BY DEF sizes
<1>5. ASSUME NEW x \in S, S \ {x} \in T
      PROVE  FALSE
  <2>1. Cardinality(S \ {x}) = Cardinality(S) - 1
    BY <1>1, FS_RemoveElement
  <2>2. Cardinality(S \ {x}) \in sizes
    BY <1>5 DEF sizes
  <2>3. QED
    BY <1>1, <1>3, <1>4, <2>1, <2>2
<1>6. QED
  BY <1>1, <1>5
-----------------------------------------------------------------------------
(* Sum adds up the values of a function one by one, in an order it chooses.  *)
One(S) == CHOOSE x \in S : TRUE
Adds(h, f, D) == h = [S \in SUBSET D |-> IF S = {} THEN 0 ELSE f[One(S)] + h[S \ {One(S)}]]
SumOn(f, S) == (CHOOSE h : Adds(h, f, DOMAIN f))[S]
Numbers(f) == IsFiniteSet(DOMAIN f) /\ \A x \in DOMAIN f : f[x] \in Int

LEMMA SumIs ==
    ASSUME NEW f
    PROVE  Sum(f) = SumOn(f, DOMAIN f)
BY DEF Sum, FoldFunction, FoldFunctionOnSet, MapThenFoldSet, SumOn, Adds, One

(* The recursion of the fold defines a function.                             *)
LEMMA AddsExists ==
    ASSUME NEW f, NEW D, IsFiniteSet(D)
    PROVE  \E h : Adds(h, f, D)
<1> DEFINE upto(n) == {S \in SUBSET D : Cardinality(S) <= n}
           AddsTo(h, n) ==
               h = [S \in upto(n) |-> IF S = {} THEN 0 ELSE f[One(S)] + h[S \ {One(S)}]]
           bad == {n \in Nat : ~ \E h : AddsTo(h, n)}
<1>1. \A S \in SUBSET D : IsFiniteSet(S) /\ Cardinality(S) \in Nat /\ Cardinality(S) <= Cardinality(D)
  BY FS_Subset, FS_CardinalityType
<1>2. Cardinality(D) \in Nat
  BY FS_CardinalityType
<1>3. bad = {}
  <2> SUFFICES ASSUME bad # {} PROVE FALSE
    OBVIOUS
  <2> HIDE DEF AddsTo
  <2>1. PICK n \in bad : \A m \in bad : n <= m
    BY Least
  <2>2. ASSUME NEW S \in upto(n), S # {}
        PROVE  /\ S \ {One(S)} \in SUBSET D /\ n # 0
               /\ Cardinality(S \ {One(S)}) = Cardinality(S) - 1
    <3>1. One(S) \in S
      BY <2>2 DEF One
    <3>2. Cardinality(S \ {One(S)}) = Cardinality(S) - 1
      BY <1>1, <3>1, FS_RemoveElement
    <3>3. Cardinality(S) # 0
      BY <1>1, <2>2, FS_EmptySet
    <3>4. QED
      BY <1>1, <3>2, <3>3
  <2>3. CASE n = 0
    <3> DEFINE h == [S \in upto(n) |-> 0]
    <3>1. \A S \in upto(n) : S = {}
      BY <2>2, <2>3
    <3>2. h = [S \in upto(n) |-> IF S = {} THEN 0 ELSE f[One(S)] + h[S \ {One(S)}]]
      BY <3>1
    <3>3. QED
      BY <2>1, <3>2 DEF AddsTo
  <2>4. CASE n # 0
    <3>1. n - 1 \in Nat /\ n - 1 \notin bad
      BY <2>1, <2>4
    <3>2. PICK h : AddsTo(h, n - 1)
      BY <3>1
    <3> DEFINE k == [S \in upto(n) |-> IF S = {} THEN 0 ELSE f[One(S)] + h[S \ {One(S)}]]
    <3>3. ASSUME NEW R \in upto(n - 1)
          PROVE  k[R] = h[R]
      <4>1. R \in upto(n)
        BY <1>1, <2>1
      <4>2. h[R] = IF R = {} THEN 0 ELSE f[One(R)] + h[R \ {One(R)}]
        BY <3>2, <3>3 DEF AddsTo
      <4>3. QED
        BY <4>1, <4>2
    <3>4. \A S \in upto(n) : S # {} => S \ {One(S)} \in upto(n - 1)
      BY <1>1, <2>1, <2>2
    <3>5. \A S \in upto(n) : S # {} => k[S \ {One(S)}] = h[S \ {One(S)}]
      BY <3>3, <3>4
    <3>6. k = [S \in upto(n) |-> IF S = {} THEN 0 ELSE f[One(S)] + k[S \ {One(S)}]]
      BY <3>5
    <3>7. QED
      BY <2>1, <3>6 DEF AddsTo
  <2>5. QED
    BY <2>3, <2>4
<1>4. upto(Cardinality(D)) = SUBSET D
  BY <1>1
<1>5. \E h : AddsTo(h, Cardinality(D))
  BY <1>2, <1>3
<1> HIDE DEF upto
<1>6. QED
  BY <1>4, <1>5 DEF Adds

LEMMA SumOnIs ==
    ASSUME NEW f, IsFiniteSet(DOMAIN f), NEW S \in SUBSET DOMAIN f
    PROVE  SumOn(f, S) = IF S = {} THEN 0 ELSE f[One(S)] + SumOn(f, S \ {One(S)})
<1> DEFINE h == CHOOSE h : Adds(h, f, DOMAIN f)
<1>1. Adds(h, f, DOMAIN f)
  BY AddsExists
<1>2. \A R : SumOn(f, R) = h[R]
  BY DEF SumOn
<1> HIDE DEF h
<1>3. S \ {One(S)} \in SUBSET DOMAIN f
  OBVIOUS
<1>4. h[S] = IF S = {} THEN 0 ELSE f[One(S)] + h[S \ {One(S)}]
  BY <1>1 DEF Adds
<1>5. QED
  BY <1>2, <1>4

LEMMA SumOnInt ==
    ASSUME NEW f, Numbers(f), NEW S \in SUBSET DOMAIN f
    PROVE  SumOn(f, S) \in Int
<1> DEFINE bad == {R \in SUBSET DOMAIN f : SumOn(f, R) \notin Int}
<1>1. IsFiniteSet(DOMAIN f)
  BY DEF Numbers
<1> SUFFICES ASSUME bad # {} PROVE FALSE
  OBVIOUS
<1>2. PICK R \in bad : IsFiniteSet(R) /\ \A x \in R : R \ {x} \notin bad
  BY <1>1, Smallest
<1>3. SumOn(f, R) = IF R = {} THEN 0 ELSE f[One(R)] + SumOn(f, R \ {One(R)})
  BY <1>1, SumOnIs
<1>4. CASE R = {}
  BY <1>3, <1>4
<1>5. CASE R # {}
  <2>1. One(R) \in R
    BY <1>5 DEF One
  <2>2. SumOn(f, R \ {One(R)}) \in Int
    BY <1>2, <2>1
  <2>3. f[One(R)] \in Int
    BY <2>1 DEF Numbers
  <2>4. QED
    BY <1>3, <1>5, <2>2, <2>3
<1>6. QED
  BY <1>4, <1>5

(* The order does not matter: any element can be taken out first.            *)
LEMMA SumOnStep ==
    ASSUME NEW f, Numbers(f), NEW S \in SUBSET DOMAIN f, NEW x \in S
    PROVE  SumOn(f, S) = f[x] + SumOn(f, S \ {x})
<1> DEFINE bad == {R \in SUBSET DOMAIN f :
                     \E y \in R : SumOn(f, R) # f[y] + SumOn(f, R \ {y})}
<1>1. IsFiniteSet(DOMAIN f)
  BY DEF Numbers
<1> SUFFICES ASSUME bad # {} PROVE FALSE
  OBVIOUS
<1>2. PICK R \in bad : IsFiniteSet(R) /\ \A y \in R : R \ {y} \notin bad
  BY <1>1, Smallest
<1>3. PICK y \in R : SumOn(f, R) # f[y] + SumOn(f, R \ {y})
  OBVIOUS
<1> DEFINE z == One(R)
<1>4. z \in R
  BY <1>3 DEF One
<1>5. SumOn(f, R) = f[z] + SumOn(f, R \ {z})
  BY <1>1, <1>3, SumOnIs
<1> HIDE DEF z
<1>6. z # y
  BY <1>3, <1>5
<1>7. R \ {z} \in SUBSET DOMAIN f /\ R \ {y} \in SUBSET DOMAIN f
      /\ y \in R \ {z} /\ z \in R \ {y}
  BY <1>3, <1>4, <1>6
<1>8. SumOn(f, R \ {z}) = f[y] + SumOn(f, (R \ {z}) \ {y})
  BY <1>2, <1>4, <1>7
<1>9. SumOn(f, R \ {y}) = f[z] + SumOn(f, (R \ {y}) \ {z})
  BY <1>2, <1>3, <1>7
<1>10. (R \ {z}) \ {y} = (R \ {y}) \ {z}
  OBVIOUS
<1>11. f[y] \in Int /\ f[z] \in Int /\ SumOn(f, (R \ {y}) \ {z}) \in Int
  BY <1>3, <1>4, SumOnInt DEF Numbers
<1>12. QED
  BY <1>3, <1>5, <1>8, <1>9, <1>10, <1>11

LEMMA SumInt ==
    ASSUME NEW f, Numbers(f)
    PROVE  Sum(f) \in Int
BY SumIs, SumOnInt

(* Renaming what is added changes nothing.                                   *)
LEMMA SumRenamed ==
    ASSUME NEW f, Numbers(f), NEW A, DOMAIN f = A, NEW g, NEW B, DOMAIN g = B, NEW e \in [A -> B],
           \A x, y \in A : e[x] = e[y] => x = y,
           \A b \in B : \E x \in A : e[x] = b,
           \A x \in A : g[e[x]] = f[x]
    PROVE  Sum(g) = Sum(f)
<1> DEFINE image(S) == {e[x] : x \in S}
           bad == {S \in SUBSET A : SumOn(g, image(S)) # SumOn(f, S)}
<1>1. IsFiniteSet(A)
  BY DEF Numbers
<1>2. IsFiniteSet(B)
  <2>1. e \in Surjection(A, B)
    BY DEF Surjection
  <2>2. QED
    BY <1>1, <2>1, FS_Surjection
<1>3. \A b \in B : g[b] \in Int
  BY DEF Numbers
<1>4. Numbers(g)
  BY <1>2, <1>3 DEF Numbers
<1>5. bad = {}
  <2> SUFFICES ASSUME bad # {} PROVE FALSE
    OBVIOUS
  <2>1. PICK S \in bad : IsFiniteSet(S) /\ \A x \in S : S \ {x} \notin bad
    BY <1>1, Smallest
  <2>2. image(S) \in SUBSET B
    OBVIOUS
  <2>3. CASE S = {}
    <3>1. image(S) = {}
      BY <2>3
    <3>2. SumOn(g, image(S)) = 0 /\ SumOn(f, S) = 0
      BY <1>1, <1>2, <2>3, <3>1, SumOnIs
    <3>3. QED
      BY <3>2
  <2>4. CASE S # {}
    <3>1. PICK x \in S : TRUE
      BY <2>4
    <3>2. SumOn(f, S) = f[x] + SumOn(f, S \ {x})
      BY SumOnStep
    <3>3. e[x] \in image(S)
      OBVIOUS
    <3>4. SumOn(g, image(S)) = g[e[x]] + SumOn(g, image(S) \ {e[x]})
      BY <1>4, <2>2, <3>3, SumOnStep
    <3>5. image(S) \ {e[x]} = image(S \ {x})
      OBVIOUS
    <3>6. SumOn(g, image(S \ {x})) = SumOn(f, S \ {x})
      BY <2>1
    <3>7. g[e[x]] = f[x]
      OBVIOUS
    <3> HIDE DEF image
    <3>8. QED
      BY <3>2, <3>4, <3>5, <3>6, <3>7
  <2>5. QED
    BY <2>3, <2>4
<1>6. image(A) = B
  OBVIOUS
<1>7. SumOn(g, image(A)) = SumOn(f, A)
  BY <1>5
<1> HIDE DEF image
<1>8. QED
  BY <1>6, <1>7, SumIs
-----------------------------------------------------------------------------
(* A finite set of numbers that is not empty has a largest and a smallest    *)
(* one.                                                                      *)
LEMMA MaxIs ==
    ASSUME NEW S, S \subseteq Int, IsFiniteSet(S), S # {}
    PROVE  Max(S) \in S /\ \A y \in S : y <= Max(S)
<1> DEFINE bad == {R \in SUBSET S : R # {} /\ ~ \E x \in R : \A y \in R : y <= x}
<1>1. bad = {}
  <2> SUFFICES ASSUME bad # {} PROVE FALSE
    OBVIOUS
  <2>1. PICK R \in bad : IsFiniteSet(R) /\ \A x \in R : R \ {x} \notin bad
    BY Smallest
  <2>2. PICK x \in R : TRUE
    OBVIOUS
  <2>3. CASE R = {x}
    BY <2>3
  <2>4. CASE R # {x}
    <3>1. PICK m \in R \ {x} : \A y \in R \ {x} : y <= m
      BY <2>1, <2>2, <2>4
    <3>2. CASE x <= m
      BY <3>1, <3>2
    <3>3. CASE m <= x
      <4>1. \A y \in R : y <= x
        BY <3>1, <3>3
      <4>2. QED
        BY <4>1
    <3>4. QED
      BY <3>2, <3>3
  <2>5. QED
    BY <2>3, <2>4
<1>2. \E x \in S : \A y \in S : y <= x
  BY <1>1
<1>3. QED
  BY <1>2 DEF Max

LEMMA MinIs ==
    ASSUME NEW S, S \subseteq Int, IsFiniteSet(S), S # {}
    PROVE  Min(S) \in S /\ \A y \in S : Min(S) <= y
<1> DEFINE opposite == {-x : x \in S}
           e == [x \in S |-> -x]
<1>1. e \in Surjection(S, opposite)
  BY DEF Surjection
<1>2. opposite \subseteq Int /\ opposite # {}
  <2>1. \A x \in S : -x \in Int
    OBVIOUS
  <2>2. QED
    BY <2>1
<1>3. IsFiniteSet(opposite)
  <2> HIDE DEF opposite, e
  <2>1. QED
    BY <1>1, FS_Surjection
<1>4. PICK m \in opposite : \A y \in opposite : y <= m
  BY <1>2, <1>3, MaxIs
<1>5. -m \in S /\ \A y \in S : -m <= y
  BY <1>4
<1>6. QED
  BY <1>5 DEF Min
-----------------------------------------------------------------------------
(* The inputs stay, parameters are those of a proper request, and measures   *)
(* are those of what Prometheus was asked.                                   *)
Inputs == request \in Requests /\ config \in Configs /\ store \in Stores
ParamsSet == params # Unset => ~Improper /\ params = ParamsOf
Rejected ==
    /\ request.route # "policy" /\ params = Unset /\ status # 0 => Improper
    /\ status = 400 => params = Unset
Answered ==
    Measured =>
        /\ params # Unset /\ ~Refused /\ streams = Matrix
        /\ IF request.kind = "status"
           THEN \E order \in Orders(DOMAIN store) : series = LabelStatusMeasures(streams, order)
           ELSE series = RangeStreamsToMeasures(streams)

Inv == Inputs /\ ParamsSet /\ Rejected /\ Answered

(* What is computed from inputs and parameters stays with them.              *)
LEMMA Same ==
    ASSUME UNCHANGED <<request, config, store, params>>
    PROVE  /\ Improper' = Improper /\ ParamsOf' = ParamsOf
           /\ Refused' = Refused /\ Matrix' = Matrix
<1>1. OutputGranularity' = OutputGranularity /\ EndOf' = EndOf /\ AggregationOf' = AggregationOf
  BY DEF OutputGranularity, EndOf, AggregationOf
<1>2. StartOf' = StartOf
  BY <1>1 DEF StartOf
<1>3. Improper' = Improper /\ ParamsOf' = ParamsOf
  BY <1>1, <1>2 DEF Improper, ParamsOf
<1>4. Refused' = Refused
  BY DEF Refused, UsesWindow
<1>5. Instants' = Instants
  BY DEF Instants
<1>6. \A t : Present(t)' = Present(t)
  BY DEF Present
<1>7. \A s, t : Level(s, t)' = Level(s, t)
  BY DEF Level
<1>8. \A s, t, l : Scraped(s, t, l)' = Scraped(s, t, l)
  BY DEF Scraped, Present
<1>9. \A t : Inner(t)' = Inner(t)
  BY DEF Inner, Present, Level, Scraped
<1>10. \A f : OverTime(f)' = OverTime(f)
  BY DEF OverTime
<1>11. \A t : RangeWrapped(t)' = RangeWrapped(t)
  BY <1>9, <1>10 DEF RangeWrapped, OverTime, Inner, Present, Level, Scraped
<1>12. \A t : ValueAt(t)' = ValueAt(t)
  BY <1>11 DEF ValueAt, Present, Level, RangeWrapped, OverTime, Inner, Scraped
<1>13. Matrix' = Matrix
  BY <1>5, <1>12 DEF Matrix, Instants, ValueAt, RangeWrapped, OverTime, Inner, Present, Level, Scraped
<1>14. QED
  BY <1>3, <1>4, <1>13

LEMMA InitInv == Init => Inv
BY DEF Init, Inv, Inputs, ParamsSet, Rejected, Answered, Measured

LEMMA SameParams ==
    ASSUME Inv, UNCHANGED <<request, config, store, params>>
    PROVE  (Inputs /\ ParamsSet)'
BY Same DEF Inv, Inputs, ParamsSet

LEMMA RejectParamsInv ==
    ASSUME Inv, RejectParams
    PROVE  Inv'
<1>1. UNCHANGED <<request, config, store, params>> /\ params = Unset /\ Improper
      /\ status' \in {400, 502}
  BY DEF RejectParams, Fail
<1>2. Rejected' /\ Answered'
  BY <1>1, Same DEF Rejected, Answered, Measured
<1>3. QED
  BY <1>1, <1>2, SameParams DEF Inv

LEMMA MeasureParamsInv ==
    ASSUME Inv, MeasureParamsFromRequest
    PROVE  Inv'
<1>1. UNCHANGED <<request, config, store>> /\ params' = ParamsOf /\ ~Improper
      /\ status' = 0
  BY DEF MeasureParamsFromRequest
<1>2. OutputGranularity' = OutputGranularity /\ EndOf' = EndOf /\ AggregationOf' = AggregationOf
  BY <1>1 DEF OutputGranularity, EndOf, AggregationOf
<1>3. StartOf' = StartOf
  BY <1>1, <1>2 DEF StartOf
<1>4. Improper' = Improper /\ ParamsOf' = ParamsOf
  BY <1>1, <1>2, <1>3 DEF Improper, ParamsOf
<1>5. QED
  BY <1>1, <1>4 DEF Inv, Inputs, ParamsSet, Rejected, Answered, Measured

LEMMA QueryFailsInv ==
    ASSUME Inv, QueryFails
    PROVE  Inv'
<1>1. UNCHANGED <<request, config, store, params>> /\ params # Unset /\ status' = 502
  BY DEF QueryFails, Fail
<1>2. Rejected' /\ Answered'
  BY <1>1 DEF Rejected, Answered, Measured
<1>3. QED
  BY <1>1, <1>2, SameParams DEF Inv

LEMMA QueryRangeInv ==
    ASSUME Inv, QueryRange
    PROVE  Inv'
<1>1. UNCHANGED <<request, config, store, params>> /\ params # Unset /\ status' = 200
      /\ ~Refused /\ streams' = Matrix
  BY DEF QueryRange
<1>2. IF request.kind = "status"
      THEN \E order \in Orders(DOMAIN store) : series' = LabelStatusMeasures(streams', order)
      ELSE series' = RangeStreamsToMeasures(streams')
  BY DEF QueryRange
<1>3. CASE request.kind = "status"
  <2>1. PICK order \in Orders(DOMAIN store) : series' = LabelStatusMeasures(streams', order)
    BY <1>2, <1>3
  <2>2. series' = LabelStatusMeasures(streams, order)'
    BY <1>1, <2>1 DEF LabelStatusMeasures, Code
  <2>3. QED
    BY <1>1, <1>3, <2>2, Same, SameParams DEF Inv, Rejected, Answered
<1>4. CASE request.kind # "status"
  BY <1>1, <1>2, <1>4, Same, SameParams DEF Inv, Rejected, Answered
<1>5. QED
  BY <1>3, <1>4

LEMMA PolicyInv ==
    ASSUME Inv, SyntheticArchivePolicy \/ PanicInPolicy
    PROVE  Inv'
<1>1. UNCHANGED <<request, config, store, params>> /\ request.route = "policy"
      /\ status' \in {200, -1}
  BY DEF SyntheticArchivePolicy, PanicInPolicy, Fail
<1>2. Rejected' /\ Answered'
  BY <1>1 DEF Rejected, Answered, Measured
<1>3. QED
  BY <1>1, <1>2, SameParams DEF Inv

LEMMA StutterInv ==
    ASSUME Inv, UNCHANGED vars
    PROVE  Inv'
<1>1. UNCHANGED <<request, config, store, params>> /\ UNCHANGED <<streams, status, series>>
  BY DEF vars
<1>2. \A order : LabelStatusMeasures(streams, order)' = LabelStatusMeasures(streams, order)
  BY <1>1 DEF LabelStatusMeasures, Code
<1>3. RangeStreamsToMeasures(streams)' = RangeStreamsToMeasures(streams)
  BY <1>1 DEF RangeStreamsToMeasures, Times, Points
<1>4. Refused' = Refused /\ Matrix' = Matrix
  BY <1>1, Same
<1>5. Answered'
  BY <1>1, <1>2, <1>3, <1>4 DEF Inv, Answered, Measured
<1>6. Rejected'
  BY <1>1, Same DEF Inv, Rejected
<1>7. QED
  BY <1>1, <1>5, <1>6, SameParams DEF Inv

LEMMA Invariance == Spec => []Inv
<1>1. Inv /\ [Next]_vars => Inv'
  BY RejectParamsInv, MeasureParamsInv, QueryFailsInv, QueryRangeInv, PolicyInv, StutterInv DEF Next
<1>2. QED
  BY <1>1, InitInv, PTL DEF Spec
-----------------------------------------------------------------------------
(* A period is a positive number of hours, and the window of a granularity   *)
(* is no shorter than its step.                                              *)
LEMMA GranularityIs ==
    ASSUME NEW g \in Granularity
    PROVE  /\ ParsePromStep(g) \in Int /\ PromWindow(g) \in Int
           /\ ParsePromStep(g) <= PromWindow(g)
           /\ NormalizeGranularity(g) \in Granularity
           /\ g.form = "calendar" => 0 < ParsePromStep(g)
<1>1. g \in [form : {"none", "bare", "duration", "calendar", "other"}, ticks : Int,
             promql : BOOLEAN, unit : STRING]
  BY DEF Granularity
<1>2. NormalizeGranularity(g) \in Granularity
  BY <1>1 DEF Granularity, NormalizeGranularity
<1>3. Hour \in Nat /\ 0 < Hour
  BY MeasuresAssumption
<1>4. CASE g.form = "calendar"
  <2>1. g.unit \in {"W", "M", "Q", "H", "Y"}
    BY <1>4 DEF Granularity, Steps
  <2>2. /\ Steps[g.unit] \in Nat /\ 0 < Steps[g.unit] /\ Windows[g.unit] \in Nat
        /\ Steps[g.unit] <= Windows[g.unit]
    BY <2>1 DEF Steps, Windows
  <2>3. Steps[g.unit] * Hour <= Windows[g.unit] * Hour /\ 0 < Steps[g.unit] * Hour
    BY <1>3, <2>2, TimesMono, SMT
  <2>4. QED
    BY <1>2, <1>3, <1>4, <2>2, <2>3, Products DEF ParsePromStep, PromWindow
<1>5. CASE g.form # "calendar"
  BY <1>1, <1>2, <1>5 DEF ParsePromStep, PromWindow
<1>6. QED
  BY <1>4, <1>5

LEMMA OutputIs ==
    ASSUME Inv
    PROVE  OutputGranularity \in Granularity
<1>1. request.resample \in Granularity /\ request.granularity \in Granularity
      /\ config.default \in Granularity
  BY InputsAssumption DEF Inv, Inputs
<1>2. QED
  BY <1>1, GranularityIs DEF OutputGranularity

LEMMA PeriodIs ==
    ASSUME Inv
    PROVE  StartOf \in Int /\ EndOf \in Int
<1>1. request.at[1] \in Int /\ request.at[2] \in Int
  BY InputsAssumption DEF Inv, Inputs
<1>2. EndOf \in Int
  BY <1>1, InputsAssumption DEF EndOf
<1>3. ParsePromStep(OutputGranularity) \in Int
  BY OutputIs, GranularityIs
<1>4. \A n \in Int : WrapDuration(n) \in Int
  BY MeasuresAssumption DEF WrapDuration
<1>5. QED
  BY <1>1, <1>2, <1>3, <1>4 DEF StartOf

LEMMA ParamsAre ==
    ASSUME Inv, params # Unset
    PROVE  /\ params.start \in Int /\ params.end \in Int /\ params.start < params.end
           /\ params.step \in Int /\ params.window \in Int /\ params.step <= params.window
<1>1. params = ParamsOf /\ ~(StartOf >= EndOf)
  BY DEF Inv, ParamsSet, Improper
<1>2. /\ params.start = StartOf /\ params.end = EndOf
      /\ params.step = ParsePromStep(OutputGranularity)
      /\ params.window = PromWindow(OutputGranularity)
  BY <1>1 DEF ParamsOf
<1>3. QED
  BY <1>1, <1>2, OutputIs, PeriodIs, GranularityIs

(* What Prometheus accepts.                                                  *)
LEMMA NotRefused ==
    ASSUME Inv, params # Unset, ~Refused
    PROVE  /\ params.step \in Nat \ {0}
           /\ UsesWindow => params.window \in Nat \ {0}
BY ParamsAre DEF Refused

(* Cutting to seconds keeps the order and takes less than a second.          *)
LEMMA SecondIs ==
    ASSUME NEW t \in Int
    PROVE  SecondOf(t) \in Int /\ SecondOf(t) <= t /\ t < SecondOf(t) + Second
BY DivIs, Products, MeasuresAssumption DEF SecondOf

LEMMA SecondMono ==
    ASSUME NEW t \in Int, NEW u \in Int, t <= u
    PROVE  SecondOf(t) <= SecondOf(u)
<1>1. Second \in Nat \ {0}
  BY MeasuresAssumption
<1>2. t \div Second <= u \div Second /\ t \div Second \in Int /\ u \div Second \in Int
  BY <1>1, DivIs, DivMono
<1>3. QED
  BY <1>1, <1>2, TimesMono DEF SecondOf

LEMMA SecondExact ==
    ASSUME NEW n \in Int
    PROVE  SecondOf(n * Second) = n * Second
<1>1. Second \in Nat \ {0}
  BY MeasuresAssumption
<1>2. (n * Second) \div Second = n
  BY <1>1, Products, DivUnique
<1>3. QED
  BY <1>2 DEF SecondOf

(* The instants of a query, from the first to the last.                      *)
First == SecondOf(params.start)
Last == (SecondOf(params.end) - First) \div params.step

LEMMA InstantsAre ==
    ASSUME Inv, params # Unset, params.step \in Nat \ {0}
    PROVE  /\ First \in Int /\ Last \in Nat
           /\ Instants = {First + k * params.step : k \in 0..Last}
           /\ First + Last * params.step <= params.end
           /\ params.start - Second < First
           /\ \A t \in Instants : t \in Int /\ First <= t /\ t <= First + Last * params.step
<1> DEFINE step == params.step
           period == SecondOf(params.end) - First
<1>1. params.start \in Int /\ params.end \in Int /\ params.start < params.end
  BY ParamsAre
<1>2. First \in Int /\ SecondOf(params.end) \in Int /\ SecondOf(params.end) <= params.end
      /\ params.start < First + Second
  BY <1>1, SecondIs DEF First
<1>3. period \in Int /\ 0 <= period
  BY <1>1, <1>2, SecondMono DEF First
<1>4. Last \in Int /\ Last * step <= period /\ period < Last * step + step
  BY <1>3, DivIs DEF Last
<1>5. 0 <= Last
  <2>1. 0 \div step = 0 /\ 0 \div step <= period \div step
    BY <1>3, DivMono, DivUnique
  <2>2. QED
    BY <2>1 DEF Last
<1>6. Last * step \in Int
  BY <1>4, Products
<1>7. Instants = {First + k * step : k \in 0..Last}
  BY DEF Instants, First, Last
<1>8. \A k \in 0..Last : k * step \in Int /\ 0 * step <= k * step /\ k * step <= Last * step
                         /\ 0 * step = 0
  BY <1>4, <1>5, TimesMono, Products
<1> HIDE DEF step
<1>9. \A t \in Instants : t \in Int /\ First <= t /\ t <= First + Last * step
  BY <1>2, <1>6, <1>7, <1>8
<1>10. Second \in Int
  BY MeasuresAssumption
<1>11. QED
  BY <1>1, <1>2, <1>4, <1>5, <1>6, <1>7, <1>9, <1>10 DEF step

(* An instant is a number of steps after the first.                          *)
LEMMA EndsAre ==
    ASSUME Inv, params # Unset, params.step \in Nat \ {0}
    PROVE  Min(Instants) = First /\ Max(Instants) = First + Last * params.step
<1>1. First \in Instants /\ First + Last * params.step \in Instants
  BY InstantsAre, Products
<1>2. Min(Instants) \in Instants /\ \A t \in Instants : Min(Instants) <= t
  BY <1>1, InstantsAre DEF Min
<1>3. Max(Instants) \in Instants /\ \A t \in Instants : t <= Max(Instants)
  BY <1>1, InstantsAre DEF Max
<1>4. QED
  BY <1>1, <1>2, <1>3, InstantsAre

(* queryMeasuresWithParams leaves no part of the period out: the windows of  *)
(* the instants meet, for calendar units too.                                *)
THEOREM AlwaysCovered == Spec => []Covered
<1>1. ASSUME Inv, params # Unset, ~Refused, NEW t \in Int,
             Min(Instants) < t, t <= Max(Instants)
      PROVE  \E i \in Instants : i - params.window < t /\ t <= i
  <2> DEFINE step == params.step
             before == t - First - 1
             k == before \div step + 1
             i == First + k * step
  <2>1. step \in Nat \ {0} /\ params.window \in Int /\ step <= params.window
    BY <1>1, NotRefused, ParamsAre
  <2>2. First \in Int /\ Last \in Nat /\ Last * step \in Int
        /\ Instants = {First + j * step : j \in 0..Last}
    BY <1>1, <2>1, InstantsAre, Products
  <2>3. First < t /\ t <= First + Last * step
    BY <1>1, <2>1, EndsAre
  <2>4. before \in Nat /\ before \in Int /\ t = First + before + 1
    BY <2>2, <2>3
  <2> HIDE DEF step, before
  <2>5. k \in Int /\ (k - 1) * step <= before /\ before < (k - 1) * step + step
    <3> DEFINE q == before \div step
    <3>1. q \in Int /\ q * step <= before /\ before < q * step + step
      BY <2>1, <2>4, DivIs
    <3>2. k = q + 1
      OBVIOUS
    <3> HIDE DEF q, k
    <3>3. k - 1 = q
      BY <3>1, <3>2
    <3>4. QED
      BY <3>1, <3>2, <3>3
  <2> HIDE DEF k
  <2>6. (k - 1) * step = k * step - step /\ k * step \in Int
    BY <2>1, <2>5, Products
  <2>7. 0 < k
    <3>1. 0 * step < k * step /\ 0 * step = 0
      BY <2>1, <2>4, <2>5, <2>6, Products
    <3>2. QED
      BY <2>1, <2>5, <3>1, TimesStrict
  <2>8. k - 1 < Last
    <3>1. (k - 1) * step < Last * step
      BY <2>1, <2>2, <2>3, <2>4, <2>5, <2>6
    <3>2. QED
      BY <2>1, <2>2, <2>5, <3>1, TimesStrict
  <2>9. i \in Instants
    BY <2>2, <2>5, <2>7, <2>8
  <2>10. i - step < t /\ t <= i
    BY <2>1, <2>2, <2>4, <2>5, <2>6
  <2>11. QED
    BY <1>1, <2>1, <2>2, <2>6, <2>9, <2>10
<1>2. ASSUME Inv, NEW s \in DOMAIN store
      PROVE  store[s].high \subseteq Int
  BY <1>2, InputsAssumption DEF Inv, Inputs
<1>3. Inv => Covered
  BY <1>1, <1>2 DEF Covered
<1>4. QED
  BY <1>3, Invariance, PTL
-----------------------------------------------------------------------------
(* The answer of Prometheus has a point for each series with a value at an   *)
(* instant.                                                                  *)
LEMMA MatrixIs ==
    ASSUME NEW s, NEW t
    PROVE  /\ <<s, t>> \in Points(Matrix) <=> t \in Instants /\ s \in DOMAIN ValueAt(t)
           /\ t \in Instants /\ s \in DOMAIN ValueAt(t) => Matrix[s][t] = ValueAt(t)[s]
<1> DEFINE values == [u \in Instants |-> ValueAt(u)]
           names == UNION {DOMAIN values[u] : u \in Instants}
           row(r) == [u \in {v \in Instants : r \in DOMAIN values[v]} |-> values[u][r]]
<1>1. Matrix = [r \in names |-> row(r)]
  BY DEF Matrix
<1>2. \A u \in Instants : values[u] = ValueAt(u)
  OBVIOUS
<1> HIDE DEF values
<1>3. DOMAIN Matrix = names /\ \A r \in names : Matrix[r] = row(r)
  BY <1>1
<1>4. \A r : /\ DOMAIN row(r) = {u \in Instants : r \in DOMAIN ValueAt(u)}
             /\ \A u \in DOMAIN row(r) : row(r)[u] = ValueAt(u)[r]
  BY <1>2
<1>5. \A r, u : u \in Instants /\ r \in DOMAIN ValueAt(u) => r \in names
  BY <1>2
<1> HIDE DEF row, names
<1>6. <<s, t>> \in Points(Matrix) <=> s \in names /\ t \in DOMAIN row(s)
  BY <1>3 DEF Points
<1>7. QED
  BY <1>3, <1>4, <1>5, <1>6

(* Every point is one of these.                                              *)
LEMMA PointsAre ==
    ASSUME NEW p \in Points(Matrix)
    PROVE  p = <<p[1], p[2]>> /\ p[2] \in Instants /\ p[1] \in DOMAIN ValueAt(p[2])
<1>1. p = <<p[1], p[2]>>
  BY DEF Points
<1>2. QED
  BY <1>1, MatrixIs

LEMMA TimesAre ==
    Times(Matrix) = {SecondOf(t) : t \in {u \in Instants : DOMAIN ValueAt(u) # {}}}
<1>1. ASSUME NEW p \in Points(Matrix)
      PROVE  p[2] \in Instants /\ DOMAIN ValueAt(p[2]) # {}
  BY PointsAre
<1>2. ASSUME NEW t \in Instants, DOMAIN ValueAt(t) # {}
      PROVE  \E p \in Points(Matrix) : p[2] = t
  <2>1. PICK s : s \in DOMAIN ValueAt(t)
    BY <1>2
  <2>2. <<s, t>> \in Points(Matrix)
    BY <2>1, MatrixIs
  <2>3. QED
    BY <2>2
<1>3. QED
  BY <1>1, <1>2 DEF Times

(* With steps of whole seconds, instants are whole seconds.                  *)
LEMMA InstantsWhole ==
    ASSUME Inv, params # Unset, params.step \in Nat \ {0}, params.step % Second = 0
    PROVE  \A t \in Instants : SecondOf(t) = t
<1>1. Second \in Nat \ {0}
  BY MeasuresAssumption
<1>2. PICK n \in Int : params.step = n * Second
  <2>1. params.step = (params.step \div Second) * Second /\ params.step \div Second \in Int
    BY <1>1, SMT
  <2>2. QED
    BY <2>1
<1>3. PICK m \in Int : First = m * Second
  BY <1>1, ParamsAre, DivIs DEF First, SecondOf
<1>4. ASSUME NEW k \in Int
      PROVE  SecondOf(First + k * params.step) = First + k * params.step
  <2>1. k * params.step = (k * n) * Second /\ k * n \in Int
    BY <1>1, <1>2, Products
  <2>2. First + k * params.step = (m + k * n) * Second
    BY <1>1, <1>3, <2>1, Products
  <2>3. QED
    BY <2>1, <2>2, SecondExact
<1>5. QED
  BY <1>4, InstantsAre

(* Of some series of an answer one comes last.                               *)
LEMMA LastIs ==
    ASSUME store \in Stores, NEW order \in Orders(DOMAIN store),
           NEW S, S \subseteq DOMAIN store, S # {}
    PROVE  \E x \in S : \A y \in S : order[y] <= order[x]
<1> DEFINE ranks == {order[y] : y \in S}
<1>1. IsFiniteSet(DOMAIN store)
  BY InputsAssumption
<1>2. order \in [DOMAIN store -> 1..Cardinality(DOMAIN store)]
  BY DEF Orders, Injection
<1>3. Cardinality(DOMAIN store) \in Nat
  BY <1>1, FS_CardinalityType
<1> DEFINE n == Cardinality(DOMAIN store)
<1>4. ranks \subseteq 1..n
  <2>1. ASSUME NEW y \in S PROVE order[y] \in 1..n
    BY <1>2
  <2>2. QED
    BY <2>1
<1>5. IsFiniteSet(ranks)
  <2>1. IsFiniteSet(1..n)
    BY <1>3, FS_Interval
  <2>2. QED
    BY <1>4, <2>1, FS_Subset
<1>6. ranks \subseteq Int /\ ranks # {}
  BY <1>3, <1>4
<1>7. Max(ranks) \in ranks /\ \A k \in ranks : k <= Max(ranks)
  BY <1>5, <1>6, MaxIs
<1>8. PICK x \in S : order[x] = Max(ranks)
  BY <1>7
<1>9. QED
  BY <1>7, <1>8

(* labelStatusMeasures shows codes of series that are there, and the same    *)
(* one as long as the series are the same.                                   *)
THEOREM AlwaysStatusOfSeries == Spec => []StatusOfSeries
<1> DEFINE here(sec) == {p[1] : p \in {q \in Points(Matrix) : SecondOf(q[2]) = sec}}
           chosen(sec, order) == CHOOSE s \in here(sec) : \A t \in here(sec) : order[t] <= order[s]
<1>1. ASSUME Inv, Measured, request.kind = "status"
      PROVE  /\ params # Unset /\ params.step \in Nat \ {0}
             /\ \A t : DOMAIN ValueAt(t) = Present(t)
             /\ \E order \in Orders(DOMAIN store) :
                 /\ DOMAIN series = Times(Matrix)
                 /\ \A sec \in Times(Matrix) : series[sec] = Code(chosen(sec, order))
  <2>1. params # Unset /\ ~Refused /\ streams = Matrix
        /\ \E order \in Orders(DOMAIN store) : series = LabelStatusMeasures(streams, order)
    BY <1>1 DEF Inv, Answered
  <2>2. \A t : DOMAIN ValueAt(t) = Present(t)
    BY <1>1 DEF ValueAt
  <2>3. PICK order \in Orders(DOMAIN store) : series = LabelStatusMeasures(Matrix, order)
    BY <2>1
  <2>4. series = [sec \in Times(Matrix) |-> Code(chosen(sec, order))]
    BY <2>3 DEF LabelStatusMeasures
  <2> HIDE DEF chosen
  <2>5. DOMAIN series = Times(Matrix)
        /\ \A sec \in Times(Matrix) : series[sec] = Code(chosen(sec, order))
    BY <2>4
  <2>6. params.step \in Nat \ {0}
    BY <1>1, <2>1, NotRefused
  <2>7. QED
    BY <2>1, <2>2, <2>5, <2>6
<1>2. ASSUME Inv, Measured, request.kind = "status", NEW sec \in DOMAIN series
      PROVE  \E t \in Instants, s \in DOMAIN store :
                /\ SecondOf(t) = sec /\ s \in Present(t)
                /\ \/ store[s].label \in DOMAIN Codes /\ series[sec] = Codes[store[s].label]
                   \/ store[s].label \notin DOMAIN Codes /\ series[sec] = Codes["UNKNOWN"]
  <2>1. PICK order \in Orders(DOMAIN store) : DOMAIN series = Times(Matrix) /\ series[sec] = Code(chosen(sec, order))
    BY <1>1, <1>2
  <2> DEFINE s == chosen(sec, order)
  <2>2. here(sec) # {}
    BY <2>1 DEF Times
  <2>3. s \in here(sec)
    <3>1. here(sec) \subseteq DOMAIN store
      <4>1. \A p \in Points(Matrix) : p[1] \in DOMAIN store
        <5>1. \A t : Present(t) \subseteq DOMAIN store
          BY DEF Present
        <5>2. QED
          BY <1>1, <1>2, <5>1, PointsAre
      <4>2. QED
        BY <4>1
    <3>2. \E x \in here(sec) : \A y \in here(sec) : order[y] <= order[x]
      <4>1. store \in Stores
        BY <1>2 DEF Inv, Inputs
      <4>2. QED
        BY <2>2, <3>1, <4>1, LastIs
    <3>3. QED
      BY <3>2
  <2> HIDE DEF s
  <2>4. PICK p \in Points(Matrix) : SecondOf(p[2]) = sec /\ p[1] = s
    BY <2>3
  <2>5. p[2] \in Instants /\ s \in Present(p[2])
    BY <1>1, <1>2, <2>4, PointsAre
  <2>6. s \in DOMAIN store
    BY <2>5 DEF Present
  <2>7. series[sec] = Code(s)
    BY <2>1 DEF s
  <2>8. QED
    BY <2>4, <2>5, <2>6, <2>7 DEF Code
<1>3. ASSUME Inv, Measured, request.kind = "status", params.step % Second = 0,
             NEW t \in Instants, NEW u \in Instants, Present(t) = Present(u), Present(t) # {}
      PROVE  series[SecondOf(t)] = series[SecondOf(u)]
  <2>1. PICK order \in Orders(DOMAIN store) : \A sec \in Times(Matrix) : series[sec] = Code(chosen(sec, order))
    BY <1>1, <1>3
  <2>2. \A v \in Instants : SecondOf(v) = v
    BY <1>1, <1>3, InstantsWhole
  <2>3. ASSUME NEW v \in Instants
        PROVE  here(v) = Present(v)
    <3>1. \A p \in Points(Matrix) : SecondOf(p[2]) = v => p[1] \in Present(v)
      BY <1>1, <1>3, <2>2, PointsAre
    <3>2. ASSUME NEW s \in Present(v)
          PROVE  \E p \in Points(Matrix) : SecondOf(p[2]) = v /\ p[1] = s
      <4>1. <<s, v>> \in Points(Matrix)
        BY <1>1, <1>3, MatrixIs
      <4>2. QED
        BY <2>2, <4>1
    <3>3. QED
      BY <3>1, <3>2
  <2>4. t \in Times(Matrix) /\ u \in Times(Matrix)
    BY <1>1, <1>3, <2>2, TimesAre
  <2>5. chosen(t, order) = chosen(u, order)
    BY <1>3, <2>3
  <2> HIDE DEF chosen
  <2>6. QED
    BY <2>1, <2>2, <2>4, <2>5
<1>4. Inv => StatusOfSeries
  BY <1>2, <1>3 DEF StatusOfSeries
<1>5. QED
  BY <1>4, Invariance, PTL
-----------------------------------------------------------------------------
(* Values are numbers, of finitely many series.                              *)
Names == DOMAIN store \cup {"sum"}

LEMMA NamesAre ==
    ASSUME Inv
    PROVE  IsFiniteSet(DOMAIN store) /\ IsFiniteSet(Names)
<1>1. IsFiniteSet(DOMAIN store)
  BY InputsAssumption DEF Inv, Inputs
<1>2. QED
  BY <1>1, FS_AddElement DEF Names

LEMMA SummedIs ==
    ASSUME NEW f, Numbers(f)
    PROVE  /\ DOMAIN Summed(f) \subseteq {"sum"} /\ (DOMAIN f # {} => "sum" \in DOMAIN Summed(f))
           /\ \A s \in DOMAIN Summed(f) : Summed(f)[s] \in Int
BY SumInt DEF Summed

LEMMA LevelsAre ==
    ASSUME Inv, NEW t
    PROVE  /\ Numbers([s \in Present(t) |-> Level(s, t)])
           /\ Numbers([s \in Present(t) |-> 1])
<1>1. IsFiniteSet(Present(t))
  BY NamesAre, FS_Subset DEF Present
<1>2. \A s : Level(s, t) \in Int
  BY DEF Level
<1>3. QED
  BY <1>1, <1>2 DEF Numbers

LEMMA InnerIs ==
    ASSUME Inv, NEW t
    PROVE  DOMAIN Inner(t) \subseteq Names /\ \A s \in DOMAIN Inner(t) : Inner(t)[s] \in Int
<1>1. CASE request.kind = "plain"
  BY <1>1, LevelsAre DEF Inner, Names, Numbers, Present
<1>2. CASE request.kind = "summed"
  <2>1. Inner(t) = Summed([s \in Present(t) |-> Level(s, t)])
    BY <1>2 DEF Inner
  <2>2. QED
    BY <2>1, LevelsAre, SummedIs DEF Names
<1>3. CASE request.kind \notin {"plain", "summed"}
  <2> DEFINE seen == {r \in DOMAIN store :
                        Cardinality(Scraped(r, t, MinRateLookback(params.window))) >= 2}
             rates == [s \in seen |-> 1]
  <2>1. Inner(t) = Summed(rates)
    BY <1>3 DEF Inner
  <2>2. IsFiniteSet(seen)
    BY NamesAre, FS_Subset
  <2> HIDE DEF seen
  <2>3. Numbers(rates)
    BY <2>2 DEF Numbers
  <2> HIDE DEF rates
  <2>4. QED
    BY <2>1, <2>3, SummedIs DEF Names
<1>4. QED
  BY <1>1, <1>2, <1>3

(* The instants of a subquery are as finite as the window.                   *)
LEMMA SubqueryIs ==
    ASSUME NEW t \in Int, NEW window \in Nat \ {0}
    PROVE  Subquery(t, window) \subseteq Int /\ IsFiniteSet(Subquery(t, window))
<1> DEFINE from == (t - window) \div window + 1
           to == t \div window
           e == [k \in from..to |-> k * window]
<1>1. from \in Int /\ to \in Int
  BY DivIs
<1>2. Subquery(t, window) = {k * window : k \in from..to}
  BY DEF Subquery, SubqueryStep
<1> HIDE DEF from, to
<1>3. IsFiniteSet(from..to)
  BY <1>1, FS_Interval
<1>4. e \in Surjection(from..to, Subquery(t, window))
  BY <1>2 DEF Surjection
<1>5. \A k \in from..to : k * window \in Int
  BY <1>1, Products
<1> HIDE DEF e
<1>6. IsFiniteSet(Subquery(t, window))
  BY <1>3, <1>4, FS_Surjection
<1>7. QED
  BY <1>2, <1>5, <1>6

(* Every function over a window makes a number of numbers.                   *)
LEMMA OverTimeIs ==
    ASSUME NEW f, Numbers(f), DOMAIN f \subseteq Int, DOMAIN f # {}
    PROVE  OverTime(f) \in Int
<1>1. IsFiniteSet(Range(f)) /\ Range(f) \subseteq Int /\ Range(f) # {}
  <2> DEFINE e == [x \in DOMAIN f |-> f[x]]
  <2>1. e \in Surjection(DOMAIN f, Range(f))
    BY DEF Surjection, Range
  <2> HIDE DEF e
  <2>2. IsFiniteSet(Range(f))
    BY <2>1, FS_Surjection DEF Numbers
  <2>3. QED
    BY <2>2 DEF Range, Numbers
<1>2. Max(Range(f)) \in Int /\ Min(Range(f)) \in Int
  BY <1>1, MaxIs, MinIs
<1>3. Sum(f) \in Int
  BY SumInt
<1>4. Cardinality(DOMAIN f) \in Nat \ {0}
  BY FS_CardinalityType, FS_EmptySet DEF Numbers
<1>5. f[Max(DOMAIN f)] \in Int
  BY MaxIs DEF Numbers
<1>6. Sum(f) \div Cardinality(DOMAIN f) \in Int
  BY <1>3, <1>4, DivIs
<1>7. QED
  BY <1>2, <1>3, <1>4, <1>5, <1>6 DEF OverTime

LEMMA RangeWrappedIs ==
    ASSUME Inv, NEW t \in Int, params.window \in Nat \ {0}
    PROVE  /\ DOMAIN RangeWrapped(t) = UNION {DOMAIN Inner(u) : u \in Subquery(t, params.window)}
           /\ DOMAIN RangeWrapped(t) \subseteq Names
           /\ \A s \in DOMAIN RangeWrapped(t) : RangeWrapped(t)[s] \in Int
<1> DEFINE times == Subquery(t, params.window)
           at == [u \in times |-> Inner(u)]
           names == UNION {DOMAIN at[u] : u \in DOMAIN at}
           column(s) == [u \in {v \in DOMAIN at : s \in DOMAIN at[v]} |-> at[u][s]]
<1>1. RangeWrapped(t) = [s \in names |-> OverTime(column(s))]
  BY DEF RangeWrapped
<1>2. times \subseteq Int /\ IsFiniteSet(times)
  BY SubqueryIs
<1> HIDE DEF times
<1>3. DOMAIN at = times /\ \A u \in times : at[u] = Inner(u)
  OBVIOUS
<1> HIDE DEF at
<1>4. names = UNION {DOMAIN Inner(u) : u \in times}
  BY <1>3
<1>5. names \subseteq Names
  BY <1>4, InnerIs
<1>6. ASSUME NEW s \in names
      PROVE  OverTime(column(s)) \in Int
  <2> DEFINE c == column(s)
             during == {v \in times : s \in DOMAIN Inner(v)}
  <2>1. c = [u \in during |-> Inner(u)[s]]
    BY <1>3
  <2>2. during # {} /\ during \subseteq Int /\ IsFiniteSet(during)
    BY <1>2, <1>4, <1>6, FS_Subset
  <2>3. \A u \in during : Inner(u)[s] \in Int
    BY InnerIs
  <2> HIDE DEF c, during
  <2>4. Numbers(c) /\ DOMAIN c \subseteq Int /\ DOMAIN c # {}
    BY <2>1, <2>2, <2>3 DEF Numbers
  <2>5. OverTime(c) \in Int
    BY <2>4, OverTimeIs
  <2>6. QED
    BY <2>5 DEF c
<1> HIDE DEF names, column
<1>7. QED
  BY <1>1, <1>4, <1>5, <1>6 DEF times

LEMMA ValuesAre ==
    ASSUME Inv, params # Unset, ~Refused, NEW t \in Int
    PROVE  Numbers(ValueAt(t))
<1>1. CASE request.kind = "presence"
  <2> DEFINE f == [s \in Present(t) |-> 1]
  <2>1. ValueAt(t) = Summed(f) /\ Numbers(f)
    BY <1>1, LevelsAre DEF ValueAt
  <2> HIDE DEF f
  <2>2. DOMAIN Summed(f) \subseteq {"sum"} /\ \A s \in DOMAIN Summed(f) : Summed(f)[s] \in Int
    BY <2>1, SummedIs
  <2>3. IsFiniteSet(DOMAIN Summed(f))
    BY <2>2, FS_Singleton, FS_Subset
  <2>4. QED
    BY <2>1, <2>2, <2>3 DEF Numbers
<1>2. CASE request.kind = "status"
  BY <1>2, LevelsAre DEF ValueAt
<1>3. CASE request.kind \notin {"presence", "status"}
  <2>1. ValueAt(t) = RangeWrapped(t)
    BY <1>3 DEF ValueAt
  <2>2. UsesWindow
    BY <1>3, InputsAssumption DEF UsesWindow, Inv, Inputs
  <2>3. params.window \in Nat \ {0}
    BY <2>2, NotRefused
  <2>4. /\ DOMAIN RangeWrapped(t) \subseteq Names
        /\ \A s \in DOMAIN RangeWrapped(t) : RangeWrapped(t)[s] \in Int
    BY <2>3, RangeWrappedIs
  <2>5. IsFiniteSet(DOMAIN RangeWrapped(t))
    BY <2>4, NamesAre, FS_Subset
  <2>6. QED
    BY <2>1, <2>4, <2>5 DEF Numbers
<1>4. QED
  BY <1>1, <1>2, <1>3

(* rangeStreamsToMeasures adds up each instant once, and all of it.          *)
THEOREM AlwaysEachCounted == Spec => []EachCounted
<1>1. ASSUME Inv, Measured, request.kind # "status", params.step % Second = 0
      PROVE  /\ params # Unset /\ ~Refused /\ Instants \subseteq Int
             /\ \A t \in Instants : SecondOf(t) = t
             /\ series = RangeStreamsToMeasures(Matrix)
  <2>1. params # Unset /\ ~Refused /\ series = RangeStreamsToMeasures(Matrix)
    BY <1>1 DEF Inv, Answered
  <2>2. params.step \in Nat \ {0}
    BY <1>1, <2>1, NotRefused
  <2>3. QED
    BY <1>1, <2>1, <2>2, InstantsAre, InstantsWhole
<1>2. ASSUME Inv, Measured, request.kind # "status", params.step % Second = 0
      PROVE  DOMAIN series = {t \in Instants : DOMAIN ValueAt(t) # {}}
  <2>1. DOMAIN series = Times(Matrix)
    BY <1>1, <1>2 DEF RangeStreamsToMeasures
  <2>2. QED
    BY <1>1, <1>2, <2>1, TimesAre
<1>3. ASSUME Inv, Measured, request.kind # "status", params.step % Second = 0,
             NEW t \in Instants, DOMAIN ValueAt(t) # {}
      PROVE  series[SecondOf(t)] = Sum(ValueAt(t))
  <2> DEFINE f == ValueAt(t)
             A == DOMAIN f
             B == {q \in Points(Matrix) : SecondOf(q[2]) = t}
             g == [p \in B |-> Matrix[p[1]][p[2]]]
             e == [s \in A |-> <<s, t>>]
  <2>1. t \in Times(Matrix) /\ SecondOf(t) = t
    BY <1>1, <1>3, TimesAre
  <2>2. series[t] = Sum(g)
    BY <1>1, <1>3, <2>1 DEF RangeStreamsToMeasures
  <2>3. Numbers(f)
    BY <1>1, <1>3, ValuesAre
  <2>4. \A s \in A : <<s, t>> \in B /\ Matrix[s][t] = f[s]
    BY <2>1, MatrixIs
  <2>5. \A p \in B : p = <<p[1], t>> /\ p[1] \in A
    <3> SUFFICES ASSUME NEW p \in B PROVE p = <<p[1], t>> /\ p[1] \in A
      OBVIOUS
    <3>1. p = <<p[1], p[2]>> /\ p[2] \in Instants /\ p[1] \in DOMAIN ValueAt(p[2])
      BY PointsAre
    <3>2. p[2] = t
      BY <1>1, <1>3, <3>1
    <3>3. QED
      BY <3>1, <3>2
  <2> HIDE DEF B, f
  <2>6. e \in [A -> B] /\ \A x, y \in A : e[x] = e[y] => x = y
    BY <2>4
  <2>7. \A b \in B : \E x \in A : e[x] = b
    BY <2>5
  <2>8. \A x \in A : g[e[x]] = f[x]
    BY <2>4
  <2>9. DOMAIN g = B
    OBVIOUS
  <2> HIDE DEF e, g, A
  <2>10. Sum(g) = Sum(f)
    BY <2>3, <2>6, <2>7, <2>8, <2>9, SumRenamed DEF A
  <2>11. QED
    BY <2>1, <2>2, <2>10 DEF f
<1>4. Inv => EachCounted
  BY <1>2, <1>3 DEF EachCounted
<1>5. QED
  BY <1>4, Invariance, PTL

(* A rate looks back far enough to see two scrapes, whatever the window.     *)
LEMMA RateHasValue ==
    ASSUME Inv, params # Unset, ~Refused, request.kind = "rate", NEW t \in Int,
           NEW s \in DOMAIN store,
           store[s].from + MinRateLookback(params.window) <= t - params.window,
           t <= store[s].to
    PROVE  DOMAIN ValueAt(t) # {}
<1> DEFINE window == params.window
           lookback == MinRateLookback(window)
           q == t \div window
           u == q * window
           later == u \div Scrape
<1>1. window \in Nat \ {0} /\ Minute \in Nat /\ Scrape \in Nat \ {0} /\ Scrape <= Minute
  BY NotRefused, MeasuresAssumption DEF UsesWindow
<1>2. lookback \in Int /\ 2 * Scrape <= lookback
  BY <1>1 DEF MinRateLookback
<1>3. store[s].from \in Int /\ store[s].to \in Int
  BY InputsAssumption DEF Inv, Inputs
<1>4. store[s].from + lookback <= t - window
  OBVIOUS
<1> HIDE DEF window, lookback
<1>5. q \in Int /\ u \in Int /\ u <= t /\ t < u + window
  BY <1>1, DivIs, Products
<1>6. u \in Subquery(t, window)
  <2>1. (q - 1) * window = u - window
    BY <1>1, <1>5, Products
  <2>2. (t - window) \div window = q - 1
    BY <1>1, <1>5, <2>1, DivUnique
  <2>3. q \in ((t - window) \div window + 1)..(t \div window)
    BY <1>5, <2>2
  <2>4. QED
    BY <2>3 DEF Subquery, SubqueryStep
<1> HIDE DEF u, q
<1>7. later \in Int /\ later * Scrape <= u /\ u < later * Scrape + Scrape /\ later * Scrape \in Int
  BY <1>1, <1>5, DivIs, Products
<1>8. (u - lookback) \div Scrape <= later - 2
  <2>1. (later - 2) * Scrape = later * Scrape - 2 * Scrape
    BY <1>1, <1>7, Products
  <2>2. (u - 2 * Scrape) \div Scrape = later - 2
    <3> HIDE DEF later
    <3> DEFINE a == u - 2 * Scrape
               b == later - 2
    <3>1. a \in Int /\ b \in Int /\ b * Scrape <= a /\ a < b * Scrape + Scrape
      BY <1>1, <1>5, <1>7, <2>1
    <3> HIDE DEF a, b
    <3>2. a \div Scrape = b
      BY <1>1, <3>1, DivUnique
    <3>3. QED
      BY <3>2 DEF a, b
  <2>3. (u - lookback) \div Scrape <= (u - 2 * Scrape) \div Scrape
    BY <1>1, <1>2, <1>5, DivMono
  <2>4. QED
    BY <2>2, <2>3
<1>9. (u - lookback) \div Scrape \in Int
  BY <1>1, <1>2, <1>5, DivIs
<1>10. (later - 1) * Scrape = later * Scrape - Scrape
  BY <1>1, <1>7, Products
<1> HIDE DEF later
<1> DEFINE range == ((u - lookback) \div Scrape + 1)..(u \div Scrape)
           scraped == {k \in range : s \in Present(k * Scrape)}
<1>11. later \in range /\ later - 1 \in range
  BY <1>7, <1>8, <1>9 DEF later
<1>12. s \in Present(later * Scrape)
  BY <1>1, <1>2, <1>3, <1>4, <1>5, <1>7 DEF Present
<1>13. s \in Present((later - 1) * Scrape)
  BY <1>1, <1>2, <1>3, <1>4, <1>5, <1>7, <1>10 DEF Present
<1>14. IsFiniteSet(scraped) /\ Cardinality(scraped) \in Nat
  <2>1. u \div Scrape \in Int
    BY <1>7 DEF later
  <2>2. IsFiniteSet(range)
    BY <1>9, <2>1, FS_Interval
  <2> HIDE DEF range
  <2>3. QED
    BY <2>2, FS_Subset, FS_CardinalityType
<1>15. 2 <= Cardinality(scraped)
  <2>1. {later, later - 1} \in SUBSET scraped
    BY <1>11, <1>12, <1>13
  <2>2. later \notin {later - 1}
    BY <1>7
  <2>3. Cardinality({later - 1} \cup {later}) = 2
    <3>1. IsFiniteSet({later - 1}) /\ Cardinality({later - 1}) = 1
      BY FS_Singleton
    <3>2. Cardinality({later - 1} \cup {later}) = Cardinality({later - 1}) + 1
      BY <2>2, <3>1, FS_AddElement
    <3>3. QED
      BY <3>1, <3>2
  <2>4. {later - 1} \cup {later} = {later, later - 1}
    OBVIOUS
  <2> HIDE DEF scraped
  <2>5. Cardinality({later, later - 1}) <= Cardinality(scraped)
    BY <1>14, <2>1, FS_Subset
  <2>6. QED
    BY <1>14, <2>3, <2>4, <2>5
<1>16. scraped = Scraped(s, u, lookback)
  BY DEF Scraped
<1> HIDE DEF scraped
<1>17. DOMAIN Inner(u) # {}
  <2> DEFINE seen == {r \in DOMAIN store :
                        Cardinality(Scraped(r, u, MinRateLookback(params.window))) >= 2}
             rates == [r \in seen |-> 1]
  <2>1. s \in seen
    BY <1>14, <1>15, <1>16 DEF lookback, window
  <2>2. Inner(u) = Summed(rates)
    BY DEF Inner
  <2> HIDE DEF seen
  <2>3. DOMAIN rates # {}
    BY <2>1
  <2> HIDE DEF rates
  <2>4. QED
    BY <2>2, <2>3 DEF Summed
<1>18. DOMAIN RangeWrapped(t) # {}
  BY <1>1, <1>6, <1>17, RangeWrappedIs DEF window
<1>19. QED
  BY <1>18 DEF ValueAt

(* The rate of a lasting series has a measure for every instant, however     *)
(* short the granularity: minRateLookback is long enough for two scrapes.    *)
THEOREM AlwaysRateSeen == Spec => []RateSeen
<1>1. ASSUME Inv, Measured, request.kind = "rate", NEW s \in DOMAIN store,
             store[s].from + params.window + Max({params.window, 2 * Minute}) <= params.start - Second,
             params.end <= store[s].to, NEW t \in Instants
      PROVE  SecondOf(t) \in DOMAIN series
  <2>1. params # Unset /\ ~Refused /\ series = RangeStreamsToMeasures(Matrix)
    BY <1>1 DEF Inv, Answered
  <2>2. params.step \in Nat \ {0} /\ params.window \in Int /\ params.start \in Int /\ params.end \in Int
    BY <1>1, <2>1, NotRefused, ParamsAre
  <2>3. First \in Int /\ params.start - Second < First /\ t \in Int /\ First <= t /\ t <= params.end
    <3>1. Last * params.step \in Int
      BY <1>1, <2>1, <2>2, InstantsAre, Products
    <3>2. QED
      BY <1>1, <2>1, <2>2, <3>1, InstantsAre
  <2>4. store[s].from \in Int /\ store[s].to \in Int /\ Minute \in Int /\ Second \in Int
    BY <1>1, InputsAssumption, MeasuresAssumption DEF Inv, Inputs
  <2> DEFINE both == {params.window, 2 * Minute}
  <2>5. both \subseteq Int /\ IsFiniteSet(both) /\ both # {}
    <3>1. IsFiniteSet({params.window} \cup {2 * Minute})
      BY FS_Singleton, FS_AddElement
    <3>2. {params.window} \cup {2 * Minute} = both
      OBVIOUS
    <3>3. IsFiniteSet(both)
      BY <3>1, <3>2
    <3>4. params.window \in Int /\ 2 * Minute \in Int
      BY <2>2, <2>4
    <3>5. QED
      BY <3>3, <3>4
  <2> HIDE DEF both
  <2>6. Max(both) \in both /\ \A y \in both : y <= Max(both)
    BY <2>5, MaxIs
  <2>7. MinRateLookback(params.window) \in both
    BY DEF MinRateLookback, both
  <2>8. MinRateLookback(params.window) <= Max(both)
    BY <2>6, <2>7
  <2>9. MinRateLookback(params.window) \in Int /\ Max(both) \in Int
    BY <2>5, <2>6, <2>7
  <2>10. store[s].from + params.window + Max(both) <= params.start - Second
    BY <1>1 DEF both
  <2>11. store[s].from + MinRateLookback(params.window) <= t - params.window
    BY <2>2, <2>3, <2>4, <2>8, <2>9, <2>10
  <2>12. t <= store[s].to
    BY <1>1, <2>2, <2>3, <2>4
  <2>13. DOMAIN ValueAt(t) # {}
    BY <1>1, <2>1, <2>3, <2>11, <2>12, RateHasValue
  <2>14. SecondOf(t) \in Times(Matrix)
    BY <2>13, TimesAre
  <2>15. QED
    BY <2>1, <2>14 DEF RangeStreamsToMeasures
<1>2. Inv => RateSeen
  BY <1>1 DEF RateSeen
<1>3. QED
  BY <1>2, Invariance, PTL
-----------------------------------------------------------------------------
(* What is asked for is what is used, written as a duration.                 *)
LEMMA OutputOf ==
    ASSUME Inv, config.default.form # "bare"
    PROVE  OutputGranularity = NormalizeGranularity(Asked) /\ Asked \in Granularity
<1>1. request.resample \in Granularity /\ request.granularity \in Granularity
      /\ config.default \in Granularity
  BY InputsAssumption DEF Inv, Inputs
<1>2. QED
  BY <1>1 DEF OutputGranularity, Asked, NormalizeGranularity

LEMMA ProperStep ==
    ASSUME Inv, config.default.form # "bare", ProperFrom(Asked)
    PROVE  /\ OutputGranularity.form \in {"duration", "calendar"}
           /\ OutputGranularity.form = "calendar" \/ OutputGranularity.promql
           /\ ParsePromStep(OutputGranularity) = ParsePromStep(Asked)
           /\ ParsePromStep(Asked) \in Nat \ {0}
<1> DEFINE g == Asked
           o == OutputGranularity
<1>1. g \in Granularity /\ o = NormalizeGranularity(g)
  BY OutputOf
<1>2. g \in [form : {"none", "bare", "duration", "calendar", "other"}, ticks : Int,
             promql : BOOLEAN, unit : STRING]
  BY <1>1 DEF Granularity
<1>3. g.form \in {"bare", "duration", "calendar"} /\ (g.form = "calendar" \/ (g.ticks > 0 /\ g.promql))
  BY DEF ProperFrom
<1> HIDE DEF g, o
<1>4. /\ o.form = (IF g.form = "bare" THEN "duration" ELSE g.form)
      /\ o.ticks = g.ticks /\ o.promql = g.promql /\ o.unit = g.unit
  BY <1>1, <1>2 DEF NormalizeGranularity
<1>5. ParsePromStep(o) = ParsePromStep(g)
  BY <1>3, <1>4 DEF ParsePromStep
<1>6. ParsePromStep(g) \in Int /\ 0 < ParsePromStep(g)
  <2>1. CASE g.form = "calendar"
    BY <1>1, <2>1, GranularityIs
  <2>2. CASE g.form # "calendar"
    BY <1>2, <1>3, <2>2 DEF ParsePromStep
  <2>3. QED
    BY <2>1, <2>2
<1>7. QED
  BY <1>3, <1>4, <1>5, <1>6 DEF g, o

(* The product wraps only if it is longer than the longest duration.         *)
LEMMA WrapDurationIs ==
    ASSUME NEW n \in Int, -MaxDuration <= n, n <= MaxDuration
    PROVE  WrapDuration(n) = n
<1> DEFINE m == 2 * (MaxDuration + 1)
           a == n + MaxDuration + 1
<1>1. MaxDuration \in Nat
  BY MeasuresAssumption
<1>2. m \in Nat \ {0} /\ a \in Nat /\ a < m
  BY <1>1
<1> HIDE DEF m, a
<1>3. a % m = a
  BY <1>2, SMT
<1>4. QED
  BY <1>1, <1>3 DEF WrapDuration, m, a

(* The period of a proper request is not empty, and has as many instants as  *)
(* Prometheus evaluates.                                                     *)
LEMMA ProperPeriodIs ==
    ASSUME Inv, config.default.form # "bare", ProperFrom(Asked)
    PROVE  /\ StartOf < EndOf
           /\ EndOf - StartOf + Second <= MaxPoints * ParsePromStep(Asked)
<1> DEFINE step == ParsePromStep(Asked)
<1>1. step \in Nat \ {0} /\ ParsePromStep(OutputGranularity) = step
  BY ProperStep
<1>2. ProperPeriod(step)
  BY DEF ProperFrom
<1> HIDE DEF step
<1>3. EndOf \in Int /\ request.at[1] \in Int /\ Second \in Nat /\ MaxPoints \in Nat /\ MaxDuration \in Nat
  BY PeriodIs, InputsAssumption, MeasuresAssumption DEF Inv, Inputs
<1>4. CASE request.start = "none"
  <2>1. 24 * step <= MaxDuration /\ Second <= step /\ MaxPoints > 24
    BY <1>2, <1>4 DEF ProperPeriod
  <2>2. WrapDuration(-24 * step) = -24 * step
    BY <1>1, <1>3, <2>1, WrapDurationIs
  <2>3. StartOf = EndOf - 24 * step
    BY <1>1, <1>3, <1>4, <2>2 DEF StartOf
  <2>4. 25 * step <= MaxPoints * step
    BY <1>1, <1>3, <2>1, TimesMono
  <2>5. MaxPoints * step \in Int
    BY <1>1, <1>3, Products
  <2>6. QED
    BY <1>1, <1>3, <2>1, <2>3, <2>4, <2>5 DEF step
<1>5. CASE request.start # "none"
  <2>1. SecondOf(request.at[1]) < SecondOf(EndOf) /\ EndOf - request.at[1] + Second <= MaxPoints * step
    BY <1>2, <1>5 DEF ProperPeriod
  <2>2. request.at[1] < EndOf
    <3>1. EndOf <= request.at[1] => SecondOf(EndOf) <= SecondOf(request.at[1])
      BY <1>3, SecondMono
    <3>2. SecondOf(EndOf) \in Int /\ SecondOf(request.at[1]) \in Int
      BY <1>3, SecondIs
    <3>3. QED
      BY <1>3, <2>1, <3>1, <3>2
  <2>3. StartOf = request.at[1]
    BY <1>5 DEF StartOf
  <2>4. QED
    BY <2>1, <2>2, <2>3 DEF step
<1>6. QED
  BY <1>4, <1>5

(* No check stands in the way of a proper request: neither those of          *)
(* measureParamsFromRequest nor those of Prometheus.                         *)
THEOREM AlwaysProperAnswered == Spec => []ProperAnswered
<1>1. ASSUME Inv, config.default.form # "bare", ProperFrom(Asked)
      PROVE  ~Improper
  <2>1. OutputGranularity.form \in {"duration", "calendar"}
    BY <1>1, ProperStep
  <2>2. "bad" \notin {request.start, request.stop}
    BY <1>1 DEF ProperFrom, ProperPeriod
  <2>3. ~(StartOf >= EndOf)
    BY <1>1, ProperPeriodIs, PeriodIs
  <2>4. AggregationOf \in config.aggregations
    BY <1>1, InputsAssumption DEF ProperFrom, AggregationOf, Inv, Inputs
  <2>5. QED
    BY <2>1, <2>2, <2>3, <2>4 DEF Improper
<1>2. ASSUME Inv, config.default.form # "bare", ProperFrom(Asked), params # Unset
      PROVE  ~Refused
  <2> DEFINE step == ParsePromStep(Asked)
             period == SecondOf(params.end) - SecondOf(params.start)
  <2>1. /\ params.start = StartOf /\ params.end = EndOf /\ params.step = step
        /\ params.window = PromWindow(OutputGranularity) /\ params.promql
    <3>1. params = ParamsOf
      BY <1>2 DEF Inv, ParamsSet
    <3>2. /\ OutputGranularity.form = "calendar" \/ OutputGranularity.promql
          /\ ParsePromStep(OutputGranularity) = step
      BY <1>2, ProperStep
    <3>3. QED
      BY <3>1, <3>2 DEF ParamsOf
  <2>2. step \in Nat \ {0} /\ MaxPoints \in Nat /\ Second \in Nat
    BY <1>2, ProperStep, InputsAssumption, MeasuresAssumption
  <2>3. step <= params.window /\ params.window \in Int
    BY <1>2, <2>1, ParamsAre
  <2>4. EndOf - StartOf + Second <= MaxPoints * step
    BY <1>2, ProperPeriodIs
  <2> HIDE DEF step
  <2>5. StartOf \in Int /\ EndOf \in Int /\ MaxPoints * step \in Int
    BY <1>2, <2>2, PeriodIs, Products
  <2>6. period \in Int /\ period < MaxPoints * step
    BY <2>1, <2>2, <2>4, <2>5, SecondIs
  <2> HIDE DEF period
  <2>7. period \div step \in Int /\ (period \div step) * step <= period
    BY <2>2, <2>6, DivIs
  <2>8. (period \div step) * step < MaxPoints * step
    <3>1. (period \div step) * step \in Int
      BY <2>2, <2>7, Products
    <3>2. QED
      BY <2>5, <2>6, <2>7, <3>1
  <2>9. period \div step < MaxPoints
    BY <2>2, <2>7, <2>8, TimesStrict
  <2>10. QED
    BY <2>1, <2>2, <2>3, <2>7, <2>9 DEF Refused, period
<1>3. Inv => ProperAnswered
  BY <1>1, <1>2 DEF ProperAnswered, GetsMeasures, Inv, Rejected
<1>4. QED
  BY <1>3, Invariance, PTL
=============================================================================
