---------------------------- MODULE ListingProofs ----------------------------
(* What Listing promises a client holds for any identifiers, keys, limits    *)
(* and numbers of copies.  The argument is about one position: the marker,   *)
(* at the key it had on its page.  While no marker has moved, a resource     *)
(* that was listed all along and sorts at or before that position has been   *)
(* returned (Passed); while none has vanished either, nothing that sorts     *)
(* after it has been (Ahead).                                                *)
EXTENDS Listing, TLAPS

SteadyListed == \A x \in steady : Listed(x)

(* What sorts at or before the last row of the previous page. *)
Behind(x) == marker # 0 /\ ~Before(markedAt, marker, key[x], x)

Passed ==
    phase = "walking" /\ ~moved => \A x \in steady : Behind(x) => x \in returned

Ahead ==
    phase = "walking" /\ ~moved /\ ~restarted =>
        \A x \in steady : copies[x] = 1 /\ x \in returned => Behind(x)

Inv == TypeOK /\ SteadyListed /\ Passed /\ Ahead /\ SteadyReturned /\ SteadyOnce
-----------------------------------------------------------------------------
(* Before is a strict order of keys and ids, whatever the direction.         *)
LEMMA BeforeOrder ==
    ASSUME NEW k \in Int, NEW l \in Int, NEW m \in Int,
           NEW x \in Int, NEW y \in Int, NEW z \in Int
    PROVE  /\ ~Before(k, x, k, x)
           /\ Before(k, x, l, y) => ~Before(l, y, k, x)
           /\ Before(k, x, l, y) /\ Before(l, y, m, z) => Before(k, x, m, z)
<1>1. CASE desc
  BY <1>1 DEF Before
<1>2. CASE ~desc
  BY <1>2 DEF Before
<1>3. QED
  BY <1>1, <1>2

(* Rows are made of ids and copies that are listed; all of them come after   *)
(* the marker if there is one.                                               *)
LEMMA RowFacts ==
    ASSUME TypeOK, NEW m
    PROVE  /\ AfterMarker(m) \subseteq Rows
           /\ \A r \in Rows : /\ r = <<r[1], r[2]>> /\ r[1] \in Ids
                              /\ r[2] \in 1..MaxCopies /\ r[2] <= copies[r[1]]
           /\ IdsOf(AfterMarker(m)) \subseteq Ids
           /\ \A x \in Ids : Listed(x) => <<x, 1>> \in Rows
<1>1. AfterMarker(m) \subseteq Rows
  BY DEF AfterMarker
<1>2. \A r \in Rows : /\ r = <<r[1], r[2]>> /\ r[1] \in Ids
                      /\ r[2] \in 1..MaxCopies /\ r[2] <= copies[r[1]]
  BY DEF Rows
<1>3. IdsOf(AfterMarker(m)) \subseteq Ids
  BY <1>1, <1>2 DEF IdsOf
<1>4. ASSUME NEW x \in Ids, Listed(x)
      PROVE  <<x, 1>> \in Rows
  <2>1. copies[x] \in 1..MaxCopies /\ MaxCopies \in Nat
    BY <1>4, ListingAssumption DEF Listed, TypeOK
  <2>2. <<x, 1>> \in Ids \X (1..MaxCopies)
    BY <2>1
  <2>3. QED
    BY <2>1, <2>2, <1>4 DEF Rows
<1>5. QED
  BY <1>1, <1>2, <1>3, <1>4

(* Keys and ids are integers, so that the order lemma applies.               *)
LEMMA Numbers ==
    ASSUME TypeOK
    PROVE  /\ \A x \in Ids : x \in Int /\ x # 0 /\ key[x] \in Int
           /\ marker \in Int /\ markedAt \in Int
<1>1. \A x \in Ids : x \in Int /\ x # 0
  BY ListingAssumption
<1>2. \A k \in Keys : k \in Int
  BY ListingAssumption
<1>3. marker \in Int /\ markedAt \in Int
  BY <1>1, <1>2 DEF TypeOK
<1>4. \A x \in Ids : key[x] \in Keys
  BY DEF TypeOK
<1>5. QED
  BY <1>1, <1>2, <1>3, <1>4

(* If the marker has not moved, what is listed and not behind it has its     *)
(* first row after it.                                                       *)
LEMMA AheadIsAfter ==
    ASSUME TypeOK, ~moved', Ask, NEW x \in Ids, Listed(x), ~Behind(x)
    PROVE  <<x, 1>> \in AfterMarker(marker)
<1>1. <<x, 1>> \in Rows
  BY RowFacts
<1>2. CASE ~Found(marker)
  BY <1>1, <1>2 DEF AfterMarker
<1>3. CASE Found(marker)
  <2>1. marker \in Ids /\ key[marker] = markedAt /\ marker # 0
    BY <1>3, Numbers DEF Found, Ask
  <2>2. Before(markedAt, marker, key[x], x)
    BY <2>1 DEF Behind
  <2>3. RowBefore(<<marker, 1>>, <<x, 1>>)
    BY <2>1, <2>2 DEF RowBefore
  <2>4. QED
    BY <1>1, <1>3, <2>3 DEF AfterMarker
<1>4. QED
  BY <1>2, <1>3

(* If the marker is where it was, a row after it is ahead of it, or another  *)
(* copy of the marker.                                                       *)
LEMMA AfterIsAhead ==
    ASSUME TypeOK, ~moved', ~restarted', Ask, marker # 0,
           NEW r \in AfterMarker(marker)
    PROVE  Before(markedAt, marker, key[r[1]], r[1]) \/ (r[1] = marker /\ copies[r[1]] > 1)
<1>1. Found(marker) /\ key[marker] = markedAt
  BY DEF Ask
<1>2. r \in Rows /\ RowBefore(<<marker, 1>>, r)
  BY <1>1 DEF AfterMarker
<1>3. r[1] \in Ids /\ r[2] \in 1..MaxCopies /\ r[2] <= copies[r[1]] /\ copies[r[1]] \in Nat
  BY <1>2, RowFacts, ListingAssumption DEF TypeOK
<1>4. CASE Before(key[marker], marker, key[r[1]], r[1])
  BY <1>1, <1>4
<1>5. CASE marker = r[1] /\ 1 < r[2]
  BY <1>3, <1>5, ListingAssumption
<1>6. QED
  BY <1>2, <1>4, <1>5 DEF RowBefore

(* Giving rows that come after the marker repeats no single resource.        *)
LEMMA GiveOnce ==
    ASSUME Inv, Ask, phase = "walking", NEW page \in SUBSET AfterMarker(marker), Give(page)
    PROVE  SteadyOnce'
<1> SUFFICES ASSUME ~moved', ~restarted', NEW x \in steady, x \in twice'
             PROVE  copies[x] > 1
  BY DEF SteadyOnce, Ask
<1>1. ~moved /\ ~restarted
  BY DEF Ask
<1>2. CASE x \in twice
  BY <1>1, <1>2 DEF Inv, SteadyOnce
<1>3. CASE x \in returned /\ x \in IdsOf(page)
  <2>1. PICK r \in page : x = r[1]
    BY <1>3 DEF IdsOf
  <2>2. x \in Ids /\ copies[x] \in Nat /\ copies[x] > 0
    BY ListingAssumption DEF Inv, TypeOK, SteadyListed, Listed
  <2>3. CASE copies[x] = 1
    <3>1. Behind(x)
      BY <1>1, <1>3, <2>3 DEF Inv, Ahead
    <3>2. r \in AfterMarker(marker) /\ marker # 0
      BY <3>1 DEF Behind
    <3>3. Before(markedAt, marker, key[x], x) \/ copies[x] > 1
      BY <3>2, <2>1, AfterIsAhead DEF Inv
    <3>4. QED
      BY <3>1, <3>3 DEF Behind
  <2>4. QED
    BY <2>2, <2>3
<1>4. QED
  BY <1>2, <1>3 DEF Give
(* A page is given without skipping what was listed all along.               *)
LEMMA PageCovers ==
    ASSUME Inv, Ask, phase = "walking", ~moved',
           NEW page \in SUBSET AfterMarker(marker), NEW last \in AfterMarker(marker),
           IsPage(page, AfterMarker(marker)),
           IsMarker(last, page, AfterMarker(marker)),
           NEW x \in steady, ~Before(key[last[1]], last[1], key[x], x)
    PROVE  x \in returned \cup IdsOf(page)
<1> DEFINE rest == AfterMarker(marker)
<1>1. x \in Ids /\ Listed(x) /\ ~moved
  BY DEF Inv, TypeOK, SteadyListed, Ask
<1>2. CASE Behind(x)
  BY <1>1, <1>2 DEF Inv, Passed
<1>3. CASE ~Behind(x)
  <2>1. <<x, 1>> \in rest
    BY <1>1, <1>3, AheadIsAfter DEF Inv
  <2>2. CASE <<x, 1>> \in page
    BY <2>2 DEF IdsOf
  <2>3. CASE <<x, 1>> \notin page
    <3>1. last \in page
      BY DEF IsMarker
    <3>2. RowBefore(last, <<x, 1>>)
      BY <2>1, <2>3, <3>1 DEF IsPage
    <3>3. last[1] = x /\ last[2] < 1
      BY <3>2 DEF RowBefore
    <3>4. last[2] \in 1..MaxCopies
      BY RowFacts DEF Inv
    <3>5. QED
      BY <3>3, <3>4, ListingAssumption
  <2>4. QED
    BY <2>2, <2>3
<1>4. QED
  BY <1>2, <1>3

(* Page by page, the type of what the client holds.                          *)
LEMMA GiveTypes ==
    ASSUME TypeOK, NEW page \in SUBSET AfterMarker(marker), Give(page)
    PROVE  returned' \subseteq Ids /\ twice' \subseteq Ids
<1>1. IdsOf(page) \subseteq Ids
  BY RowFacts DEF IdsOf
<1>2. QED
  BY <1>1 DEF Give, TypeOK

(* What a page leaves alone.                                                 *)
LEMMA AskTypes ==
    ASSUME TypeOK, Ask
    PROVE  /\ copies' = copies /\ key' = key /\ steady' = steady /\ changes' = changes
           /\ desc' = desc /\ wanted' = wanted /\ limit' = limit
           /\ moved' \in BOOLEAN /\ restarted' \in BOOLEAN
           /\ moved => moved'
           /\ restarted => restarted'
           /\ \A x : Listed(x) => Listed(x)'
BY DEF Ask, TypeOK, Listed
-----------------------------------------------------------------------------
LEMMA InitInv == Init => Inv
<1> SUFFICES ASSUME Init PROVE Inv
  OBVIOUS
<1>1. TypeOK
  <2>1. changes \in 0..MaxChanges
    BY ListingAssumption DEF Init
  <2>2. wanted \subseteq Keys /\ steady \subseteq Ids
    BY DEF Init
  <2>3. QED
    BY <2>1, <2>2 DEF Init, TypeOK
<1>2. SteadyListed /\ Passed /\ Ahead /\ SteadyReturned /\ SteadyOnce
  BY DEF Init, SteadyListed, Passed, Ahead, Behind, SteadyReturned, SteadyOnce
<1>3. QED
  BY <1>1, <1>2 DEF Inv

LEMMA WalkAgainInv == Inv /\ WalkAgain => Inv'
<1> SUFFICES ASSUME Inv, WalkAgain PROVE Inv'
  OBVIOUS
<1>1. TypeOK'
  BY DEF Inv, WalkAgain, Begin, TypeOK
<1>2. SteadyListed'
  BY DEF WalkAgain, SteadyListed, Listed
<1>3. (Passed /\ Ahead /\ SteadyReturned /\ SteadyOnce)'
  BY DEF WalkAgain, Begin, Passed, Ahead, Behind, SteadyReturned, SteadyOnce
<1>4. QED
  BY <1>1, <1>2, <1>3 DEF Inv

(* The limit of the next page matters to nothing that was given before.      *)
LEMMA ChangeLimitInv ==
    ASSUME Inv, NEW l \in Limits, ChangeLimit(l)
    PROVE  Inv'
<1>1. /\ copies' = copies /\ key' = key /\ changes' = changes /\ desc' = desc
      /\ wanted' = wanted /\ phase' = phase /\ marker' = marker
      /\ markedAt' = markedAt /\ returned' = returned /\ twice' = twice
      /\ steady' = steady /\ moved' = moved /\ restarted' = restarted /\ limit' = l
  BY DEF ChangeLimit
<1>2. TypeOK'
  BY <1>1 DEF Inv, TypeOK
<1>3. (SteadyListed /\ Passed /\ Ahead)'
  BY <1>1 DEF Inv, SteadyListed, Listed, Passed, Ahead, Behind, Before
<1>4. (SteadyReturned /\ SteadyOnce)'
  BY <1>1 DEF Inv, SteadyReturned, SteadyOnce
<1>5. QED
  BY <1>2, <1>3, <1>4 DEF Inv

(* A change takes its resource out of steady and touches no other.           *)
LEMMA ChangeInv ==
    ASSUME Inv, NEW x \in Ids, NEW n \in 0..MaxCopies, NEW k \in Keys, Change(x, n, k)
    PROVE  Inv'
<1>1. TypeOK'
  <2>1. changes' \in 0..MaxChanges
    BY ListingAssumption DEF Inv, TypeOK, Change
  <2>2. copies' \in [Ids -> 0..MaxCopies] /\ key' \in [Ids -> Keys]
    BY DEF Inv, TypeOK, Change
  <2>3. QED
    BY <2>1, <2>2 DEF Inv, TypeOK, Change, walk
<1>2. \A y \in steady' : y \in steady /\ copies'[y] = copies[y] /\ key'[y] = key[y]
  BY DEF Inv, TypeOK, Change
<1>3. /\ phase' = phase /\ moved' = moved /\ restarted' = restarted /\ marker' = marker
      /\ markedAt' = markedAt /\ returned' = returned /\ twice' = twice
      /\ wanted' = wanted /\ desc' = desc
  BY DEF Change, walk
<1>4. SteadyListed'
  BY <1>2, <1>3 DEF Inv, SteadyListed, Listed
<1>5. \A y \in steady' : Behind(y)' <=> Behind(y)
  BY <1>2, <1>3 DEF Behind, Before
<1>6. Passed'
  BY <1>2, <1>3, <1>5 DEF Inv, Passed
<1>7. Ahead'
  BY <1>2, <1>3, <1>5 DEF Inv, Ahead
<1>8. (SteadyReturned /\ SteadyOnce)'
  BY <1>2, <1>3 DEF Inv, SteadyReturned, SteadyOnce
<1>9. QED
  BY <1>1, <1>4, <1>6, <1>7, <1>8 DEF Inv

LEMMA LastPageInv ==
    ASSUME Inv, LastPage
    PROVE  Inv'
<1> USE DEF LastPage
<1>1. Ask /\ phase = "walking" /\ TypeOK
  BY DEF Ask, Inv
<1>2. TypeOK'
  BY <1>1, GiveTypes, AskTypes DEF TypeOK
<1>3. SteadyListed'
  BY <1>1, AskTypes DEF Inv, SteadyListed
<1>4. (Passed /\ Ahead)'
  BY DEF Passed, Ahead
<1>5. ASSUME ~moved', NEW x \in steady
      PROVE  x \in returned'
  <2>1. x \in Ids /\ Listed(x) /\ ~moved
    BY <1>5 DEF Inv, TypeOK, SteadyListed, Ask
  <2>2. CASE Behind(x)
    BY <1>1, <2>1, <2>2 DEF Inv, Passed, Give
  <2>3. CASE ~Behind(x)
    <3>1. <<x, 1>> \in AfterMarker(marker)
      BY <1>1, <1>5, <2>1, <2>3, AheadIsAfter
    <3>2. x \in IdsOf(AfterMarker(marker))
      BY <3>1 DEF IdsOf
    <3>3. QED
      BY <3>2 DEF Give
  <2>4. QED
    BY <2>2, <2>3
<1>6. SteadyReturned'
  BY <1>5, <1>1, AskTypes DEF SteadyReturned
<1>7. SteadyOnce'
  BY <1>1, GiveOnce
<1>8. QED
  BY <1>2, <1>3, <1>4, <1>6, <1>7 DEF Inv

LEMMA PageWithLinkInv ==
    ASSUME Inv, PageWithLink
    PROVE  Inv'
<1>1. Ask /\ phase = "walking" /\ phase' = "walking" /\ TypeOK
  BY DEF PageWithLink, Ask, Inv
<1>2. PICK page \in SUBSET AfterMarker(marker), last \in AfterMarker(marker) :
        /\ IsPage(page, AfterMarker(marker))
        /\ IsMarker(last, page, AfterMarker(marker))
        /\ Give(page)
        /\ marker' = last[1] /\ markedAt' = key[last[1]]
  BY DEF PageWithLink
<1>3. last[1] \in Ids /\ last[1] # 0 /\ key[last[1]] \in Keys
  BY <1>1, RowFacts, Numbers DEF TypeOK
<1>4. TypeOK'
  <2>1. returned' \subseteq Ids /\ twice' \subseteq Ids
    BY <1>1, <1>2, GiveTypes
  <2>2. marker' \in Ids \cup {0} /\ markedAt' \in Keys
    BY <1>2, <1>3
  <2>3. QED
    BY <1>1, <2>1, <2>2, AskTypes DEF TypeOK
<1>5. SteadyListed'
  BY <1>1, AskTypes DEF Inv, SteadyListed
<1>6. steady' = steady /\ key' = key /\ copies' = copies /\ desc' = desc
  BY <1>1, AskTypes
<1>7. \A x : Behind(x)' <=> ~Before(key[last[1]], last[1], key[x], x)
  BY <1>2, <1>3, <1>6 DEF Behind, Before
<1>8. Passed'
  <2> SUFFICES ASSUME ~moved', NEW x \in steady, Behind(x)'
               PROVE  x \in returned'
    BY <1>6 DEF Passed
  <2>1. x \in returned \cup IdsOf(page)
    BY <1>1, <1>2, <1>7, PageCovers
  <2>2. QED
    BY <1>2, <2>1 DEF Give
<1>9. Ahead'
  <2> SUFFICES ASSUME ~moved', ~restarted', NEW x \in steady, copies[x] = 1, x \in returned'
               PROVE  ~Before(key[last[1]], last[1], key[x], x)
    BY <1>6, <1>7 DEF Ahead
  <2>1. ~moved /\ ~restarted /\ x \in Ids
    BY <1>1 DEF Ask, TypeOK
  <2>2. /\ key[x] \in Int /\ x \in Int /\ marker \in Int /\ markedAt \in Int
        /\ key[last[1]] \in Int /\ last[1] \in Int
    BY <1>1, <1>3, <2>1, Numbers
  <2>3. CASE x \in returned
    <3>1. marker # 0 /\ ~Before(markedAt, marker, key[x], x)
      BY <1>1, <2>1, <2>3 DEF Inv, Ahead, Behind
    <3>2. Before(markedAt, marker, key[last[1]], last[1]) \/ (last[1] = marker /\ key[marker] = markedAt)
      <4>1. key[marker] = markedAt
        BY <1>1, <3>1 DEF Ask
      <4>2. QED
        BY <1>1, <3>1, <4>1, AfterIsAhead
    <3>3. CASE Before(markedAt, marker, key[last[1]], last[1])
      BY <2>2, <3>1, <3>3, BeforeOrder
    <3>4. CASE last[1] = marker /\ key[marker] = markedAt
      BY <3>1, <3>4
    <3>5. QED
      BY <3>2, <3>3, <3>4
  <2>4. CASE x \in IdsOf(page)
    <3>1. PICK r \in page : x = r[1]
      BY <2>4 DEF IdsOf
    <3>2. r = last \/ RowBefore(r, last)
      BY <1>2, <3>1 DEF IsMarker
    <3>3. x = last[1] \/ Before(key[x], x, key[last[1]], last[1])
      BY <3>1, <3>2 DEF RowBefore
    <3>4. QED
      BY <2>2, <3>3, BeforeOrder
  <2>5. QED
    BY <1>2, <2>3, <2>4 DEF Give
<1>10. SteadyReturned'
  BY <1>1 DEF SteadyReturned
<1>11. SteadyOnce'
  BY <1>1, <1>2, GiveOnce
<1>12. QED
  BY <1>4, <1>5, <1>8, <1>9, <1>10, <1>11 DEF Inv

LEMMA OverflowInv ==
    ASSUME Inv, Overflow
    PROVE  Inv'
<1>1. Ask /\ TypeOK /\ phase' = "broken"
  BY DEF Overflow, Inv
<1>2. TypeOK'
  BY <1>1, AskTypes DEF Overflow, TypeOK
<1>3. SteadyListed'
  BY <1>1, AskTypes DEF Inv, SteadyListed
<1>4. (Passed /\ Ahead /\ SteadyReturned)'
  BY <1>1 DEF Passed, Ahead, SteadyReturned
<1>5. SteadyOnce'
  <2>1. ~moved' /\ ~restarted' => ~moved /\ ~restarted
    BY <1>1 DEF Ask
  <2>2. steady' = steady /\ copies' = copies /\ twice' = twice
    BY <1>1, AskTypes DEF Overflow
  <2>3. QED
    BY <2>1, <2>2 DEF Inv, SteadyOnce
<1>6. QED
  BY <1>2, <1>3, <1>4, <1>5 DEF Inv

LEMMA StutterInv == Inv /\ UNCHANGED vars => Inv'
<1> SUFFICES ASSUME Inv, UNCHANGED vars PROVE Inv'
  OBVIOUS
<1>1. TypeOK'
  BY DEF Inv, vars, TypeOK
<1>2. (SteadyListed /\ Passed /\ Ahead)'
  BY DEF Inv, vars, SteadyListed, Listed, Passed, Ahead, Behind, Before
<1>3. (SteadyReturned /\ SteadyOnce)'
  BY DEF Inv, vars, SteadyReturned, SteadyOnce
<1>4. QED
  BY <1>1, <1>2, <1>3 DEF Inv

LEMMA Invariance == Spec => []Inv
<1>1. Inv /\ [Next]_vars => Inv'
  BY WalkAgainInv, ChangeLimitInv, ChangeInv, LastPageInv, PageWithLinkInv, OverflowInv, StutterInv
     DEF Next, Page
<1>2. QED
  BY <1>1, InitInv, PTL DEF Spec
-----------------------------------------------------------------------------
(* The variables of a walk keep their types, whatever the client asks for.   *)
THEOREM TypeCorrect == Spec => []TypeOK
<1>1. Inv => TypeOK
  BY DEF Inv
<1>2. QED
  BY <1>1, Invariance, PTL

(* A finished walk skips nothing that was listed all along, unless a marker  *)
(* moved: paginateResources resumes where the marker is now.                 *)
THEOREM WalkReturnsSteady == Spec => []SteadyReturned
<1>1. Inv => SteadyReturned
  BY DEF Inv
<1>2. QED
  BY <1>1, Invariance, PTL

(* No page repeats a single resource that was listed all along, unless a     *)
(* marker moved or vanished.                                                 *)
THEOREM WalkRepeatsNothing == Spec => []SteadyOnce
<1>1. Inv => SteadyOnce
  BY DEF Inv
<1>2. QED
  BY <1>1, Invariance, PTL
=============================================================================
