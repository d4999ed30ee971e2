------------------------- MODULE MetricLookupProofs -------------------------
(* Proofs about MetricLookup for any number of requests, resources, projects *)
(* and versions of the cloud, and for every catalog that implements the      *)
(* register.                                                                 *)
EXTENDS MetricLookup, TLAPS

Answers == [snap : Snapshots, err : {"none", "nil", "err"}]

SeenVisible(r, x) == \E v \in seen[r] : Visible(v, caller[r], x)

Asked == {"idle", "metric", "access", "list"}
Granted == {"params", "next", "device", "query"}

(* Before the access check a request has no measures, and one for measures   *)
(* has its resource to do.                                                   *)
WorkAsked(r) ==
    /\ pc[r] \in Asked => used[r] = {}
    /\ pc[r] \in {"metric", "access"} => mode[r] = "measures" /\ todo[r] = {target[r]}
    /\ pc[r] = "list" => mode[r] = "aggregate"
    /\ pc[r] # "done" => outcome[r] = "none"

(* After it, what is left to query and what a handler works on was visible   *)
(* in a catalog the request was shown; a request for measures works on the   *)
(* resource it was asked for.                                                *)
WorkGranted(r) ==
    pc[r] \in Granted =>
        /\ \A x \in todo[r] : SeenVisible(r, x)
        /\ pc[r] \in {"device", "query"} => SeenVisible(r, target[r])
        /\ mode[r] = "measures" =>
              todo[r] \subseteq {target[r]} /\ SeenVisible(r, target[r])

UsedVisible(r) == \A x \in used[r] : SeenVisible(r, x)

Explained(r) ==
    mode[r] = "measures" /\ outcome[r] \in {"ok", "notfound"} =>
        \E v \in seen[r] : outcome[r] = "ok" <=> Visible(v, caller[r], target[r])

(* An aggregate still has to do, or has done, every resource that was        *)
(* visible in all the catalogs it was shown.                                 *)
StillThere(r, x) == \A v \in seen[r] : Visible(v, caller[r], x)

Complete(r) ==
    /\ mode[r] = "aggregate" /\ (pc[r] \in Granted \/ outcome[r] = "ok") =>
          \A x \in Resources : StillThere(r, x) => x \in used[r] \cup todo[r]
    /\ outcome[r] = "ok" => todo[r] = {}

(* What holds of each request: the register's good answers carry a catalog,  *)
(* and the parts above.                                                      *)
RInv(r) ==
    /\ answer[r].err = "nil" => answer[r].snap # << >>
    /\ WorkAsked(r)
    /\ WorkGranted(r)
    /\ UsedVisible(r)
    /\ Explained(r)
    /\ Complete(r)

IInv == TypeOK /\ \A r \in Requests : RInv(r)
-----------------------------------------------------------------------------
LEMMA SnapshotTypes ==
    /\ << >> \in Snapshots
    /\ \A v \in 0..MaxWorld : <<v>> \in Snapshots /\ <<v>> # << >>
    /\ \A s \in Snapshots : s # << >> => s[1] \in 0..MaxWorld
  BY DEF Snapshots

LEMMA CatTypes ==
    /\ Cat!NoAnswer \in Answers /\ Cat!Refusal \in Answers
    /\ Cat!NoAnswer.err = "none" /\ Cat!Refusal.err = "err"
  BY SnapshotTypes DEF Answers, Cat!NoAnswer, Cat!Refusal, Cat!Empty

LEMMA InitIInv == Init => IInv
<1> SUFFICES ASSUME Init PROVE IInv
  OBVIOUS
<1> USE LookupAssumption, SnapshotTypes, CatTypes DEF Init, Cat!Init
<1>1. TypeOK
  BY DEF TypeOK, Stations, Cat!Empty, Answers
<1>2. ASSUME NEW r \in Requests PROVE RInv(r)
  BY DEF RInv, WorkAsked, WorkGranted, UsedVisible, Explained, Complete, Granted
<1> QED BY <1>1, <1>2 DEF IInv
-----------------------------------------------------------------------------
(* A step of request r leaves all other requests alone. *)
OthersKept(r) ==
    /\ owner' = owner
    /\ \A q \in Requests \ {r} :
          /\ answer'[q] = answer[q] /\ pc'[q] = pc[q] /\ mode'[q] = mode[q]
          /\ caller'[q] = caller[q] /\ target'[q] = target[q] /\ todo'[q] = todo[q]
          /\ used'[q] = used[q] /\ outcome'[q] = outcome[q] /\ seen'[q] = seen[q]

LEMMA Frame ==
    ASSUME IInv, NEW r \in Requests, OthersKept(r), TypeOK', RInv(r)'
    PROVE  IInv'
<1> SUFFICES ASSUME NEW q \in Requests, q # r PROVE RInv(q)'
  BY DEF IInv
<1>1. RInv(q)
  BY DEF IInv
<1>2. \A x : /\ SeenVisible(q, x)' <=> SeenVisible(q, x)
             /\ StillThere(q, x)' <=> StillThere(q, x)
  BY DEF OthersKept, SeenVisible, StillThere, Visible, Exists
<1>3. WorkAsked(q)' /\ WorkGranted(q)' /\ UsedVisible(q)'
  BY <1>1, <1>2 DEF OthersKept, RInv, WorkAsked, WorkGranted, UsedVisible
<1>4. Explained(q)'
  BY <1>1 DEF OthersKept, RInv, Explained, Visible, Exists
<1>5. Complete(q)'
  BY <1>1, <1>2 DEF OthersKept, RInv, Complete
<1> QED BY <1>1, <1>3, <1>4, <1>5 DEF RInv, OthersKept

(* Steps that change only the register leave every request as it was. *)
LEMMA RegisterOnly ==
    ASSUME IInv, TypeOK',
           UNCHANGED <<owner, pc, mode, caller, target, todo, used, outcome, seen>>,
           \A r \in Requests : answer'[r].err = "nil" => answer'[r].snap # << >>
    PROVE  IInv'
<1> SUFFICES ASSUME NEW q \in Requests PROVE RInv(q)'
  BY DEF IInv
<1>1. RInv(q)
  BY DEF IInv
<1>2. \A x : /\ SeenVisible(q, x)' <=> SeenVisible(q, x)
             /\ StillThere(q, x)' <=> StillThere(q, x)
  BY DEF SeenVisible, StillThere, Visible, Exists
<1>3. WorkAsked(q)' /\ WorkGranted(q)' /\ UsedVisible(q)'
  BY <1>1, <1>2 DEF RInv, WorkAsked, WorkGranted, UsedVisible
<1>4. Explained(q)'
  BY <1>1 DEF RInv, Explained, Visible, Exists
<1>5. Complete(q)'
  BY <1>1, <1>2 DEF RInv, Complete
<1> QED BY <1>3, <1>4, <1>5 DEF RInv

LEMMA CatalogSafe == ASSUME IInv, CatalogStep PROVE IInv'
<1> USE LookupAssumption, SnapshotTypes DEF request
<1>0. TypeOK
  BY DEF IInv
<1>1. answer' = answer /\ world' \in 0..MaxWorld /\ value' \in Snapshots
      /\ health' \in {"nil", "err"}
  <2>1. CASE Cat!Advance
    BY <1>0, <2>1 DEF Cat!Advance, TypeOK
  <2>2. CASE \E v \in 0..world : value' = <<v>> /\ Cat!Publish
    <3>1. value' \in Snapshots
      BY <1>0, <2>2 DEF TypeOK
    <3> QED BY <1>0, <2>2, <3>1 DEF Cat!Publish, TypeOK
  <2>3. CASE Cat!Fail /\ UNCHANGED answer
    BY <1>0, <2>3 DEF Cat!Fail, TypeOK
  <2> QED BY <2>1, <2>2, <2>3 DEF CatalogStep
<1>2. UNCHANGED <<owner, pc, mode, caller, target, todo, used, outcome, seen>>
  BY DEF CatalogStep
<1>3. TypeOK'
  BY <1>0, <1>1, <1>2 DEF TypeOK
<1> QED BY <1>1, <1>2, <1>3, RegisterOnly DEF IInv, RInv

LEMMA AskSafe == ASSUME IInv, NEW r \in Requests, Ask(r) PROVE IInv'
<1> USE LookupAssumption, SnapshotTypes, CatTypes
<1>0. TypeOK /\ \A q \in Requests : RInv(q)
  BY DEF IInv
<1>1. /\ UNCHANGED <<owner, pc, mode, caller, target, todo, used, outcome, seen, world, value>>
      /\ health' \in {"nil", "err"}
  BY <1>0 DEF Ask, Cat!Get, Cat!Refuse, request, TypeOK
<1>2. PICK a \in Answers :
         answer' = [answer EXCEPT ![r] = a] /\ (a.err = "nil" => a.snap # << >>)
  <2>1. CASE Cat!Get(r)
    <3> DEFINE a == [snap |-> value, err |-> health]
    <3>1. a \in Answers /\ a.snap # << >>
      BY <1>0, <2>1 DEF TypeOK, Cat!Get, Cat!Empty, Answers
    <3> QED BY <2>1, <3>1 DEF Cat!Get
  <2>2. CASE Cat!Refuse(r)
    BY <2>2 DEF Cat!Refuse
  <2> QED BY <2>1, <2>2 DEF Ask
<1>3. TypeOK'
  BY <1>0, <1>1, <1>2 DEF TypeOK, Answers
<1>4. \A q \in Requests : answer'[q].err = "nil" => answer'[q].snap # << >>
  BY <1>0, <1>2 DEF RInv, TypeOK, Answers
<1> QED BY <1>1, <1>3, <1>4, RegisterOnly

LEMMA StartSafe == ASSUME IInv, NEW r \in Requests, Start(r) PROVE IInv'
<1> USE LookupAssumption DEF catalog
<1>0. TypeOK /\ RInv(r)
  BY DEF IInv
<1>1. PICK c \in Callers : StartAggregate(r, c) \/ \E x \in Resources : StartMeasures(r, c, x)
  BY DEF Start
<1>2. /\ UNCHANGED <<world, value, health, answer, owner, used, outcome, seen>>
      /\ pc[r] = "idle" /\ caller' = [caller EXCEPT ![r] = c]
  BY <1>1 DEF StartAggregate, StartMeasures
<1>3. CASE StartAggregate(r, c)
  <2>1. /\ pc' = [pc EXCEPT ![r] = "list"] /\ mode' = [mode EXCEPT ![r] = "aggregate"]
        /\ UNCHANGED <<target, todo>>
    BY <1>3 DEF StartAggregate, Goto
  <2>2. TypeOK'
    BY <1>0, <1>2, <2>1 DEF TypeOK, Stations, Asking
  <2>3. OthersKept(r)
    BY <1>0, <1>2, <2>1 DEF OthersKept, TypeOK
  <2>4. RInv(r)'
    BY <1>0, <1>2, <2>1 DEF RInv, WorkAsked, WorkGranted, UsedVisible, Explained, Asked,
                            Complete, Granted, TypeOK
  <2> QED BY <2>2, <2>3, <2>4, Frame
<1>4. ASSUME NEW x \in Resources, StartMeasures(r, c, x) PROVE IInv'
  <2>1. /\ pc' = [pc EXCEPT ![r] = "metric"] \/ pc' = [pc EXCEPT ![r] = "access"]
        /\ mode' = [mode EXCEPT ![r] = "measures"]
        /\ target' = [target EXCEPT ![r] = x] /\ todo' = [todo EXCEPT ![r] = {x}]
    BY <1>4 DEF StartMeasures
  <2>2. TypeOK'
    BY <1>0, <1>2, <2>1 DEF TypeOK, Stations, Asking
  <2>3. OthersKept(r)
    BY <1>0, <1>2, <2>1 DEF OthersKept, TypeOK
  <2>4. RInv(r)'
    BY <1>0, <1>2, <2>1 DEF RInv, WorkAsked, WorkGranted, UsedVisible, Explained, Asked,
                            Complete, Granted, TypeOK
  <2> QED BY <2>2, <2>3, <2>4, Frame
<1> QED BY <1>1, <1>3, <1>4
-----------------------------------------------------------------------------
(* What every look at a snapshot does. *)
LookEffect(r) ==
    /\ Version(r) \in seen'[r] /\ seen[r] \subseteq seen'[r]
    /\ seen' \in [Requests -> SUBSET (0..MaxWorld)]
    /\ answer' \in [Requests -> Answers]
    /\ answer'[r].err = "none"
    /\ \A q \in Requests \ {r} : answer'[q] = answer[q] /\ seen'[q] = seen[q]
    /\ UNCHANGED <<world, value, health>>

LEMMA LookFacts ==
    ASSUME IInv, NEW r \in Requests, Shown(r), Look(r)
    PROVE  LookEffect(r)
<1>1. answer[r] \in Answers /\ answer[r].snap # << >>
  BY DEF IInv, RInv, TypeOK, Shown, Answers
<1>2. Version(r) \in 0..MaxWorld
  BY <1>1, SnapshotTypes DEF Version, Answers
<1>3. /\ seen' = [seen EXCEPT ![r] = @ \cup {Version(r)}]
      /\ answer' = [answer EXCEPT ![r] = Cat!NoAnswer]
      /\ UNCHANGED <<world, value, health>>
  BY DEF Look, Cat!Release
<1>4. seen \in [Requests -> SUBSET (0..MaxWorld)] /\ answer \in [Requests -> Answers]
  BY DEF IInv, TypeOK, Answers
<1>5. /\ answer' \in [Requests -> Answers] /\ answer'[r].err = "none"
      /\ \A q \in Requests \ {r} : answer'[q] = answer[q]
  BY <1>3, <1>4, CatTypes
<1> DEFINE v == Version(r)
<1>6. v \in 0..MaxWorld /\ seen' = [seen EXCEPT ![r] = @ \cup {v}]
  BY <1>2, <1>3
<1> HIDE DEF v
<1>7. /\ v \in seen'[r] /\ seen[r] \subseteq seen'[r]
      /\ seen' \in [Requests -> SUBSET (0..MaxWorld)]
      /\ \A q \in Requests \ {r} : seen'[q] = seen[q]
  BY <1>4, <1>6
<1> QED BY <1>3, <1>5, <1>7 DEF LookEffect, v

(* Nothing that was visible is forgotten while a request is served. *)
LEMMA StillVisible ==
    ASSUME IInv, NEW r \in Requests, seen[r] \subseteq seen'[r],
           owner' = owner, caller' = caller
    PROVE  \A x : SeenVisible(r, x) => SeenVisible(r, x)'
  BY DEF SeenVisible, Visible, Exists

LEMMA WasThere ==
    ASSUME NEW r \in Requests, seen[r] \subseteq seen'[r],
           owner' = owner, caller' = caller
    PROVE  \A x : StillThere(r, x)' => StillThere(r, x)
  BY DEF StillThere, Visible, Exists

(* One catalog that agrees with the outcome explains it. *)
LEMMA Explains ==
    ASSUME IInv, NEW r \in Requests, NEW v, v \in seen'[r], owner' = owner,
           caller'[r] = caller[r], target'[r] = target[r],
           outcome'[r] = "ok" <=> Visible(v, caller[r], target[r])
    PROVE  Explained(r)'
  BY DEF Explained, Visible, Exists

LEMMA SnapshotFailsSafe ==
    ASSUME IInv, NEW r \in Requests, SnapshotFails(r) PROVE IInv'
<1> USE LookupAssumption, CatTypes DEF request
<1>0. TypeOK /\ RInv(r)
  BY DEF IInv
<1>1. /\ answer' = [answer EXCEPT ![r] = Cat!NoAnswer]
      /\ pc' = [pc EXCEPT ![r] = "done"] /\ outcome' = [outcome EXCEPT ![r] = "error"]
      /\ UNCHANGED <<world, value, health, owner, mode, caller, target, todo, used, seen>>
  BY DEF SnapshotFails, Done, Goto, Cat!Release
<1>2. TypeOK'
  <2>1. answer' \in [Requests -> Answers]
    BY <1>0, <1>1 DEF TypeOK, Answers
  <2> QED BY <1>0, <1>1, <2>1 DEF TypeOK, Stations, Answers
<1>3. OthersKept(r)
  BY <1>0, <1>1 DEF OthersKept, TypeOK
<1>4. UsedVisible(r)'
  BY <1>0, <1>1 DEF UsedVisible, SeenVisible, RInv, Visible, Exists
<1>5. RInv(r)'
  BY <1>0, <1>1, <1>4 DEF RInv, WorkAsked, WorkGranted, Explained, Complete, Asked, Granted, TypeOK
<1> QED BY <1>2, <1>3, <1>5, Frame

LEMMA MetricByIDSafe ==
    ASSUME IInv, NEW r \in Requests, MetricByID(r) PROVE IInv'
<1> USE LookupAssumption, CatTypes DEF request
<1>0. TypeOK /\ RInv(r)
  BY DEF IInv
<1>1. /\ pc[r] = "metric" /\ LookEffect(r)
      /\ UNCHANGED <<owner, mode, caller, target, todo, used>>
  BY LookFacts DEF MetricByID
<1>2. \/ /\ pc' = [pc EXCEPT ![r] = "access"] /\ outcome' = outcome
      \/ /\ ~Exists(Version(r), target[r])
         /\ pc' = [pc EXCEPT ![r] = "done"]
         /\ outcome' = [outcome EXCEPT ![r] = "notfound"]
  BY DEF MetricByID, Goto, Done, AfterMetric
<1>3. TypeOK'
  BY <1>0, <1>1, <1>2 DEF LookEffect, TypeOK, Stations, Asking, Answers
<1>4. OthersKept(r)
  BY <1>0, <1>1, <1>2 DEF LookEffect, OthersKept, TypeOK
<1>5. used[r] = {} /\ mode[r] = "measures" /\ todo[r] = {target[r]} /\ outcome[r] = "none"
  BY <1>0, <1>1 DEF RInv, WorkAsked, Asked
<1>6. Explained(r)'
  <2>1. CASE outcome' = outcome
    BY <1>5, <2>1 DEF Explained
  <2>2. CASE ~Exists(Version(r), target[r]) /\ outcome' = [outcome EXCEPT ![r] = "notfound"]
    <3>1. outcome'[r] = "notfound" /\ ~Visible(Version(r), caller[r], target[r])
      BY <1>0, <2>2 DEF TypeOK, Visible
    <3> QED BY <1>1, <3>1, Explains DEF LookEffect
  <2> QED BY <1>2, <2>1, <2>2
<1>7. RInv(r)'
  BY <1>0, <1>1, <1>2, <1>5, <1>6
     DEF LookEffect, RInv, WorkAsked, WorkGranted, UsedVisible, Complete, Asked, Granted, TypeOK
<1> QED BY <1>3, <1>4, <1>7, Frame

LEMMA ResourceByIDSafe ==
    ASSUME IInv, NEW r \in Requests, ResourceByID(r) PROVE IInv'
<1> USE LookupAssumption DEF request
<1>0. TypeOK /\ RInv(r)
  BY DEF IInv
<1>1. /\ pc[r] = "access" /\ LookEffect(r)
      /\ UNCHANGED <<owner, mode, caller, target, todo, used>>
  BY LookFacts DEF ResourceByID
<1>2. \/ /\ Visible(Version(r), caller[r], target[r])
         /\ pc' = [pc EXCEPT ![r] = "params"] /\ outcome' = outcome
      \/ /\ ~Visible(Version(r), caller[r], target[r])
         /\ pc' = [pc EXCEPT ![r] = "done"]
         /\ outcome' = [outcome EXCEPT ![r] = "notfound"]
  BY <1>0 DEF ResourceByID, Goto, Done, Listed, TypeOK
<1>3. TypeOK'
  BY <1>0, <1>1, <1>2 DEF LookEffect, TypeOK, Stations, Asking, Answers
<1>4. OthersKept(r)
  BY <1>0, <1>1, <1>2 DEF LookEffect, OthersKept, TypeOK
<1>5. used[r] = {} /\ mode[r] = "measures" /\ todo[r] = {target[r]} /\ outcome[r] = "none"
  BY <1>0, <1>1 DEF RInv, WorkAsked, Asked
<1>6. Explained(r)'
  <2>1. CASE outcome' = outcome
    BY <1>5, <2>1 DEF Explained
  <2>2. CASE /\ ~Visible(Version(r), caller[r], target[r])
             /\ outcome' = [outcome EXCEPT ![r] = "notfound"]
    <3>1. outcome'[r] = "notfound"
      BY <1>0, <2>2 DEF TypeOK
    <3> QED BY <1>1, <2>2, <3>1, Explains DEF LookEffect
  <2> QED BY <1>2, <2>1, <2>2
<1>7. pc'[r] = "params" => SeenVisible(r, target[r])'
  <2> SUFFICES ASSUME pc'[r] = "params" PROVE SeenVisible(r, target[r])'
    OBVIOUS
  <2>1. Visible(Version(r), caller[r], target[r])
    BY <1>0, <1>2 DEF TypeOK
  <2> QED BY <1>1, <2>1 DEF LookEffect, SeenVisible, Visible, Exists
<1>8. WorkGranted(r)'
  <2>1. pc'[r] \in {"params", "done"}
    BY <1>0, <1>2 DEF TypeOK
  <2>2. todo'[r] = {target'[r]}
    BY <1>1, <1>5
  <2> QED BY <1>7, <2>1, <2>2 DEF WorkGranted, Granted
<1>9. WorkAsked(r)'
  BY <1>0, <1>1, <1>2, <1>5 DEF WorkAsked, Asked, TypeOK
<1>10. UsedVisible(r)'
  BY <1>1, <1>5 DEF UsedVisible
<1>11. Complete(r)'
  BY <1>0, <1>1, <1>2, <1>5 DEF Complete, TypeOK
<1>12. RInv(r)'
  BY <1>1, <1>6, <1>8, <1>9, <1>10, <1>11 DEF LookEffect, RInv
<1> QED BY <1>3, <1>4, <1>12, Frame

LEMMA ListResourcesSafe ==
    ASSUME IInv, NEW r \in Requests, ListResources(r) PROVE IInv'
<1> USE LookupAssumption DEF request
<1>0. TypeOK /\ RInv(r)
  BY DEF IInv
<1>1. /\ pc[r] = "list" /\ LookEffect(r) /\ pc' = [pc EXCEPT ![r] = "params"]
      /\ todo' = [todo EXCEPT ![r] = Listed(Version(r), caller[r])]
      /\ UNCHANGED <<owner, mode, caller, target, used, outcome>>
  BY LookFacts DEF ListResources, Goto
<1>2. used[r] = {} /\ mode[r] = "aggregate" /\ outcome[r] = "none"
  BY <1>0, <1>1 DEF RInv, WorkAsked, Asked
<1>3. /\ todo' \in [Requests -> SUBSET Resources]
      /\ \A x \in todo'[r] : Visible(Version(r), caller[r], x)
      /\ \A q \in Requests \ {r} : todo'[q] = todo[q]
  <2> DEFINE L == Listed(Version(r), caller[r])
  <2>1. L \subseteq Resources /\ \A x \in L : Visible(Version(r), caller[r], x)
    BY DEF Listed
  <2>2. todo' = [todo EXCEPT ![r] = L]
    BY <1>1
  <2> HIDE DEF L
  <2> QED BY <1>0, <2>1, <2>2 DEF TypeOK
<1>4. TypeOK'
  <2>1. pc' \in [Requests -> Stations]
    BY <1>0, <1>1 DEF TypeOK, Stations
  <2> QED BY <1>0, <1>1, <1>3, <2>1 DEF LookEffect, TypeOK, Answers
<1>5. OthersKept(r)
  <2>1. \A q \in Requests \ {r} : pc'[q] = pc[q]
    BY <1>0, <1>1 DEF TypeOK
  <2> QED BY <1>1, <1>3, <2>1 DEF LookEffect, OthersKept
<1>6. pc'[r] = "params"
  BY <1>0, <1>1 DEF TypeOK
<1>7. \A x \in todo'[r] : SeenVisible(r, x)'
  BY <1>1, <1>3 DEF LookEffect, SeenVisible, Visible, Exists
<1>8. WorkGranted(r)'
  BY <1>1, <1>2, <1>6, <1>7 DEF WorkGranted
<1>9. WorkAsked(r)' /\ UsedVisible(r)' /\ Explained(r)'
  BY <1>1, <1>2, <1>6 DEF WorkAsked, UsedVisible, Explained, Asked
<1>10. Complete(r)'
  <2> SUFFICES ASSUME NEW x \in Resources, StillThere(r, x)' PROVE x \in todo'[r]
    BY <1>1, <1>2 DEF Complete
  <2>1. Visible(Version(r), caller[r], x)
    BY <1>1 DEF LookEffect, StillThere, Visible, Exists
  <2> QED BY <1>0, <1>1, <2>1 DEF Listed, TypeOK
<1>11. RInv(r)'
  BY <1>1, <1>8, <1>9, <1>10 DEF LookEffect, RInv
<1> QED BY <1>4, <1>5, <1>11, Frame

LEMMA ParseParamsSafe ==
    ASSUME IInv, NEW r \in Requests, ParseParams(r) PROVE IInv'
<1> USE LookupAssumption DEF request, catalog
<1>0. TypeOK /\ RInv(r)
  BY DEF IInv
<1>1. /\ pc[r] = "params"
      /\ UNCHANGED <<world, value, health, answer, owner, mode, caller, target, todo, used, seen>>
      /\ \/ pc' = [pc EXCEPT ![r] = "next"] /\ outcome' = outcome
         \/ pc' = [pc EXCEPT ![r] = "done"] /\ outcome' = [outcome EXCEPT ![r] = "error"]
  BY DEF ParseParams, Goto, Done
<1>2. TypeOK'
  BY <1>0, <1>1 DEF TypeOK, Stations
<1>3. OthersKept(r)
  BY <1>0, <1>1 DEF OthersKept, TypeOK
<1>4. \A x : SeenVisible(r, x) => SeenVisible(r, x)'
  BY <1>1, StillVisible
<1>5. pc'[r] \in {"next", "done"} /\ (pc'[r] = "next" => outcome'[r] = "none")
      /\ outcome'[r] \in {"none", "error"}
  BY <1>0, <1>1 DEF TypeOK, RInv, WorkAsked
<1>6. WorkAsked(r)' /\ Explained(r)'
  BY <1>5 DEF WorkAsked, Explained, Asked
<1>7. WorkGranted(r)' /\ UsedVisible(r)'
  BY <1>0, <1>1, <1>4, <1>5 DEF RInv, WorkGranted, UsedVisible, Granted
<1>8. Complete(r)'
  <2>1. \A x : StillThere(r, x)' => StillThere(r, x)
    BY <1>1, WasThere
  <2> QED BY <1>0, <1>1, <1>5, <2>1 DEF RInv, Complete, Granted
<1>9. RInv(r)'
  BY <1>0, <1>1, <1>6, <1>7, <1>8 DEF RInv
<1> QED BY <1>2, <1>3, <1>9, Frame

LEMMA NextResourceSafe ==
    ASSUME IInv, NEW r \in Requests, NEW x \in Resources, NextResource(r, x) PROVE IInv'
<1> USE LookupAssumption DEF request, catalog
<1>0. TypeOK /\ RInv(r)
  BY DEF IInv
<1>1. /\ pc[r] = "next" /\ x \in todo[r] /\ target' = [target EXCEPT ![r] = x]
      /\ UNCHANGED <<world, value, health, answer, owner, mode, caller, todo, used, outcome, seen>>
      /\ pc' = [pc EXCEPT ![r] = "device"] \/ pc' = [pc EXCEPT ![r] = "query"]
  BY DEF NextResource, Goto
<1>2. TypeOK'
  BY <1>0, <1>1 DEF TypeOK, Stations, Asking
<1>3. OthersKept(r)
  BY <1>0, <1>1 DEF OthersKept, TypeOK
<1>4. \A y : SeenVisible(r, y) => SeenVisible(r, y)'
  BY <1>1, StillVisible
<1>5. pc'[r] \in {"device", "query"} /\ outcome'[r] = "none" /\ target'[r] = x
  BY <1>0, <1>1 DEF TypeOK, RInv, WorkAsked
<1>6. WorkAsked(r)' /\ Explained(r)'
  BY <1>5 DEF WorkAsked, Explained, Asked
<1>7. UsedVisible(r)'
  BY <1>0, <1>1, <1>4 DEF RInv, UsedVisible
<1>8. SeenVisible(r, x)' /\ SeenVisible(r, target[r])'
  <2>1. SeenVisible(r, x)'
    BY <1>0, <1>1, <1>4 DEF RInv, WorkGranted, Granted
  <2> QED BY <1>5, <2>1 DEF SeenVisible
<1>9. WorkGranted(r)'
  <2>1. \A y \in todo'[r] : SeenVisible(r, y)'
    BY <1>0, <1>1, <1>4 DEF RInv, WorkGranted, Granted
  <2>2. mode'[r] = "measures" => todo'[r] \subseteq {target'[r]}
    BY <1>0, <1>1, <1>5 DEF RInv, WorkGranted, Granted
  <2> QED BY <1>8, <2>1, <2>2 DEF WorkGranted
<1>10. Complete(r)'
  <2>1. \A y : StillThere(r, y)' => StillThere(r, y)
    BY <1>1, WasThere
  <2> QED BY <1>0, <1>1, <1>5, <2>1 DEF RInv, Complete, Granted
<1>11. RInv(r)'
  BY <1>0, <1>1, <1>6, <1>7, <1>9, <1>10 DEF RInv
<1> QED BY <1>2, <1>3, <1>11, Frame

LEMMA LookUpDeviceSafe ==
    ASSUME IInv, NEW r \in Requests, LookUpDevice(r) PROVE IInv'
<1> USE LookupAssumption DEF request
<1>0. TypeOK /\ RInv(r)
  BY DEF IInv
<1>1. /\ pc[r] = "device" /\ LookEffect(r)
      /\ UNCHANGED <<owner, mode, caller, target, used>>
  BY LookFacts DEF LookUpDevice
<1>2. \/ /\ pc' = [pc EXCEPT ![r] = "query"] /\ UNCHANGED <<todo, outcome>>
      \/ /\ ~Visible(Version(r), caller[r], target[r])
         /\ pc' = [pc EXCEPT ![r] = "next"] /\ outcome' = outcome
         /\ todo' = [todo EXCEPT ![r] = @ \ {target[r]}]
      \/ /\ ~Visible(Version(r), caller[r], target[r])
         /\ pc' = [pc EXCEPT ![r] = "done"] /\ outcome' = [outcome EXCEPT ![r] = "notfound"]
         /\ todo' = [todo EXCEPT ![r] = @ \ {target[r]}]
  BY DEF LookUpDevice, Goto, Done, RestAfterGone, Handled, Visible
<1>3. TypeOK'
  <2>1. todo' \in [Requests -> SUBSET Resources]
    BY <1>0, <1>2 DEF TypeOK
  <2>2. pc' \in [Requests -> Stations]
    BY <1>0, <1>2 DEF TypeOK, Stations
  <2>3. outcome' \in [Requests -> {"none", "ok", "notfound", "error"}]
    BY <1>0, <1>2 DEF TypeOK
  <2> QED BY <1>0, <1>1, <2>1, <2>2, <2>3 DEF LookEffect, TypeOK, Answers
<1>4. OthersKept(r)
  BY <1>0, <1>1, <1>2 DEF LookEffect, OthersKept, TypeOK
<1>5. outcome[r] = "none" /\ todo'[r] \subseteq todo[r]
  BY <1>0, <1>1, <1>2 DEF RInv, WorkAsked, TypeOK
<1>6. Explained(r)'
  <2>1. CASE outcome' = outcome
    BY <1>5, <2>1 DEF Explained
  <2>2. CASE /\ ~Visible(Version(r), caller[r], target[r])
             /\ outcome' = [outcome EXCEPT ![r] = "notfound"]
    <3>1. outcome'[r] = "notfound"
      BY <1>0, <2>2 DEF TypeOK
    <3> QED BY <1>1, <2>2, <3>1, Explains DEF LookEffect
  <2> QED BY <1>2, <2>1, <2>2
<1>7. \A y : SeenVisible(r, y) => SeenVisible(r, y)'
  BY <1>1, StillVisible DEF LookEffect
<1>8. WorkGranted(r)'
  <2>1. /\ \A y \in todo[r] : SeenVisible(r, y)
        /\ SeenVisible(r, target[r])
        /\ mode[r] = "measures" => todo[r] \subseteq {target[r]}
    BY <1>0, <1>1 DEF RInv, WorkGranted, Granted
  <2>2. SeenVisible(r, target[r])'
    <3>1. PICK y : y = target[r]
      OBVIOUS
    <3>2. SeenVisible(r, y)'
      BY <1>7, <2>1, <3>1
    <3> QED BY <1>1, <3>1, <3>2 DEF SeenVisible
  <2>3. \A y \in todo'[r] : SeenVisible(r, y)'
    BY <1>5, <1>7, <2>1
  <2> QED BY <1>1, <1>5, <2>1, <2>2, <2>3 DEF WorkGranted
<1>9. WorkAsked(r)'
  BY <1>0, <1>1, <1>2, <1>5 DEF WorkAsked, Asked, TypeOK
<1>10. UsedVisible(r)'
  BY <1>0, <1>1, <1>7 DEF RInv, UsedVisible
<1>11. Complete(r)'
  <2>1. pc[r] \in Granted /\ outcome'[r] \in {"none", "notfound"}
    BY <1>0, <1>1, <1>2, <1>5 DEF Granted, TypeOK
  <2> SUFFICES ASSUME mode[r] = "aggregate", NEW x \in Resources, StillThere(r, x)'
               PROVE  x \in used'[r] \cup todo'[r]
    BY <1>1, <2>1 DEF Complete
  <2>2. StillThere(r, x)
    BY <1>1, WasThere DEF LookEffect
  <2>3. x \in used[r] \cup todo[r]
    BY <1>0, <2>1, <2>2 DEF RInv, Complete
  <2>4. Visible(Version(r), caller[r], x)
    BY <1>1 DEF LookEffect, StillThere, Visible, Exists
  <2>5. x # target[r] \/ todo' = todo
    BY <1>2, <2>4
  <2>6. todo'[r] = todo[r] \/ todo'[r] = todo[r] \ {target[r]}
    BY <1>0, <1>2 DEF TypeOK
  <2> QED BY <1>1, <2>3, <2>5, <2>6
<1>12. RInv(r)'
  BY <1>1, <1>6, <1>8, <1>9, <1>10, <1>11 DEF LookEffect, RInv
<1> QED BY <1>3, <1>4, <1>12, Frame

LEMMA QuerySafe ==
    ASSUME IInv, NEW r \in Requests, Query(r) PROVE IInv'
<1> USE LookupAssumption DEF request, catalog
<1>0. TypeOK /\ RInv(r)
  BY DEF IInv
<1>1. /\ pc[r] = "query"
      /\ UNCHANGED <<world, value, health, answer, owner, mode, caller, target, seen>>
      /\ \/ /\ pc' = [pc EXCEPT ![r] = "next"] /\ outcome' = outcome
            /\ used' = [used EXCEPT ![r] = @ \cup {target[r]}]
            /\ todo' = [todo EXCEPT ![r] = @ \ {target[r]}]
         \/ /\ pc' = [pc EXCEPT ![r] = "done"] /\ outcome' = [outcome EXCEPT ![r] = "error"]
            /\ UNCHANGED <<used, todo>>
  BY DEF Query, Goto, Done, Handled
<1>2. TypeOK'
  <2>1. todo' \in [Requests -> SUBSET Resources]
    <3>1. todo' = todo \/ todo' = [todo EXCEPT ![r] = @ \ {target[r]}]
      BY <1>1
    <3> QED BY <1>0, <3>1 DEF TypeOK
  <2>2. used' \in [Requests -> SUBSET Resources]
    <3>1. used' = used \/ used' = [used EXCEPT ![r] = @ \cup {target[r]}]
      BY <1>1
    <3>2. target[r] \in Resources /\ used \in [Requests -> SUBSET Resources]
      BY <1>0 DEF TypeOK
    <3> QED BY <3>1, <3>2
  <2>3. pc' \in [Requests -> Stations]
    <3>1. pc' = [pc EXCEPT ![r] = "next"] \/ pc' = [pc EXCEPT ![r] = "done"]
      BY <1>1
    <3> QED BY <1>0, <3>1 DEF TypeOK, Stations
  <2>4. outcome' \in [Requests -> {"none", "ok", "notfound", "error"}]
    <3>1. outcome' = outcome \/ outcome' = [outcome EXCEPT ![r] = "error"]
      BY <1>1
    <3> QED BY <1>0, <3>1 DEF TypeOK
  <2> QED BY <1>0, <1>1, <2>1, <2>2, <2>3, <2>4 DEF TypeOK
<1>3. OthersKept(r)
  BY <1>0, <1>1 DEF OthersKept, TypeOK
<1>4. \A y : SeenVisible(r, y) => SeenVisible(r, y)'
  BY <1>1, StillVisible
<1>5. /\ pc'[r] \in {"next", "done"} /\ (pc'[r] = "next" => outcome'[r] = "none")
      /\ outcome'[r] \in {"none", "error"}
      /\ used'[r] \subseteq used[r] \cup {target[r]} /\ todo'[r] \subseteq todo[r]
  BY <1>0, <1>1 DEF TypeOK, RInv, WorkAsked
<1>6. WorkAsked(r)' /\ Explained(r)'
  BY <1>5 DEF WorkAsked, Explained, Asked
<1>7. /\ \A y \in todo[r] : SeenVisible(r, y)
      /\ SeenVisible(r, target[r])
      /\ mode[r] = "measures" => todo[r] \subseteq {target[r]}
  BY <1>0, <1>1 DEF RInv, WorkGranted, Granted
<1>8. SeenVisible(r, target[r])'
  <2>1. PICK y : y = target[r]
    OBVIOUS
  <2>2. SeenVisible(r, y)'
    BY <1>4, <1>7, <2>1
  <2> QED BY <1>1, <2>1, <2>2 DEF SeenVisible
<1>9. WorkGranted(r)'
  <2>1. \A y \in todo'[r] : SeenVisible(r, y)'
    BY <1>4, <1>5, <1>7
  <2> QED BY <1>1, <1>5, <1>7, <1>8, <2>1 DEF WorkGranted
<1>10. UsedVisible(r)'
  <2>1. \A y \in used[r] : SeenVisible(r, y)'
    BY <1>0, <1>4 DEF RInv, UsedVisible
  <2>2. \A y \in {target[r]} : SeenVisible(r, y)'
    BY <1>4, <1>7
  <2> QED BY <1>5, <2>1, <2>2 DEF UsedVisible
<1>11. Complete(r)'
  <2>1. \A x : StillThere(r, x)' => StillThere(r, x)
    BY <1>1, WasThere
  <2>2. used[r] \cup todo[r] \subseteq used'[r] \cup todo'[r]
    BY <1>0, <1>1 DEF TypeOK
  <2>3. pc[r] \in Granted /\ outcome'[r] # "ok"
    BY <1>1, <1>5 DEF Granted
  <2> QED BY <1>0, <1>1, <2>1, <2>2, <2>3 DEF RInv, Complete
<1>12. RInv(r)'
  BY <1>0, <1>1, <1>6, <1>9, <1>10, <1>11 DEF RInv
<1> QED BY <1>2, <1>3, <1>12, Frame

LEMMA FinishSafe ==
    ASSUME IInv, NEW r \in Requests, Finish(r) PROVE IInv'
<1> USE LookupAssumption DEF request, catalog
<1>0. TypeOK /\ RInv(r)
  BY DEF IInv
<1>1. /\ pc[r] = "next" /\ todo[r] = {}
      /\ pc' = [pc EXCEPT ![r] = "done"]
      /\ \/ outcome' = [outcome EXCEPT ![r] = "ok"]
         \/ mode[r] = "aggregate" /\ outcome' = [outcome EXCEPT ![r] = "error"]
      /\ UNCHANGED <<world, value, health, answer, owner, mode, caller, target, todo, used, seen>>
  BY DEF Finish, Goto, Done
<1>2. TypeOK'
  BY <1>0, <1>1 DEF TypeOK, Stations
<1>3. OthersKept(r)
  BY <1>0, <1>1 DEF OthersKept, TypeOK
<1>4. pc'[r] = "done" /\ (mode[r] = "measures" => outcome'[r] = "ok")
  BY <1>0, <1>1 DEF TypeOK
<1>5. WorkAsked(r)' /\ WorkGranted(r)'
  BY <1>4 DEF WorkAsked, WorkGranted, Asked, Granted
<1>6. UsedVisible(r)'
  <2>1. \A y : SeenVisible(r, y) => SeenVisible(r, y)'
    BY <1>1, StillVisible
  <2> QED BY <1>0, <1>1, <2>1 DEF RInv, UsedVisible
<1>7. Explained(r)'
  <2>1. CASE mode[r] # "measures"
    BY <1>1, <2>1 DEF Explained
  <2>2. CASE mode[r] = "measures"
    <3>1. SeenVisible(r, target[r])
      BY <1>0, <1>1, <2>2 DEF RInv, WorkGranted, Granted
    <3>2. PICK v \in seen[r] : Visible(v, caller[r], target[r])
      BY <3>1 DEF SeenVisible
    <3> QED BY <1>1, <1>4, <2>2, <3>2, Explains
  <2> QED BY <2>1, <2>2
<1>8. Complete(r)'
  <2>1. \A x : StillThere(r, x)' => StillThere(r, x)
    BY <1>1, WasThere
  <2> QED BY <1>0, <1>1, <2>1 DEF RInv, Complete, Granted
<1>9. RInv(r)'
  BY <1>0, <1>1, <1>5, <1>6, <1>7, <1>8 DEF RInv
<1> QED BY <1>2, <1>3, <1>9, Frame

LEMMA ReturnSafe ==
    ASSUME IInv, NEW r \in Requests, Return(r) PROVE IInv'
<1> USE LookupAssumption DEF request, catalog
<1>0. TypeOK /\ RInv(r)
  BY DEF IInv
<1>1. /\ pc' = [pc EXCEPT ![r] = "idle"] /\ todo' = [todo EXCEPT ![r] = {}]
      /\ used' = [used EXCEPT ![r] = {}] /\ outcome' = [outcome EXCEPT ![r] = "none"]
      /\ seen' = [seen EXCEPT ![r] = {}]
      /\ UNCHANGED <<world, value, health, answer, owner, mode, caller, target>>
  BY DEF Return, Goto
<1>2. TypeOK'
  BY <1>0, <1>1 DEF TypeOK, Stations
<1>3. OthersKept(r)
  BY <1>0, <1>1 DEF OthersKept, TypeOK
<1>4. pc'[r] = "idle" /\ outcome'[r] = "none" /\ used'[r] = {}
  BY <1>0, <1>1 DEF TypeOK
<1>5. RInv(r)'
  BY <1>0, <1>1, <1>4
     DEF RInv, WorkAsked, WorkGranted, UsedVisible, Explained, Complete, Asked, Granted
<1> QED BY <1>2, <1>3, <1>5, Frame
-----------------------------------------------------------------------------
LEMMA NextIInv == IInv /\ [Next]_vars => IInv'
<1> SUFFICES ASSUME IInv, [Next]_vars PROVE IInv'
  OBVIOUS
<1>1. CASE CatalogStep
  BY <1>1, CatalogSafe
<1>2. ASSUME NEW r \in Requests, Start(r) PROVE IInv'
  BY <1>2, StartSafe
<1>3. ASSUME NEW r \in Requests, HandlerStep(r) PROVE IInv'
  BY <1>3, AskSafe, SnapshotFailsSafe, MetricByIDSafe, ResourceByIDSafe, ListResourcesSafe,
     ParseParamsSafe, NextResourceSafe, LookUpDeviceSafe, QuerySafe, FinishSafe, ReturnSafe
     DEF HandlerStep
<1>4. CASE UNCHANGED vars
  <2>1. UNCHANGED <<owner, pc, mode, caller, target, todo, used, outcome, seen>> /\ TypeOK'
    BY <1>4 DEF vars, IInv, TypeOK
  <2>2. \A r \in Requests : answer'[r].err = "nil" => answer'[r].snap # << >>
    BY <1>4 DEF vars, IInv, RInv
  <2> QED BY <2>1, <2>2, RegisterOnly
<1> QED BY <1>1, <1>2, <1>3, <1>4 DEF Next

LEMMA Invariance == Spec => []IInv
  BY InitIInv, NextIInv, PTL DEF Spec

(* Every variable keeps its type. *)
THEOREM TypeCorrect == Spec => []TypeOK
<1>1. IInv => TypeOK
  BY DEF IInv
<1> QED BY <1>1, Invariance, PTL

(* No handler (queryMeasuresWithParams, evaluateAggregate) ever has measures *)
(* of a resource its caller was not shown as its own, however the catalog    *)
(* changes between the lookups of one request.                               *)
THEOREM UsedAlwaysVisible == Spec => []UsedWasVisible
<1>1. IInv => UsedWasVisible
  BY DEF IInv, RInv, UsedVisible, SeenVisible, UsedWasVisible
<1> QED BY <1>1, Invariance, PTL

(* The answer to a request for measures (handleMetricMeasures,               *)
(* handleResourceMetricMeasures) is one that a single catalog explains.      *)
THEOREM AlwaysExplained == Spec => []ExplainedByOneCatalog
<1>1. IInv => ExplainedByOneCatalog
  BY DEF IInv, RInv, Explained, ExplainedByOneCatalog
<1> QED BY <1>1, Invariance, PTL

(* An aggregate that succeeds (evaluateAggregate) has used every resource    *)
(* its caller was shown each time, whatever it skipped.                      *)
THEOREM AggregateAlwaysComplete == Spec => []AggregateComplete
<1>1. IInv => AggregateComplete
  BY DEF IInv, RInv, Complete, StillThere, AggregateComplete
<1> QED BY <1>1, Invariance, PTL
=============================================================================
