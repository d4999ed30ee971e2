------------------------ MODULE CatalogManagerProofs ------------------------
(* Proofs about CatalogManager for any number of requests and queries and    *)
(* any bound on the versions of the cloud.                                   *)
EXTENDS CatalogManager, TLAPS

(* The results of a build in progress were read in order from a cloud that   *)
(* has not gone back since; a finished build has them all, one in progress   *)
(* does not.                                                                 *)
BuildsSound ==
    \A p \in Procs :
        /\ Ordered(reads[p])
        /\ \A i \in DOMAIN reads[p] : reads[p][i] <= world
        /\ pc[p] = "built" => Len(reads[p]) = NQueries
        /\ pc[p] = "building" => Len(reads[p]) < NQueries

(* A goroutine outside a build has no results, and one about to read the     *)
(* catalog again has installed one.                                          *)
BuildsScoped ==
    \A p \in Procs :
        /\ pc[p] \notin {"building", "built", "failed"} => reads[p] = << >>
        /\ pc[p] = "reread" => current # Empty

(* A build nobody has overtaken began after the catalog now in memory was    *)
(* read, so each of its results is at least as new as all of that catalog.   *)
FreshUnlessOvertaken ==
    \A p \in Procs : InBuild(p) /\ ~ overtaken[p] => NotOlder(current, reads[p])

(* Only a finished call holds an answer. *)
AnswersScoped ==
    \A r \in Requests : pc[r] # "done" => answer[r] = NoAnswer

IInv ==
    /\ TypeOK
    /\ CatalogWhole
    /\ ServedWhole
    /\ BuildsSound
    /\ BuildsScoped
    /\ FreshUnlessOvertaken
    /\ AnswersScoped
-----------------------------------------------------------------------------
LEMMA EmptyVector ==
    /\ << >> \in Seq(0..MaxWorld)
    /\ Len(<< >>) = 0
    /\ DOMAIN << >> = {}
    /\ Ordered(<< >>)
  BY DEF Ordered

(* One more query extends an ordered vector of results to an ordered vector. *)
LEMMA AppendRead ==
    ASSUME NEW s \in Seq(0..MaxWorld), NEW w \in 0..MaxWorld,
           MaxWorld \in Nat,
           Ordered(s), \A i \in DOMAIN s : s[i] <= w
    PROVE  /\ Append(s, w) \in Seq(0..MaxWorld)
           /\ Len(Append(s, w)) = Len(s) + 1
           /\ Ordered(Append(s, w))
           /\ \A i \in DOMAIN Append(s, w) : Append(s, w)[i] <= w
           /\ \A i \in DOMAIN Append(s, w) :
                 Append(s, w)[i] = w \/ (i \in DOMAIN s /\ Append(s, w)[i] = s[i])
<1> DEFINE t == Append(s, w)
<1>1. t \in Seq(0..MaxWorld) /\ Len(t) = Len(s) + 1 /\ Len(s) \in Nat
  OBVIOUS
<1>2. DOMAIN t = 1..(Len(s) + 1) /\ DOMAIN s = 1..Len(s)
  BY <1>1
<1>3. t[Len(s) + 1] = w /\ \A i \in 1..Len(s) : t[i] = s[i]
  OBVIOUS
<1>4. \A i \in 1..Len(s) : s[i] \in 0..MaxWorld
  OBVIOUS
<1>5. \A i \in DOMAIN t : t[i] <= w
  BY <1>2, <1>3, <1>4
<1>6. \A i \in DOMAIN t : t[i] = w \/ (i \in DOMAIN s /\ t[i] = s[i])
  BY <1>2, <1>3
<1>7. Ordered(t)
  <2> SUFFICES ASSUME NEW i \in DOMAIN t, NEW j \in DOMAIN t, i <= j
               PROVE  t[i] <= t[j]
    BY DEF Ordered
  <2>1. CASE j = Len(s) + 1
    BY <2>1, <1>3, <1>5
  <2>2. CASE j # Len(s) + 1
    BY <2>2, <1>1, <1>2, <1>3 DEF Ordered
  <2> QED BY <2>1, <2>2
<1> HIDE DEF t
<1> QED BY <1>1, <1>5, <1>6, <1>7 DEF t

(* Every goroutine is the ticker, main or a request, and only one of them. *)
LEMMA ProcsDistinct ==
    /\ Ticker \in Procs /\ Main \in Procs
    /\ Requests \subseteq Procs
    /\ Ticker # Main /\ Ticker \notin Requests /\ Main \notin Requests
  BY CatalogAssumption DEF Procs
-----------------------------------------------------------------------------
LEMMA InitIInv == Init => IInv
<1> SUFFICES ASSUME Init PROVE IInv
  OBVIOUS
<1> USE CatalogAssumption, EmptyVector, ProcsDistinct DEF Init
<1>1. TypeOK
  <2>1. NoAnswer \in Answers
    BY DEF NoAnswer, Answers, Empty
  <2>2. pc \in [Procs -> Stations]
    BY DEF Stations
  <2>3. reads \in [Procs -> Seq(0..MaxWorld)] /\ current \in Seq(0..MaxWorld)
    BY DEF Empty
  <2>4. \A p \in Procs : Len(reads[p]) <= NQueries
    OBVIOUS
  <2>5. world \in 0..MaxWorld /\ gone \subseteq Requests
    OBVIOUS
  <2> QED BY <2>1, <2>2, <2>3, <2>4, <2>5 DEF TypeOK
<1>2. CatalogWhole /\ ServedWhole
  BY DEF CatalogWhole, ServedWhole, NoAnswer
<1>3. BuildsSound /\ BuildsScoped
  BY DEF BuildsSound, BuildsScoped
<1>4. FreshUnlessOvertaken /\ AnswersScoped
  BY DEF FreshUnlessOvertaken, AnswersScoped, NotOlder, Empty
<1> QED BY <1>1, <1>2, <1>3, <1>4 DEF IInv

(* ---- one lemma for each group of steps ---------------------------------- *)

LEMMA QueryOKStep ==
    ASSUME IInv, NEW p \in Procs, QueryOK(p)
    PROVE  IInv'
<1> USE CatalogAssumption DEF QueryOK, environment, manager
<1>0. /\ TypeOK /\ CatalogWhole /\ ServedWhole /\ BuildsSound /\ BuildsScoped
      /\ FreshUnlessOvertaken /\ AnswersScoped
  BY DEF IInv
<1> DEFINE t == Append(reads[p], world)
<1>1. /\ t \in Seq(0..MaxWorld)
      /\ Len(t) = Len(reads[p]) + 1
      /\ Ordered(t)
      /\ \A i \in DOMAIN t : t[i] <= world
      /\ \A i \in DOMAIN t :
            t[i] = world \/ (i \in DOMAIN reads[p] /\ t[i] = reads[p][i])
  <2>1. reads[p] \in Seq(0..MaxWorld) /\ world \in 0..MaxWorld
    BY <1>0 DEF TypeOK
  <2>2. Ordered(reads[p]) /\ \A i \in DOMAIN reads[p] : reads[p][i] <= world
    BY <1>0 DEF BuildsSound
  <2> QED BY <2>1, <2>2, AppendRead
<1>2. /\ reads' = [reads EXCEPT ![p] = t]
      /\ pc' = [pc EXCEPT ![p] = IF Len(t) = NQueries THEN "built" ELSE "building"]
  BY <1>0 DEF TypeOK, Complete
<1>3. Len(reads[p]) < NQueries /\ Len(reads[p]) \in Nat /\ Len(t) <= NQueries
  BY <1>0, <1>1 DEF TypeOK, BuildsSound
<1> HIDE DEF t
<1>4. TypeOK'
  <2>1. pc' \in [Procs -> Stations]
    BY <1>0, <1>2 DEF TypeOK, Stations
  <2>2. reads' \in [Procs -> Seq(0..MaxWorld)]
    BY <1>0, <1>1, <1>2 DEF TypeOK
  <2>3. \A q \in Procs : Len(reads'[q]) <= NQueries
    BY <1>0, <1>2, <1>3 DEF TypeOK
  <2> QED BY <1>0, <2>1, <2>2, <2>3 DEF TypeOK
<1>5. CatalogWhole' /\ ServedWhole'
  BY <1>0 DEF CatalogWhole, ServedWhole, Slice, Ordered
<1>6. BuildsSound'
  <2> SUFFICES ASSUME NEW q \in Procs
               PROVE  /\ Ordered(reads'[q])
                      /\ \A i \in DOMAIN reads'[q] : reads'[q][i] <= world
                      /\ pc'[q] = "built" => Len(reads'[q]) = NQueries
                      /\ pc'[q] = "building" => Len(reads'[q]) < NQueries
    BY DEF BuildsSound, Ordered
  <2>1. CASE q # p
    BY <2>1, <1>0, <1>2 DEF BuildsSound, TypeOK
  <2>2. CASE q = p
    <3>1. reads'[q] = t /\ pc'[q] = IF Len(t) = NQueries THEN "built" ELSE "building"
      BY <2>2, <1>0, <1>2 DEF TypeOK
    <3>2. Len(t) # NQueries => Len(t) < NQueries
      BY <1>1, <1>3
    <3>3. Ordered(reads'[q]) /\ \A i \in DOMAIN reads'[q] : reads'[q][i] <= world
      BY <3>1, <1>1
    <3>4. /\ pc'[q] = "built" => Len(reads'[q]) = NQueries
          /\ pc'[q] = "building" => Len(reads'[q]) < NQueries
      BY <3>1, <3>2
    <3> QED BY <3>3, <3>4
  <2> QED BY <2>1, <2>2
<1>7. BuildsScoped'
  BY <1>0, <1>2 DEF BuildsScoped, TypeOK
<1>8. FreshUnlessOvertaken'
  <2> SUFFICES ASSUME NEW q \in Procs, InBuild(q)', ~ overtaken[q]
               PROVE  NotOlder(current, reads'[q])
    BY <1>0 DEF FreshUnlessOvertaken, NotOlder, TypeOK
  <2>1. CASE q # p
    BY <2>1, <1>0, <1>2 DEF FreshUnlessOvertaken, InBuild, TypeOK
  <2>2. CASE q = p
    <3>1. reads'[q] = t
      BY <2>2, <1>0, <1>2 DEF TypeOK
    <3>2. NotOlder(current, reads[p])
      BY <2>2, <1>0 DEF FreshUnlessOvertaken, InBuild
    <3>3. \A i \in DOMAIN current : current[i] <= world
      BY <1>0 DEF CatalogWhole, Slice, Empty
    <3> QED BY <3>1, <3>2, <3>3, <1>1 DEF NotOlder
  <2> QED BY <2>1, <2>2
<1>9. AnswersScoped'
  BY <1>0, <1>2, ProcsDistinct DEF AnswersScoped, TypeOK
<1> QED BY <1>4, <1>5, <1>6, <1>7, <1>8, <1>9 DEF IInv

LEMMA QueryFailStep ==
    ASSUME IInv, NEW p \in Procs, QueryFail(p)
    PROVE  IInv'
<1> USE CatalogAssumption DEF QueryFail, environment, manager, AfterQueryError
<1>0. /\ TypeOK /\ CatalogWhole /\ ServedWhole /\ BuildsSound /\ BuildsScoped
      /\ FreshUnlessOvertaken /\ AnswersScoped
  BY DEF IInv
<1>1. TypeOK'
  BY <1>0 DEF TypeOK, Stations
<1>2. CatalogWhole' /\ ServedWhole'
  BY <1>0 DEF CatalogWhole, ServedWhole, Slice, Ordered
<1>3. BuildsSound' /\ BuildsScoped'
  BY <1>0 DEF BuildsSound, BuildsScoped, TypeOK
<1>4. FreshUnlessOvertaken'
  BY <1>0 DEF FreshUnlessOvertaken, InBuild, NotOlder, TypeOK
<1>5. AnswersScoped'
  BY <1>0, ProcsDistinct DEF AnswersScoped, TypeOK
<1> QED BY <1>1, <1>2, <1>3, <1>4, <1>5 DEF IInv

LEMMA InstallStep ==
    ASSUME IInv, NEW p \in Procs, Install(p)
    PROVE  IInv'
<1> USE CatalogAssumption DEF Install, EndBuild, LeftOver, environment, InstalledErr
<1>0. /\ TypeOK /\ CatalogWhole /\ ServedWhole /\ BuildsSound /\ BuildsScoped
      /\ FreshUnlessOvertaken /\ AnswersScoped
  BY DEF IInv
<1>1. TypeOK'
  <2>1. reads' \in [Procs -> Seq(0..MaxWorld)] /\ current' \in Seq(0..MaxWorld)
    BY <1>0, EmptyVector DEF TypeOK
  <2>2. \A q \in Procs : Len(reads'[q]) <= NQueries
    BY <1>0, EmptyVector DEF TypeOK
  <2>3. pc' \in [Procs -> Stations]
    BY <1>0 DEF TypeOK, Stations
  <2>4. overtaken' \in [Procs -> BOOLEAN]
    BY <1>0 DEF TypeOK
  <2> QED BY <1>0, <2>1, <2>2, <2>3, <2>4 DEF TypeOK
<1>2. Slice(reads[p]) /\ Slice(current)' /\ current' # Empty
  <2>1. Slice(reads[p])
    BY <1>0 DEF BuildsSound, Slice, TypeOK
  <2>2. current' # Empty
    BY <2>1, EmptyVector DEF Slice, Empty
  <2> QED BY <2>1, <2>2 DEF Slice, Ordered
<1>3. CatalogWhole' /\ ServedWhole'
  BY <1>0, <1>2 DEF CatalogWhole, ServedWhole, Slice, Ordered
<1>4. BuildsSound'
  BY <1>0, EmptyVector DEF BuildsSound, TypeOK, Ordered
<1>5. BuildsScoped'
  BY <1>0, <1>2 DEF BuildsScoped, TypeOK
<1>6. FreshUnlessOvertaken'
  <2> SUFFICES ASSUME NEW q \in Procs, pc'[q] \in {"building", "built"}, ~ overtaken'[q]
               PROVE  FALSE
    BY DEF FreshUnlessOvertaken, InBuild
  <2>1. q # p
    BY <1>0 DEF TypeOK
  <2>2. pc[q] \in {"building", "built"}
    BY <1>0, <2>1 DEF TypeOK
  <2> QED BY <2>1, <2>2 DEF InBuild
<1>7. AnswersScoped'
  BY <1>0, ProcsDistinct DEF AnswersScoped, TypeOK
<1> QED BY <1>1, <1>3, <1>4, <1>5, <1>6, <1>7 DEF IInv

LEMMA RecordErrStep ==
    ASSUME IInv, NEW p \in Procs, RecordErr(p)
    PROVE  IInv'
<1> USE CatalogAssumption DEF RecordErr, EndBuild, LeftOver, environment
<1>0. /\ TypeOK /\ CatalogWhole /\ ServedWhole /\ BuildsSound /\ BuildsScoped
      /\ FreshUnlessOvertaken /\ AnswersScoped
  BY DEF IInv
<1>1. Refusal \in Answers /\ Refusal.err = "err"
  BY DEF Refusal, Answers, Empty
<1>2. TypeOK'
  <2>1. reads' \in [Procs -> Seq(0..MaxWorld)]
    BY <1>0, EmptyVector DEF TypeOK
  <2>2. \A q \in Procs : Len(reads'[q]) <= NQueries
    BY <1>0, EmptyVector DEF TypeOK
  <2>3. pc' \in [Procs -> Stations]
    BY <1>0 DEF TypeOK, Stations
  <2>4. answer' \in [Requests -> Answers]
    BY <1>0, <1>1 DEF TypeOK
  <2> QED BY <1>0, <2>1, <2>2, <2>3, <2>4 DEF TypeOK
<1>3. CatalogWhole'
  BY <1>0 DEF CatalogWhole, Slice, Ordered
<1>4. ServedWhole'
  BY <1>0, <1>1 DEF ServedWhole, Slice, Ordered, TypeOK
<1>5. BuildsSound'
  BY <1>0, EmptyVector DEF BuildsSound, TypeOK, Ordered
<1>6. BuildsScoped'
  BY <1>0 DEF BuildsScoped, TypeOK
<1>7. FreshUnlessOvertaken'
  <2> SUFFICES ASSUME NEW q \in Procs, pc'[q] \in {"building", "built"}, ~ overtaken'[q]
               PROVE  NotOlder(current', reads'[q])
    BY DEF FreshUnlessOvertaken, InBuild
  <2>1. q # p
    BY <1>0 DEF TypeOK
  <2>2. /\ pc[q] \in {"building", "built"} /\ ~ overtaken[q]
        /\ reads'[q] = reads[q] /\ current' = current
    BY <1>0, <2>1 DEF TypeOK
  <2>3. NotOlder(current, reads[q])
    BY <1>0, <2>2 DEF FreshUnlessOvertaken, InBuild
  <2> QED BY <2>2, <2>3
<1>8. AnswersScoped'
  BY <1>0, ProcsDistinct DEF AnswersScoped, TypeOK
<1> QED BY <1>2, <1>3, <1>4, <1>5, <1>6, <1>7, <1>8 DEF IInv

(* A build that begins has no results, and nobody has overtaken it yet. *)
LEMMA BeginStep ==
    ASSUME IInv, NEW p \in Procs, pc[p] = "idle", Begin(p),
           UNCHANGED <<world, promUp, ctxDone, current, lastErr, answer>>,
           gone' \subseteq gone
    PROVE  IInv'
<1> USE CatalogAssumption DEF Begin
<1>0. /\ TypeOK /\ CatalogWhole /\ ServedWhole /\ BuildsSound /\ BuildsScoped
      /\ FreshUnlessOvertaken /\ AnswersScoped
  BY DEF IInv
<1>1. TypeOK'
  BY <1>0 DEF TypeOK, Stations
<1>2. CatalogWhole' /\ ServedWhole'
  BY <1>0 DEF CatalogWhole, ServedWhole, Slice, Ordered
<1>3. reads[p] = << >>
  BY <1>0 DEF BuildsScoped
<1>4. BuildsSound'
  BY <1>0, <1>3, EmptyVector DEF BuildsSound, TypeOK, Ordered
<1>5. BuildsScoped'
  BY <1>0 DEF BuildsScoped, TypeOK
<1>6. FreshUnlessOvertaken'
  <2> SUFFICES ASSUME NEW q \in Procs, pc'[q] \in {"building", "built"}, ~ overtaken[q]
               PROVE  NotOlder(current, reads[q])
    BY DEF FreshUnlessOvertaken, InBuild
  <2>1. CASE q = p
    BY <1>3, <2>1, EmptyVector DEF NotOlder
  <2>2. CASE q # p
    <3>1. pc[q] \in {"building", "built"}
      BY <1>0, <2>2 DEF TypeOK
    <3> QED BY <1>0, <3>1 DEF FreshUnlessOvertaken, InBuild
  <2> QED BY <2>1, <2>2
<1>7. AnswersScoped'
  BY <1>0, ProcsDistinct DEF AnswersScoped, TypeOK
<1> QED BY <1>1, <1>2, <1>4, <1>5, <1>6, <1>7 DEF IInv

(* A request takes what the manager holds, which is a whole catalog. *)
LEMMA HeldStep ==
    ASSUME IInv, NEW r \in Requests, pc[r] \in {"idle", "reread"}, current # Empty,
           answer' = [answer EXCEPT ![r] = Held],
           pc' = [pc EXCEPT ![r] = "done"],
           UNCHANGED <<world, promUp, ctxDone, current, lastErr, reads, overtaken>>,
           gone' \subseteq gone
    PROVE  IInv'
<1> USE CatalogAssumption, ProcsDistinct
<1>0. /\ TypeOK /\ CatalogWhole /\ ServedWhole /\ BuildsSound /\ BuildsScoped
      /\ FreshUnlessOvertaken /\ AnswersScoped
  BY DEF IInv
<1>1. Held \in Answers /\ Slice(Held.snap)
  BY <1>0 DEF Held, Answers, TypeOK, CatalogWhole
<1>2. TypeOK'
  BY <1>0, <1>1 DEF TypeOK, Stations
<1>3. CatalogWhole'
  BY <1>0 DEF CatalogWhole, Slice, Ordered
<1>4. ServedWhole'
  BY <1>0, <1>1 DEF ServedWhole, Slice, Ordered, TypeOK
<1>5. BuildsSound' /\ BuildsScoped'
  BY <1>0 DEF BuildsSound, BuildsScoped, TypeOK, Ordered
<1>6. FreshUnlessOvertaken'
  <2> SUFFICES ASSUME NEW q \in Procs, pc'[q] \in {"building", "built"}, ~ overtaken[q]
               PROVE  NotOlder(current, reads[q])
    BY DEF FreshUnlessOvertaken, InBuild
  <2>1. pc[q] \in {"building", "built"}
    BY <1>0 DEF TypeOK
  <2> QED BY <1>0, <2>1 DEF FreshUnlessOvertaken, InBuild
<1>7. AnswersScoped'
  BY <1>0 DEF AnswersScoped, TypeOK
<1> QED BY <1>2, <1>3, <1>4, <1>5, <1>6, <1>7 DEF IInv

(* Steps that touch neither the catalog nor any build. *)
LEMMA QuietStep ==
    ASSUME IInv,
           \/ StopTicker
           \/ \E r \in Requests : Return(r) \/ Disconnect(r)
           \/ Terminate \/ PromFlip \/ Advance
           \/ UNCHANGED vars
    PROVE  IInv'
<1> USE CatalogAssumption, ProcsDistinct DEF environment, manager
<1>0. /\ TypeOK /\ CatalogWhole /\ ServedWhole /\ BuildsSound /\ BuildsScoped
      /\ FreshUnlessOvertaken /\ AnswersScoped
  BY DEF IInv
<1>1. CASE StopTicker
  <2>1. TypeOK'
    BY <1>0, <1>1 DEF StopTicker, TypeOK, Stations
  <2>2. CatalogWhole' /\ ServedWhole'
    BY <1>0, <1>1 DEF StopTicker, CatalogWhole, ServedWhole, Slice, Ordered
  <2>3. BuildsSound' /\ BuildsScoped'
    BY <1>0, <1>1 DEF StopTicker, BuildsSound, BuildsScoped, Ordered, TypeOK
  <2>4. FreshUnlessOvertaken' /\ AnswersScoped'
    BY <1>0, <1>1 DEF StopTicker, FreshUnlessOvertaken, AnswersScoped, InBuild, NotOlder, TypeOK
  <2> QED BY <2>1, <2>2, <2>3, <2>4 DEF IInv
<1>2. ASSUME NEW r \in Requests, Return(r) PROVE IInv'
  <2>0. NoAnswer \in Answers /\ NoAnswer.err # "nil"
    BY DEF NoAnswer, Answers, Empty
  <2>1. TypeOK'
    BY <1>0, <1>2, <2>0 DEF Return, TypeOK, Stations
  <2>2. CatalogWhole' /\ ServedWhole'
    BY <1>0, <1>2, <2>0 DEF Return, CatalogWhole, ServedWhole, Slice, Ordered, TypeOK
  <2>3. BuildsSound' /\ BuildsScoped'
    BY <1>0, <1>2 DEF Return, BuildsSound, BuildsScoped, Ordered, TypeOK
  <2>4. FreshUnlessOvertaken' /\ AnswersScoped'
    BY <1>0, <1>2 DEF Return, FreshUnlessOvertaken, AnswersScoped, InBuild, NotOlder, TypeOK
  <2> QED BY <2>1, <2>2, <2>3, <2>4 DEF IInv
<1>3. CASE \/ \E r \in Requests : Disconnect(r)
           \/ Terminate \/ PromFlip \/ UNCHANGED vars
  <2>1. /\ UNCHANGED <<world, current, lastErr, pc, reads, overtaken, answer>>
        /\ gone' \subseteq Requests /\ promUp' \in BOOLEAN /\ ctxDone' \in BOOLEAN
    BY <1>0, <1>3 DEF Disconnect, Terminate, PromFlip, vars, TypeOK
  <2>2. TypeOK'
    BY <1>0, <2>1 DEF TypeOK
  <2>3. CatalogWhole' /\ ServedWhole'
    BY <1>0, <2>1 DEF CatalogWhole, ServedWhole, Slice, Ordered
  <2>4. BuildsSound' /\ BuildsScoped'
    BY <1>0, <2>1 DEF BuildsSound, BuildsScoped, Ordered
  <2>5. FreshUnlessOvertaken' /\ AnswersScoped'
    BY <1>0, <2>1 DEF FreshUnlessOvertaken, AnswersScoped, InBuild, NotOlder
  <2> QED BY <2>2, <2>3, <2>4, <2>5 DEF IInv
<1>4. CASE Advance
  <2>1. TypeOK' /\ world <= world' /\ world \in Nat /\ world' \in Nat
    BY <1>0, <1>4 DEF Advance, TypeOK
  <2>2. \A v \in Seq(0..MaxWorld) : Slice(v) => Slice(v)'
    BY <2>1 DEF Slice, Ordered
  <2>3. CatalogWhole' /\ ServedWhole'
    <3>1. current \in Seq(0..MaxWorld) /\ \A r \in Requests : answer[r].snap \in Seq(0..MaxWorld)
      BY <1>0 DEF TypeOK, Answers
    <3> QED BY <1>0, <1>4, <2>2, <3>1 DEF Advance, CatalogWhole, ServedWhole
  <2>4. BuildsSound'
    <3>1. \A p \in Procs : \A i \in DOMAIN reads[p] : reads[p][i] \in Nat
      BY <1>0 DEF TypeOK
    <3> QED BY <1>0, <1>4, <2>1, <3>1 DEF Advance, BuildsSound, Ordered
  <2>5. BuildsScoped' /\ FreshUnlessOvertaken' /\ AnswersScoped'
    BY <1>0, <1>4 DEF Advance, BuildsScoped, FreshUnlessOvertaken, AnswersScoped,
                      InBuild, NotOlder
  <2> QED BY <2>1, <2>3, <2>4, <2>5 DEF IInv
<1> QED BY <1>1, <1>2, <1>3, <1>4

LEMMA NextIInv == IInv /\ [Next]_vars => IInv'
<1> SUFFICES ASSUME IInv, [Next]_vars PROVE IInv'
  OBVIOUS
<1>1. ASSUME NEW p \in Procs, RefreshStep(p) PROVE IInv'
  BY <1>1, QueryOKStep, QueryFailStep, InstallStep, RecordErrStep DEF RefreshStep
<1>2. CASE Tick
  BY <1>2, BeginStep, ProcsDistinct DEF Tick, environment, manager
<1>3. ASSUME NEW r \in Requests, SnapshotHit(r) PROVE IInv'
  BY <1>3, HeldStep DEF SnapshotHit, environment, manager
<1>4. ASSUME NEW r \in Requests, SnapshotMiss(r) PROVE IInv'
  BY <1>4, BeginStep, ProcsDistinct DEF SnapshotMiss, environment, manager
<1>5. ASSUME NEW r \in Requests, Reread(r) PROVE IInv'
  BY <1>5, HeldStep, ProcsDistinct DEF Reread, environment, manager, IInv, BuildsScoped
<1>6. CASE \/ StopTicker
           \/ \E r \in Requests : Return(r) \/ Disconnect(r)
           \/ Terminate \/ PromFlip \/ Advance
           \/ UNCHANGED vars
  BY <1>6, QuietStep
<1> QED BY <1>1, <1>2, <1>3, <1>4, <1>5, <1>6 DEF Next, RequestStep

LEMMA Invariance == Spec => []IInv
  BY InitIInv, NextIInv, PTL DEF Spec
-----------------------------------------------------------------------------
(* Every reachable state is well typed, for any number of requests, queries  *)
(* and versions.                                                             *)
THEOREM TypeCorrect == Spec => []TypeOK
<1>1. IInv => TypeOK
  BY DEF IInv
<1> QED BY <1>1, Invariance, PTL

(* No failed or cancelled build ever leaves a partial catalog in memory.     *)
THEOREM CatalogAlwaysWhole == Spec => []CatalogWhole
<1>1. IInv => CatalogWhole
  BY DEF IInv
<1> QED BY <1>1, Invariance, PTL

(* A handler that sees no error always holds a whole catalog.                *)
THEOREM ServedAlwaysWhole == Spec => []ServedWhole
<1>1. IInv => ServedWhole
  BY DEF IInv
<1> QED BY <1>1, Invariance, PTL

(* Only a build that was overtaken can make the catalog older in any part.   *)
THEOREM RegressesOnlyWhenOvertaken == Spec => RegressOnlyWhenOvertaken
<1>1. IInv /\ [Next]_vars =>
        [\A p \in Procs : Install(p) /\ ~ overtaken[p] => NotOlder(current, current')]_vars
  <2> SUFFICES ASSUME IInv, NEW p \in Procs, Install(p), ~ overtaken[p]
               PROVE  NotOlder(current, current')
    OBVIOUS
  <2>1. NotOlder(current, reads[p])
    BY DEF Install, IInv, FreshUnlessOvertaken, InBuild
  <2> QED BY <2>1 DEF Install
<1> QED BY <1>1, Invariance, PTL DEF Spec, RegressOnlyWhenOvertaken
-----------------------------------------------------------------------------
(* Concurrent refreshes and on-demand reads implement the register: every    *)
(* step of the manager is a step of the register or changes nothing in it.   *)
THEOREM Refinement == Spec => ImplementsRegister
<1> USE CatalogAssumption, ProcsDistinct DEF environment, manager
<1>0. NoAnswer = Reg!NoAnswer /\ Refusal = Reg!Refusal
  BY DEF NoAnswer, Reg!NoAnswer, Refusal, Reg!Refusal, Empty, Reg!Empty
<1>1. Init => Reg!Init
  BY <1>0 DEF Init, Reg!Init, Empty, Reg!Empty
<1>2. IInv /\ IInv' /\ [Next]_vars => [Reg!Next]_Reg!vars
  <2> SUFFICES ASSUME IInv, IInv', [Next]_vars
               PROVE  Reg!Next \/ UNCHANGED Reg!vars
    OBVIOUS
  <2>0. /\ TypeOK /\ CatalogWhole' /\ BuildsSound /\ BuildsScoped /\ AnswersScoped
    BY DEF IInv
  <2>1. ASSUME NEW p \in Procs, QueryOK(p) \/ QueryFail(p)
        PROVE  UNCHANGED Reg!vars
    BY <2>1 DEF QueryOK, QueryFail, Reg!vars
  <2>2. ASSUME NEW p \in Procs, Install(p) PROVE Reg!Publish
    <3>1. Slice(reads[p])
      BY <2>0, <2>2 DEF Install, BuildsSound, TypeOK, Slice
    <3> QED BY <2>2, <3>1 DEF Install, InstalledErr, Reg!Publish, Reg!Slice,
                              Reg!Ordered, Slice, Ordered
  <2>3. ASSUME NEW p \in Procs, RecordErr(p) PROVE Reg!Next
    <3>1. CASE p \in Requests
      <4>1. answer[p] = NoAnswer
        BY <2>0, <2>3, <3>1 DEF RecordErr, AnswersScoped
      <4>2. answer' = [answer EXCEPT ![p] = Refusal]
        BY <2>0, <2>3, <3>1 DEF RecordErr, TypeOK
      <4>3. Reg!Refuse(p)
        BY <1>0, <2>3, <4>1, <4>2 DEF RecordErr, Reg!Refuse
      <4> QED BY <3>1, <4>3 DEF Reg!Next
    <3>2. CASE p \notin Requests
      <4>1. answer' = answer
        BY <2>0, <2>3, <3>2 DEF RecordErr, TypeOK
      <4> QED BY <2>3, <4>1 DEF RecordErr, Reg!Next, Reg!Fail
    <3> QED BY <3>1, <3>2
  <2>4. ASSUME Tick \/ StopTicker \/ Terminate \/ PromFlip
        PROVE  UNCHANGED Reg!vars
    BY <2>4 DEF Tick, Begin, StopTicker, Terminate, PromFlip, Reg!vars
  <2>5. ASSUME NEW r \in Requests, SnapshotHit(r) \/ Reread(r)
        PROVE  Reg!Get(r)
    <3>1. answer[r] = NoAnswer /\ current # Empty
      BY <2>0, <2>5 DEF SnapshotHit, Reread, AnswersScoped, BuildsScoped
    <3> QED BY <1>0, <2>5, <3>1 DEF SnapshotHit, Reread, Held, Reg!Get, Empty, Reg!Empty
  <2>6. ASSUME NEW r \in Requests, SnapshotMiss(r) \/ Disconnect(r)
        PROVE  UNCHANGED Reg!vars
    BY <2>6 DEF SnapshotMiss, Begin, Disconnect, Reg!vars
  <2>7. ASSUME NEW r \in Requests, Return(r)
        PROVE  Reg!Release(r) \/ UNCHANGED Reg!vars
    BY <1>0, <2>7, <2>0 DEF Return, Reg!Release, Reg!vars, TypeOK
  <2>8. ASSUME Advance PROVE Reg!Advance
    BY <2>8 DEF Advance, Reg!Advance
  <2>9. ASSUME UNCHANGED vars PROVE UNCHANGED Reg!vars
    BY <2>9 DEF vars, Reg!vars
  <2> QED BY <2>1, <2>2, <2>3, <2>4, <2>5, <2>6, <2>7, <2>8, <2>9
          DEF Next, RefreshStep, RequestStep, Reg!Next
<1> QED BY <1>1, <1>2, Invariance, PTL DEF Spec, Reg!Spec, ImplementsRegister
=============================================================================
