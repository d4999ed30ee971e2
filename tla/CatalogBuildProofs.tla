------------------------- MODULE CatalogBuildProofs -------------------------
(* For any cloud, any of its histories and any configuration of domains: the *)
(* owners in a catalog are true (OwnersTrue), what lasted is in it           *)
(* (SteadyComplete), devices are where they belong (DevicesTrue), and the    *)
(* different ways to ask it agree (MetricsAgree, GenericAgrees,              *)
(* MetricsLeadHome).                                                         *)
EXTENDS CatalogBuild, TLAPS

(* The types the argument needs. *)
Typed ==
    /\ owner \in [Owned -> Labels]
    /\ domainOf \in [Instances -> Domains]
    /\ alive \subseteq Things
    /\ held \in [Owned -> SUBSET Labels]
    /\ lists \in Seq(SUBSET ((Owned \cup Ports) \X Labels))
    /\ Len(lists) <= 7

(* The owners of this build include the present ones. *)
HeldNow == \A x \in Owned : owner[x] \in held[x]

(* A label in a list names nobody, or an owner of this build. *)
Truthful ==
    \A k \in DOMAIN lists : \A s \in lists[k] :
        /\ <<Queries[k], s[1]>> \in Things
        /\ s[2] = Blank \/ s[2] \in held[s[1]]

(* What Resource makes of a row, before it is copied to the generic type. *)
Record(r) == r = [type |-> r.type, id |-> r.id, project |-> r.project, of |-> r.of]
Original(r) == Record(r) /\ r.of \in Types /\ r.type = r.of /\ r.project # Blank
TrueOwner(r) == r.project = Nil \/ (r.project \in held[Holder(r)] /\ r.project # Blank)

(* Every resource is listed twice, by its type and in the generic type. *)
Shape ==
    \A r \in catalog.resources :
        /\ Record(r) /\ r.of \in Types /\ r.project # Blank
        /\ r.type = r.of \/ r.type = "generic"
        /\ [r EXCEPT !.type = r.of] \in catalog.resources
        /\ [r EXCEPT !.type = "generic"] \in catalog.resources

(* The metrics are those of the resources. *)
Indexed == catalog.metrics = UNION {Metrics(r) : r \in catalog.resources}

Inv == Typed /\ HeldNow /\ Truthful /\ OwnersTrue /\ Shape /\ Indexed

(* What existed throughout is among what exists, each port with its network, *)
(* and only networks may be without a project.                               *)
Lasting ==
    /\ steady \subseteq alive
    /\ Possible(alive) /\ Possible(steady)
    /\ \A x \in Instances \cup Volumes : owner[x] # Blank

(* What existed throughout is in every list that has been read.              *)
Present ==
    \A k \in DOMAIN lists, x \in Owned \cup Ports : <<Queries[k], x>> \in steady => x \in Listed(k)

(* Only volumes change hands, and none is without a project.                 *)
Fixed ==
    \A k \in DOMAIN lists : \A s \in lists[k] :
        IF Queries[k] = "volume" THEN s[2] # Blank ELSE s[2] = Label(Queries[k], s[1])

Joined == Lasting /\ Present /\ Fixed /\ SteadyComplete /\ DevicesTrue
-----------------------------------------------------------------------------
(* The list of networks is the third, that of guests the fifth.              *)
LEMMA QueriesAre ==
    /\ Len(Queries) = 7
    /\ Queries[1] = "vm" /\ Queries[2] = "volume" /\ Queries[3] = "network"
    /\ Queries[4] = "port" /\ Queries[5] = "guest" /\ Queries[6] = "guest"
    /\ Queries[7] = "guest"
    /\ \A k \in 1..7 : Queries[k] \in {"vm", "volume", "network", "port", "guest"}
BY DEF Queries

(* A thing is a pair of a kind and an id; all but ports have an owner.       *)
LEMMA ThingsAre ==
    /\ \A t \in Things : t = <<t[1], t[2]>> /\ t[2] \in Owned \cup Ports
    /\ \A t \in Things : t[1] # "port" => t[2] \in Owned
BY DEF Things, Owned

(* An answer names nobody, or who owns the thing now.                        *)
LEMMA AnswerTrue ==
    ASSUME Inv, NEW kind, NEW s \in Answer(kind)
    PROVE  /\ s \in (Owned \cup Ports) \X Labels
           /\ <<kind, s[1]>> \in Things
           /\ s[2] = Blank \/ s[2] \in held[s[1]]
<1>1. PICK t \in alive : t[1] = kind /\ s = <<t[2], Label(kind, t[2])>>
  BY DEF Answer
<1>2. t \in Things /\ t = <<kind, t[2]>> /\ t[2] \in Owned \cup Ports
  BY <1>1, ThingsAre DEF Inv, Typed
<1>3. s[1] = t[2] /\ s[2] = Label(kind, t[2])
  BY <1>1
<1>4. Label(kind, t[2]) = Blank \/ (t[2] \in Owned /\ Label(kind, t[2]) = owner[t[2]])
  BY <1>1, <1>2, ThingsAre DEF Label
<1>5. Label(kind, t[2]) \in Labels
  BY <1>4 DEF Inv, Typed, Labels
<1>6. QED
  BY <1>1, <1>2, <1>3, <1>4, <1>5 DEF Inv, HeldNow

(* normalizeOptionalValue of a truthful label.                               *)
LEMMA NormalizedTrue ==
    ASSUME NEW label, NEW owners, label = Blank \/ label \in owners
    PROVE  /\ Normalized(label) # Blank
           /\ Normalized(label) = Nil \/ Normalized(label) \in owners
BY BuildAssumption DEF Normalized

LEMMA SimpleTrue ==
    ASSUME Inv, NEW k \in DOMAIN lists, NEW type \in {"instance", "volume", "network"},
           NEW r \in Simple(type, k)
    PROVE  Original(r) /\ TrueOwner(r)
<1>1. PICK s \in lists[k] : r = Resource(type, s[1], Normalized(s[2]))
  BY DEF Simple
<1>2. s[2] = Blank \/ s[2] \in held[s[1]]
  BY DEF Inv, Truthful
<1>3. /\ Normalized(s[2]) # Blank
      /\ Normalized(s[2]) = Nil \/ Normalized(s[2]) \in held[s[1]]
  BY <1>2, NormalizedTrue
<1>4. Record(r) /\ r.type = type /\ r.of = type /\ r.id = s[1] /\ r.project = Normalized(s[2])
  BY <1>1 DEF Resource, Record
<1>5. Holder(r) = s[1]
  BY <1>4 DEF Holder
<1>6. QED
  BY <1>3, <1>4, <1>5 DEF Original, TrueOwner, Types

LEMMA PortTrue ==
    ASSUME Inv, 3 \in DOMAIN lists, NEW r \in PortResources
    PROVE  Original(r) /\ TrueOwner(r)
<1>1. PICK p \in Listed(4) : r = Resource("port", p, NetworkProject(NetworkOf[p]))
  BY DEF PortResources
<1> DEFINE n == NetworkOf[p]
           known == {s \in lists[3] : s[1] = n}
<1>2. Record(r) /\ r.type = "port" /\ r.of = "port" /\ r.id = p /\ r.project = NetworkProject(n)
  BY <1>1 DEF Resource, Record
<1>3. Holder(r) = n
  BY <1>2 DEF Holder
<1>4. NetworkProject(n) # Blank /\ (NetworkProject(n) = Nil \/ NetworkProject(n) \in held[n])
  <2>1. CASE known = {}
    BY <2>1, BuildAssumption DEF NetworkProject
  <2>2. CASE known # {}
    <3> DEFINE s == CHOOSE s \in known : TRUE
    <3>1. s \in lists[3] /\ s[1] = n
      BY <2>2
    <3>2. s[2] = Blank \/ s[2] \in held[n]
      BY <3>1 DEF Inv, Truthful
    <3>3. NetworkProject(n) = Normalized(s[2])
      BY <2>2 DEF NetworkProject
    <3> HIDE DEF s
    <3>4. QED
      BY <3>2, <3>3, NormalizedTrue
  <2>3. QED
    BY <2>1, <2>2
<1>5. QED
  BY <1>2, <1>3, <1>4 DEF Original, TrueOwner, Types

LEMMA GuestTrue ==
    ASSUME Inv, 1 \in DOMAIN lists, 5 \in DOMAIN lists, NEW g \in Listed(5)
    PROVE  /\ GuestProject(g) # Blank
           /\ GuestProject(g) = Nil \/ GuestProject(g) \in held[g]
<1> DEFINE nova == {s \in lists[1] : s[1] = g}
           meta == {s \in lists[5] : s[1] = g}
           rows == IF nova = {} THEN meta ELSE nova
           s == CHOOSE s \in rows : TRUE
<1>1. rows # {}
  BY DEF Listed
<1>2. s \in rows
  BY <1>1
<1>3. s[1] = g /\ (s \in lists[1] \/ s \in lists[5])
  BY <1>2
<1>4. s[2] = Blank \/ s[2] \in held[g]
  BY <1>3 DEF Inv, Truthful
<1>5. GuestProject(g) = Normalized(s[2])
  BY DEF GuestProject
<1> HIDE DEF s
<1>6. QED
  BY <1>4, <1>5, NormalizedTrue

LEMMA DeviceTrue ==
    ASSUME Inv, 1 \in DOMAIN lists, 5 \in DOMAIN lists, NEW w \in Winners, NEW k,
           NEW type \in {"instance_network_interface", "instance_disk"},
           NEW r \in DeviceResources(type, k, w)
    PROVE  Original(r) /\ TrueOwner(r)
<1>1. PICK d : /\ domainOf[d[1]] \in DOMAIN w
               /\ r = Resource(type, <<w[domainOf[d[1]]], d[2]>>, GuestProject(w[domainOf[d[1]]]))
  BY DEF DeviceResources
<1> DEFINE g == w[domainOf[d[1]]]
<1>2. g \in Listed(5)
  BY <1>1 DEF Winners
<1>3. /\ Record(r) /\ r.type = type /\ r.of = type /\ r.id = <<g, d[2]>>
      /\ r.project = GuestProject(g)
  BY <1>1 DEF Resource, Record
<1> HIDE DEF g
<1>4. Holder(r) = g
  BY <1>3 DEF Holder
<1>5. QED
  BY <1>2, <1>3, <1>4, GuestTrue DEF Original, TrueOwner, Types

(* A copy in the generic type differs in nothing but the type.               *)
LEMMA CopyIs ==
    ASSUME NEW r, Original(r)
    PROVE  LET c == [r EXCEPT !.type = "generic"]
           IN /\ Record(c) /\ c.type = "generic" /\ c.id = r.id /\ c.project = r.project
              /\ c.of = r.of /\ [c EXCEPT !.type = c.of] = r
              /\ [c EXCEPT !.type = "generic"] = c
              /\ [r EXCEPT !.type = r.of] = r
              /\ Holder(c) = Holder(r) /\ Metrics(c) = Metrics(r)
<1> DEFINE c == [r EXCEPT !.type = "generic"]
<1>1. r = [type |-> r.type, id |-> r.id, project |-> r.project, of |-> r.of] /\ r.type = r.of
  BY DEF Original, Record
<1>2. c = [type |-> "generic", id |-> r.id, project |-> r.project, of |-> r.of]
  BY <1>1
<1>3. c.type = "generic" /\ c.id = r.id /\ c.project = r.project /\ c.of = r.of
  BY <1>2
<1>4. Record(c) /\ [c EXCEPT !.type = "generic"] = c
  BY <1>2, <1>3 DEF Record
<1>5. [c EXCEPT !.type = c.of] = r
  BY <1>1, <1>2, <1>3
<1>6. [r EXCEPT !.type = r.of] = r
  BY <1>1
<1>7. Holder(c) = Holder(r)
  BY <1>3 DEF Holder
<1>8. Metrics(c) = Metrics(r)
  BY <1>3 DEF Metrics
<1>9. QED
  BY <1>3, <1>4, <1>5, <1>6, <1>7, <1>8
-----------------------------------------------------------------------------
LEMMA InitInv == Init => Inv
<1> SUFFICES ASSUME Init PROVE Inv
  OBVIOUS
<1>1. owner \in [Owned -> Labels] /\ catalog.resources = {} /\ catalog.metrics = {}
  BY DEF Init, Empty
<1>2. Typed
  BY <1>1, BuildAssumption DEF Init, Typed
<1>3. HeldNow
  BY DEF Init, HeldNow
<1>4. Truthful
  BY DEF Init, Truthful
<1>5. OwnersTrue /\ Shape /\ Indexed
  BY <1>1 DEF OwnersTrue, Shape, Indexed
<1>6. QED
  BY <1>2, <1>3, <1>4, <1>5 DEF Inv

(* While the owners of this build and the catalog stay, so does what is said *)
(* about them.                                                               *)
LEMMA SameCatalog ==
    ASSUME Inv, held' = held, catalog' = catalog
    PROVE  (OwnersTrue /\ Shape /\ Indexed)'
BY DEF Inv, OwnersTrue, Holder, Shape, Record, Types, Indexed, Metrics

(* An empty catalog says nothing wrong.                                      *)
LEMMA NoCatalog ==
    ASSUME catalog' = Empty
    PROVE  (OwnersTrue /\ Shape /\ Indexed)'
<1>1. catalog'.resources = {} /\ catalog'.metrics = {}
  BY DEF Empty
<1>2. QED
  BY <1>1 DEF OwnersTrue, Shape, Indexed

LEMMA CreateInv ==
    ASSUME Inv, NEW t \in Things, Create(t) \/ Delete(t)
    PROVE  Inv'
<1>1. /\ owner' = owner /\ domainOf' = domainOf /\ lists' = lists
      /\ catalog' = catalog /\ held' = held
  BY DEF Create, Delete, Change
<1>2. alive' \subseteq Things
  BY DEF Create, Delete, Inv, Typed
<1>3. (Typed /\ HeldNow)'
  BY <1>1, <1>2 DEF Inv, Typed, HeldNow
<1>4. Truthful'
  BY <1>1 DEF Inv, Truthful
<1>5. QED
  BY <1>1, <1>3, <1>4, SameCatalog DEF Inv

LEMMA TransferInv ==
    ASSUME Inv, NEW v \in Volumes, NEW p \in Projects, Transfer(v, p)
    PROVE  Inv'
<1>1. /\ domainOf' = domainOf /\ lists' = lists /\ alive' = alive /\ catalog' = Empty
      /\ owner' = [owner EXCEPT ![v] = p]
      /\ held' = [held EXCEPT ![v] = @ \cup {p}]
  BY DEF Transfer, Change
<1>2. p \in Labels /\ v \in Owned
  BY DEF Labels, Owned
<1>3. Typed'
  BY <1>1, <1>2 DEF Inv, Typed
<1>4. HeldNow'
  BY <1>1, <1>2 DEF Inv, Typed, HeldNow
<1>5. Truthful'
  <2>1. \A x \in Owned : held[x] \subseteq held'[x]
    BY <1>1 DEF Inv, Typed
  <2> SUFFICES ASSUME NEW k \in DOMAIN lists, NEW s \in lists[k]
               PROVE  /\ <<Queries[k], s[1]>> \in Things
                      /\ s[2] = Blank \/ s[2] \in held'[s[1]]
    BY <1>1 DEF Truthful
  <2>2. <<Queries[k], s[1]>> \in Things /\ (s[2] = Blank \/ s[2] \in held[s[1]])
    BY DEF Inv, Truthful
  <2>3. CASE s[1] \in Owned
    BY <2>1, <2>2, <2>3
  <2>4. CASE s[1] \notin Owned
    <3>1. held'[s[1]] = held[s[1]]
      BY <1>1, <1>2, <2>4 DEF Inv, Typed
    <3>2. QED
      BY <2>2, <3>1
  <2>5. QED
    BY <2>3, <2>4
<1>6. QED
  BY <1>1, <1>3, <1>4, <1>5, NoCatalog DEF Inv

LEMMA QueryInv == Inv /\ Query => Inv'
<1> SUFFICES ASSUME Inv, Query PROVE Inv'
  OBVIOUS
<1> DEFINE kind == Queries[Len(lists) + 1]
<1>1. /\ owner' = owner /\ domainOf' = domainOf /\ alive' = alive
      /\ catalog' = catalog /\ held' = held
      /\ lists' = Append(lists, Answer(kind)) /\ Len(lists) < 7
  BY QueriesAre DEF Query, cloud
<1>2. Answer(kind) \in SUBSET ((Owned \cup Ports) \X Labels)
  BY AnswerTrue
<1>3. (Typed /\ HeldNow)'
  BY <1>1, <1>2 DEF Inv, Typed, HeldNow
<1>4. Truthful'
  <2> SUFFICES ASSUME NEW k \in DOMAIN lists', NEW s \in lists'[k]
               PROVE  /\ <<Queries[k], s[1]>> \in Things
                      /\ s[2] = Blank \/ s[2] \in held[s[1]]
    BY <1>1 DEF Truthful
  <2>1. CASE k \in DOMAIN lists
    <3>1. s \in lists[k]
      BY <1>1, <1>2, <2>1 DEF Inv, Typed
    <3>2. QED
      BY <2>1, <3>1 DEF Inv, Truthful
  <2>2. CASE k \notin DOMAIN lists
    <3>1. k = Len(lists) + 1 /\ lists'[k] = Answer(kind)
      BY <1>1, <1>2, <2>2 DEF Inv, Typed
    <3>2. QED
      BY <3>1, AnswerTrue
  <2>3. QED
    BY <2>1, <2>2
<1>5. QED
  BY <1>1, <1>3, <1>4, SameCatalog DEF Inv

LEMMA AssembleInv == Inv /\ Assemble => Inv'
<1> SUFFICES ASSUME Inv, Assemble PROVE Inv'
  OBVIOUS
<1>1. PICK w \in Winners :
        LET typed == Simple("instance", 1) \cup Simple("volume", 2)
                        \cup Simple("network", 3) \cup PortResources
                        \cup DeviceResources("instance_network_interface", 6, w)
                        \cup DeviceResources("instance_disk", 7, w)
        IN \E after \in SUBSET {r.of : r \in {s \in typed : Metrics(s) # {}}} :
             catalog' = [resources |-> typed \cup Generic(typed),
                         metrics |-> MetricsByID(typed, after)]
  BY DEF Assemble
<1> DEFINE typed == Simple("instance", 1) \cup Simple("volume", 2)
                        \cup Simple("network", 3) \cup PortResources
                        \cup DeviceResources("instance_network_interface", 6, w)
                        \cup DeviceResources("instance_disk", 7, w)
<1>2. PICK after : catalog' = [resources |-> typed \cup Generic(typed),
                               metrics |-> MetricsByID(typed, after)]
  BY <1>1
<1>3. /\ owner' = owner /\ domainOf' = domainOf /\ alive' = alive
      /\ held' = held /\ lists' = << >>
  BY DEF Assemble, cloud
<1>4. DOMAIN lists = 1..7
  BY QueriesAre DEF Assemble, Inv, Typed
<1>5. \A r \in typed : Original(r) /\ TrueOwner(r)
  BY <1>4, SimpleTrue, PortTrue, DeviceTrue
<1> HIDE DEF typed
<1>6. catalog'.resources = typed \cup {[r EXCEPT !.type = "generic"] : r \in typed}
  BY <1>2 DEF Generic
<1>7. catalog'.metrics = UNION {Metrics(r) : r \in typed}
  BY <1>2 DEF MetricsByID, Copies
<1>8. (Typed /\ HeldNow /\ Truthful)'
  BY <1>3 DEF Inv, Typed, HeldNow, Truthful
<1>9. OwnersTrue'
  <2> SUFFICES ASSUME NEW r \in catalog'.resources
               PROVE  r.project = Nil \/ (r.project \in held[Holder(r)] /\ r.project # Blank)
    BY <1>3 DEF OwnersTrue, Holder
  <2>1. CASE r \in typed
    BY <1>5, <2>1 DEF TrueOwner
  <2>2. ASSUME NEW t \in typed, r = [t EXCEPT !.type = "generic"]
        PROVE  r.project = Nil \/ (r.project \in held[Holder(r)] /\ r.project # Blank)
    <3>1. r.project = t.project /\ Holder(r) = Holder(t)
      BY <1>5, <2>2, CopyIs
    <3>2. QED
      BY <1>5, <3>1 DEF TrueOwner
  <2>3. QED
    BY <1>6, <2>1, <2>2
<1>10. Shape'
  <2> SUFFICES ASSUME NEW r \in catalog'.resources
               PROVE  /\ Record(r) /\ r.of \in Types /\ r.project # Blank
                      /\ r.type = r.of \/ r.type = "generic"
                      /\ [r EXCEPT !.type = r.of] \in catalog'.resources
                      /\ [r EXCEPT !.type = "generic"] \in catalog'.resources
    BY DEF Shape, Record, Types
  <2>1. CASE r \in typed
    <3>1. [r EXCEPT !.type = r.of] = r
      BY <1>5, <2>1, CopyIs
    <3>2. [r EXCEPT !.type = "generic"] \in catalog'.resources
      BY <1>6, <2>1
    <3>3. QED
      BY <1>5, <2>1, <3>1, <3>2 DEF Original
  <2>2. ASSUME NEW t \in typed, r = [t EXCEPT !.type = "generic"]
        PROVE  /\ Record(r) /\ r.of \in Types /\ r.project # Blank /\ r.type = "generic"
               /\ [r EXCEPT !.type = r.of] \in catalog'.resources
               /\ [r EXCEPT !.type = "generic"] \in catalog'.resources
    <3>1. Original(t)
      BY <1>5
    <3>2. /\ Record(r) /\ r.type = "generic" /\ r.project = t.project /\ r.of = t.of
          /\ [r EXCEPT !.type = r.of] = t /\ [r EXCEPT !.type = "generic"] = r
      BY <2>2, <3>1, CopyIs
    <3>3. t \in catalog'.resources
      BY <1>6
    <3>4. QED
      BY <3>1, <3>2, <3>3 DEF Original
  <2>3. QED
    BY <1>6, <2>1, <2>2
<1>11. Indexed'
  <2>1. \A t \in typed : Metrics([t EXCEPT !.type = "generic"]) = Metrics(t)
    BY <1>5, CopyIs
  <2>2. UNION {Metrics(r) : r \in catalog'.resources} = UNION {Metrics(r) : r \in typed}
    BY <1>6, <2>1
  <2>3. QED
    BY <1>7, <2>2 DEF Indexed, Metrics
<1>12. QED
  BY <1>8, <1>9, <1>10, <1>11 DEF Inv

LEMMA BeginInv == Inv /\ Begin => Inv'
<1> SUFFICES ASSUME Inv, Begin PROVE Inv'
  OBVIOUS
<1>1. /\ owner' = owner /\ domainOf' = domainOf /\ alive' = alive /\ catalog' = Empty
      /\ lists' = << >> /\ held' = [x \in Owned |-> {owner[x]}]
  BY DEF Begin, cloud
<1>2. (Typed /\ HeldNow /\ Truthful)'
  BY <1>1 DEF Inv, Typed, HeldNow, Truthful
<1>3. QED
  BY <1>1, <1>2, NoCatalog DEF Inv

LEMMA StutterInv == Inv /\ UNCHANGED vars => Inv'
<1> SUFFICES ASSUME Inv, UNCHANGED vars PROVE Inv'
  OBVIOUS
<1>1. (Typed /\ HeldNow /\ Truthful)'
  BY DEF Inv, vars, Typed, HeldNow, Truthful
<1>2. (OwnersTrue /\ Shape /\ Indexed)'
  BY SameCatalog DEF vars
<1>3. QED
  BY <1>1, <1>2 DEF Inv

LEMMA Invariance == Spec => []Inv
<1>1. Inv /\ [Next]_vars => Inv'
  BY CreateInv, TransferInv, QueryInv, AssembleInv, BeginInv, StutterInv DEF Next
<1>2. QED
  BY <1>1, InitInv, PTL DEF Spec
-----------------------------------------------------------------------------
(* However the cloud changes between the queries of a build, buildSnapshot   *)
(* gives nothing a project that did not own it, its network or its instance. *)
THEOREM OwnersAlwaysTrue == Spec => []OwnersTrue
<1>1. Inv => OwnersTrue
  BY DEF Inv
<1>2. QED
  BY <1>1, Invariance, PTL

(* A metric is that of a resource only if its type and id say so.            *)
LEMMA MetricOf ==
    ASSUME NEW r, NEW m
    PROVE  m \in Metrics(r) <=>
              /\ r.of # "instance_disk"
              /\ m = [id |-> <<r.of, r.id>>, type |-> r.of, resource |-> r.id]
BY DEF Metrics

(* resourcesForRequest and listMetrics check projects in two ways, and agree *)
(* for every caller.                                                         *)
THEOREM MetricsAlwaysAgree == Spec => []MetricsAgree
<1>1. ASSUME Inv, NEW c \in Callers
      PROVE  MetricsFor(c) = UNION {Metrics(r) : r \in UNION {ResourcesFor(c, t) : t \in Types}}
  <2> DEFINE shown == UNION {ResourcesFor(c, t) : t \in Types}
  <2>1. \A r \in catalog.resources : Record(r) /\ r.of \in Types /\ r.project # Blank
                /\ (r.type = r.of \/ r.type = "generic")
    BY <1>1 DEF Inv, Shape
  <2>2. "generic" \notin Types
    BY DEF Types
  <2>3. shown = {r \in catalog.resources : r.type = r.of /\ (c = Admin \/ r.project = c)}
    BY <2>1, <2>2 DEF ResourcesFor
  <2>4. ASSUME NEW m \in MetricsFor(c)
        PROVE  \E r \in shown : m \in Metrics(r)
    <3>1. PICK q \in catalog.resources : m \in Metrics(q)
      BY <1>1, <2>4 DEF MetricsFor, Inv, Indexed
    <3>2. PICK r \in catalog.resources :
            r.type = m.type /\ r.id = m.resource /\ (c = Admin \/ r.project = c)
      BY <2>4 DEF MetricsFor
    <3>3. /\ q.of # "instance_disk" /\ m = [id |-> <<q.of, q.id>>, type |-> q.of, resource |-> q.id]
          /\ q.of \in Types
      BY <2>1, <3>1, MetricOf
    <3>4. m.type = q.of /\ m.resource = q.id
      BY <3>3
    <3>5. r.of = q.of /\ r.id = q.id /\ r.type = r.of
      BY <2>1, <2>2, <3>2, <3>3, <3>4
    <3>6. m \in Metrics(r)
      BY <3>3, <3>5, MetricOf
    <3>7. QED
      BY <2>3, <3>2, <3>5, <3>6
  <2>5. ASSUME NEW r \in shown, NEW m \in Metrics(r)
        PROVE  m \in MetricsFor(c)
    <3>1. r \in catalog.resources /\ r.type = r.of /\ (c = Admin \/ r.project = c)
      BY <2>3
    <3>2. m \in catalog.metrics
      BY <1>1, <3>1 DEF Inv, Indexed
    <3>3. m = [id |-> <<r.of, r.id>>, type |-> r.of, resource |-> r.id]
      BY MetricOf
    <3>4. m.type = r.of /\ m.resource = r.id
      BY <3>3
    <3>5. QED
      BY <3>1, <3>2, <3>4 DEF MetricsFor
  <2> HIDE DEF shown
  <2>6. MetricsFor(c) = UNION {Metrics(r) : r \in shown}
    BY <2>4, <2>5
  <2>7. QED
    BY <2>6 DEF shown
<1>2. Inv => MetricsAgree
  BY <1>1 DEF MetricsAgree
<1>3. QED
  BY <1>2, Invariance, PTL

(* In whatever order the types are indexed, metricByID finds the resource.   *)
THEOREM MetricsAlwaysLeadHome == Spec => []MetricsLeadHome
<1>1. ASSUME Inv, NEW m \in catalog.metrics
      PROVE  /\ m.id = <<m.type, m.resource>>
             /\ m.resource \in {r.id : r \in ResourcesFor(Admin, m.type)}
  <2>1. PICK q \in catalog.resources : m \in Metrics(q)
    BY <1>1 DEF Inv, Indexed
  <2>2. m = [id |-> <<q.of, q.id>>, type |-> q.of, resource |-> q.id]
    BY <2>1, MetricOf
  <2>3. m.id = <<q.of, q.id>> /\ m.type = q.of /\ m.resource = q.id
    BY <2>2
  <2> DEFINE r == [q EXCEPT !.type = q.of]
  <2>4. r \in catalog.resources /\ Record(q)
    BY <1>1, <2>1 DEF Inv, Shape
  <2>5. r.type = q.of /\ r.id = q.id
    BY <2>4 DEF Record
  <2> HIDE DEF r
  <2>6. r \in ResourcesFor(Admin, m.type)
    BY <2>3, <2>4, <2>5 DEF ResourcesFor
  <2>7. QED
    BY <2>3, <2>5, <2>6
<1>2. Inv => MetricsLeadHome
  BY <1>1 DEF MetricsLeadHome
<1>3. QED
  BY <1>2, Invariance, PTL

(* The generic type shows every caller what the other types show.            *)
THEOREM GenericAlwaysAgrees == Spec => []GenericAgrees
<1>1. ASSUME Inv, NEW c \in Callers
      PROVE  {<<r.of, r.id>> : r \in ResourcesFor(c, "generic")}
                = UNION {{<<t, r.id>> : r \in ResourcesFor(c, t)} : t \in Types}
  <2>1. ASSUME NEW r \in ResourcesFor(c, "generic")
        PROVE  \E t \in Types : \E q \in ResourcesFor(c, t) : <<r.of, r.id>> = <<t, q.id>>
    <3> DEFINE q == [r EXCEPT !.type = r.of]
    <3>1. r \in catalog.resources /\ (c = Admin \/ (r.project # Blank /\ r.project = c))
      BY DEF ResourcesFor
    <3>2. q \in catalog.resources /\ Record(r) /\ r.of \in Types
      BY <1>1, <3>1 DEF Inv, Shape
    <3>3. q.type = r.of /\ q.id = r.id /\ q.project = r.project
      BY <3>2 DEF Record
    <3> HIDE DEF q
    <3>4. q \in ResourcesFor(c, r.of)
      BY <3>1, <3>2, <3>3 DEF ResourcesFor
    <3>5. QED
      BY <3>2, <3>3, <3>4
  <2>2. ASSUME NEW t \in Types, NEW r \in ResourcesFor(c, t)
        PROVE  \E q \in ResourcesFor(c, "generic") : <<t, r.id>> = <<q.of, q.id>>
    <3> DEFINE q == [r EXCEPT !.type = "generic"]
    <3>1. /\ r \in catalog.resources /\ r.type = t
          /\ c = Admin \/ (r.project # Blank /\ r.project = c)
      BY DEF ResourcesFor
    <3>2. q \in catalog.resources /\ Record(r) /\ (r.type = r.of \/ r.type = "generic")
      BY <1>1, <3>1 DEF Inv, Shape
    <3>3. q.type = "generic" /\ q.id = r.id /\ q.project = r.project /\ q.of = r.of
      BY <3>2 DEF Record
    <3>4. r.of = t
      BY <3>1, <3>2 DEF Types
    <3> HIDE DEF q
    <3>5. q \in ResourcesFor(c, "generic")
      BY <3>1, <3>2, <3>3 DEF ResourcesFor
    <3>6. QED
      BY <3>3, <3>4, <3>5
  <2>3. QED
    BY <2>1, <2>2
<1>2. Inv => GenericAgrees
  BY <1>1 DEF GenericAgrees
<1>3. QED
  BY <1>2, Invariance, PTL
-----------------------------------------------------------------------------
(* The joins find what they look for.                                        *)

LEMMA InitJoined == Init => Joined
<1> SUFFICES ASSUME Init PROVE Joined
  OBVIOUS
<1>1. owner \in [Owned -> Labels] /\ \A x \in Instances \cup Volumes : owner[x] # Blank
  BY DEF Init
<1>2. Lasting
  BY <1>1, BuildAssumption DEF Init, Lasting
<1>3. Present /\ Fixed
  BY DEF Init, Present, Fixed
<1>4. SteadyComplete /\ DevicesTrue
  BY DEF Init, SteadyComplete, DevicesTrue, Empty
<1>5. QED
  BY <1>2, <1>3, <1>4 DEF Joined

(* Without a catalog there is nothing to compare.                            *)
LEMMA NothingBuilt ==
    ASSUME catalog' = Empty
    PROVE  (SteadyComplete /\ DevicesTrue)'
BY DEF SteadyComplete, DevicesTrue, Empty

LEMMA SameBuild ==
    ASSUME Joined, owner' = owner, domainOf' = domainOf, catalog' = catalog,
           steady' = steady, held' = held
    PROVE  (SteadyComplete /\ DevicesTrue)'
BY DEF Joined, SteadyComplete, DevicesTrue, Has, Distinct

LEMMA CreateJoined ==
    ASSUME Joined, NEW t \in Things, Create(t)
    PROVE  Joined'
<1>1. /\ owner' = owner /\ lists' = lists /\ catalog' = Empty /\ steady' = steady
      /\ alive' = alive \cup {t} /\ Possible(alive')
  BY DEF Create, Change
<1>2. Lasting'
  BY <1>1 DEF Joined, Lasting, Possible
<1>3. Present' /\ Fixed'
  BY <1>1 DEF Joined, Present, Fixed, Listed, Label
<1>4. QED
  BY <1>1, <1>2, <1>3, NothingBuilt DEF Joined

LEMMA DeleteJoined ==
    ASSUME Joined, NEW t \in Things, Delete(t)
    PROVE  Joined'
<1>1. /\ owner' = owner /\ lists' = lists /\ catalog' = Empty /\ steady' = steady \ {t}
      /\ alive' = alive \ {t} /\ Possible(alive')
  BY DEF Delete, Change
<1>2. Lasting'
  <2>1. Possible(steady')
    BY <1>1 DEF Joined, Lasting, Possible
  <2>2. QED
    BY <1>1, <2>1 DEF Joined, Lasting, Possible
<1>3. Present' /\ Fixed'
  BY <1>1 DEF Joined, Present, Fixed, Listed, Label
<1>4. QED
  BY <1>1, <1>2, <1>3, NothingBuilt DEF Joined

LEMMA TransferJoined ==
    ASSUME Inv, Joined, NEW v \in Volumes, NEW p \in Projects, Transfer(v, p)
    PROVE  Joined'
<1>1. /\ lists' = lists /\ alive' = alive /\ steady' = steady /\ catalog' = Empty
      /\ owner' = [owner EXCEPT ![v] = p]
  BY DEF Transfer, Change
<1>2. p # Blank
  BY BuildAssumption
<1>3. \A x \in Owned : owner'[x] = IF x = v THEN p ELSE owner[x]
  BY <1>1 DEF Inv, Typed
<1>4. Lasting'
  BY <1>1, <1>2, <1>3 DEF Joined, Lasting, Possible, Owned
<1>5. Present'
  BY <1>1 DEF Joined, Present, Listed
<1>6. Fixed'
  <2> SUFFICES ASSUME NEW k \in DOMAIN lists, NEW s \in lists[k], Queries[k] # "volume"
               PROVE  s[2] = Label(Queries[k], s[1])'
    BY <1>1 DEF Joined, Fixed
  <2>1. s[2] = Label(Queries[k], s[1])
    BY DEF Joined, Fixed
  <2>2. <<Queries[k], s[1]>> \in Things
    BY DEF Inv, Truthful
  <2>3. CASE Queries[k] = "port"
    BY <2>1, <2>3 DEF Label
  <2>4. CASE Queries[k] # "port"
    <3>1. s[1] \in Instances \cup Networks
      BY <2>2, <2>4 DEF Things
    <3>2. owner'[s[1]] = owner[s[1]]
      BY <3>1, <1>3, BuildAssumption DEF Owned
    <3>3. QED
      BY <2>1, <3>2 DEF Label
  <2>5. QED
    BY <2>3, <2>4
<1>7. QED
  BY <1>1, <1>4, <1>5, <1>6, NothingBuilt DEF Joined

LEMMA QueryJoined ==
    ASSUME Inv, Joined, Query
    PROVE  Joined'
<1> DEFINE kind == Queries[Len(lists) + 1]
<1>1. /\ owner' = owner /\ domainOf' = domainOf /\ alive' = alive /\ steady' = steady
      /\ catalog' = catalog /\ held' = held
      /\ lists' = Append(lists, Answer(kind)) /\ Len(lists) < 7
  BY QueriesAre DEF Query, cloud
<1>2. Lasting'
  BY <1>1 DEF Joined, Lasting, Possible
<1>3. \A k \in DOMAIN lists' : \/ k \in DOMAIN lists /\ lists'[k] = lists[k]
                               \/ Queries[k] = kind /\ lists'[k] = Answer(kind)
  BY <1>1 DEF Inv, Typed
<1> HIDE DEF kind
<1>4. ASSUME NEW x, <<kind, x>> \in alive
      PROVE  \E s \in Answer(kind) : s[1] = x
  <2>1. <<x, Label(kind, x)>> \in Answer(kind)
    BY <1>4 DEF Answer
  <2>2. QED
    BY <2>1
<1>5. Present'
  <2> SUFFICES ASSUME NEW k \in DOMAIN lists', NEW x \in Owned \cup Ports,
                      <<Queries[k], x>> \in steady
               PROVE  \E s \in lists'[k] : s[1] = x
    BY <1>1 DEF Present, Listed
  <2>1. <<Queries[k], x>> \in alive
    BY DEF Joined, Lasting
  <2>2. QED
    BY <1>3, <1>4, <2>1 DEF Joined, Present, Listed
<1>6. Fixed'
  <2> SUFFICES ASSUME NEW k \in DOMAIN lists', NEW s \in lists'[k]
               PROVE  IF Queries[k] = "volume" THEN s[2] # Blank
                      ELSE s[2] = Label(Queries[k], s[1])
    BY <1>1 DEF Fixed, Label
  <2>1. CASE k \in DOMAIN lists /\ lists'[k] = lists[k]
    BY <2>1 DEF Joined, Fixed
  <2>2. CASE Queries[k] = kind /\ lists'[k] = Answer(kind)
    <3>1. s[2] = Label(kind, s[1]) /\ <<kind, s[1]>> \in Things
      <4>1. s \in Answer(kind)
        BY <2>2
      <4>2. PICK t \in alive : s = <<t[2], Label(kind, t[2])>>
        BY <4>1 DEF Answer
      <4>3. QED
        BY <4>1, <4>2, AnswerTrue
    <3>2. kind = "volume" => s[1] \in Volumes
      BY <3>1 DEF Things
    <3>3. QED
      BY <2>2, <3>1, <3>2 DEF Joined, Lasting, Label
  <2>3. QED
    BY <1>3, <2>1, <2>2
<1>7. QED
  BY <1>1, <1>2, <1>5, <1>6, SameBuild DEF Joined

LEMMA BeginJoined ==
    ASSUME Joined, Begin
    PROVE  Joined'
<1>1. owner' = owner /\ alive' = alive /\ catalog' = Empty /\ lists' = << >> /\ steady' = alive
  BY DEF Begin, cloud
<1>2. Lasting'
  BY <1>1 DEF Joined, Lasting, Possible
<1>3. Present' /\ Fixed'
  BY <1>1 DEF Present, Fixed
<1>4. QED
  BY <1>1, <1>2, <1>3, NothingBuilt DEF Joined

(* Resources keep the fields they are made with.                             *)
LEMMA ResourceIs ==
    ASSUME NEW type, NEW id, NEW project
    PROVE  LET r == Resource(type, id, project)
           IN r.type = type /\ r.id = id /\ r.project = project /\ r.of = type
BY DEF Resource

(* A row for everything that existed throughout.                             *)
LEMMA RowOf ==
    ASSUME Inv, Joined, NEW k \in DOMAIN lists, NEW x \in Owned \cup Ports,
           <<Queries[k], x>> \in steady
    PROVE  \E s \in lists[k] : s[1] = x
BY DEF Joined, Present, Listed

(* buildInstances: with the project Nova names.                              *)
LEMMA InstanceJoined ==
    ASSUME Inv, Joined, DOMAIN lists = 1..7, NEW i \in Instances, <<"vm", i>> \in steady
    PROVE  \E r \in Simple("instance", 1) : r.type = "instance" /\ r.id = i /\ r.project = owner[i]
<1>1. PICK s \in lists[1] : s[1] = i
  BY RowOf, QueriesAre DEF Owned
<1>2. s[2] = owner[i] /\ owner[i] # Blank
  BY <1>1, QueriesAre DEF Joined, Lasting, Fixed, Label
<1>3. Resource("instance", i, owner[i]) \in Simple("instance", 1)
  BY <1>1, <1>2 DEF Simple, Normalized
<1>4. QED
  BY <1>3, ResourceIs

(* buildVolumes: with a project that had it meanwhile.                       *)
LEMMA VolumeJoined ==
    ASSUME Inv, Joined, DOMAIN lists = 1..7, NEW v \in Volumes, <<"volume", v>> \in steady
    PROVE  \E p \in held[v] : \E r \in Simple("volume", 2) :
              r.type = "volume" /\ r.id = v /\ r.project = p
<1>1. PICK s \in lists[2] : s[1] = v
  BY RowOf, QueriesAre DEF Owned
<1>2. s[2] # Blank /\ s[2] \in held[v]
  BY <1>1, QueriesAre DEF Joined, Fixed, Inv, Truthful
<1>3. Resource("volume", v, s[2]) \in Simple("volume", 2)
  BY <1>1, <1>2 DEF Simple, Normalized
<1>4. QED
  BY <1>2, <1>3, ResourceIs

(* buildNetworks: with its project if it has one.                            *)
LEMMA NetworkJoined ==
    ASSUME Inv, Joined, DOMAIN lists = 1..7, NEW n \in Networks, <<"network", n>> \in steady
    PROVE  \E r \in Simple("network", 3) :
              r.type = "network" /\ r.id = n /\ r.project = Normalized(owner[n])
<1>1. PICK s \in lists[3] : s[1] = n
  BY RowOf, QueriesAre DEF Owned
<1>2. s[2] = owner[n]
  BY <1>1, QueriesAre DEF Joined, Fixed, Label
<1>3. Resource("network", n, Normalized(owner[n])) \in Simple("network", 3)
  BY <1>1, <1>2 DEF Simple
<1>4. QED
  BY <1>3, ResourceIs

(* buildPorts finds the network of a port that was there all the time.       *)
LEMMA PortJoined ==
    ASSUME Inv, Joined, DOMAIN lists = 1..7, NEW p \in Ports, <<"port", p>> \in steady
    PROVE  \E r \in PortResources :
              r.type = "port" /\ r.id = p /\ r.project = Normalized(owner[NetworkOf[p]])
<1> DEFINE n == NetworkOf[p]
           known == {s \in lists[3] : s[1] = n}
           found == CHOOSE s \in known : TRUE
<1>1. n \in Networks /\ <<"network", n>> \in steady
  BY BuildAssumption DEF Joined, Lasting, Possible
<1>2. known # {}
  BY <1>1, RowOf, QueriesAre DEF Owned
<1>3. found \in lists[3] /\ found[1] = n
  BY <1>2
<1>4. NetworkProject(n) = Normalized(found[2])
  BY <1>2 DEF NetworkProject
<1> HIDE DEF found
<1>5. found[2] = owner[n]
  BY <1>3, QueriesAre DEF Joined, Fixed, Label
<1>6. p \in Listed(4)
  BY RowOf, QueriesAre DEF Listed
<1>7. Resource("port", p, Normalized(owner[n])) \in PortResources
  BY <1>4, <1>5, <1>6 DEF PortResources
<1>8. QED
  BY <1>7, ResourceIs

(* Guests are instances.                                                     *)
LEMMA GuestsAre ==
    ASSUME Inv, DOMAIN lists = 1..7, NEW k \in 5..7
    PROVE  Listed(k) \subseteq Instances
<1>1. \A s \in lists[k] : <<"guest", s[1]>> \in Things
  BY QueriesAre DEF Inv, Truthful
<1>2. QED
  BY <1>1 DEF Listed, Things

(* With distinct names, a domain name leads back to the guest.               *)
LEMMA WinnerIs ==
    ASSUME Inv, Distinct, DOMAIN lists = 1..7, NEW w \in Winners, NEW i \in Instances,
           domainOf[i] \in DOMAIN w
    PROVE  w[domainOf[i]] = i
<1>1. w[domainOf[i]] \in Listed(5) /\ domainOf[w[domainOf[i]]] = domainOf[i]
  BY DEF Winners
<1>2. w[domainOf[i]] \in Instances
  BY <1>1, GuestsAre
<1>3. QED
  BY <1>1, <1>2 DEF Distinct

(* instanceDetailsByID, or the libvirt metadata if they name the project.    *)
LEMMA GuestJoined ==
    ASSUME Inv, Joined, DOMAIN lists = 1..7, NEW i \in Listed(5),
           i \notin Unlabelled \/ <<"vm", i>> \in steady
    PROVE  GuestProject(i) = owner[i]
<1> DEFINE nova == {s \in lists[1] : s[1] = i}
           meta == {s \in lists[5] : s[1] = i}
           rows == IF nova = {} THEN meta ELSE nova
           found == CHOOSE s \in rows : TRUE
<1>1. i \in Instances /\ owner[i] # Blank
  BY GuestsAre DEF Joined, Lasting
<1>2. meta # {}
  BY DEF Listed
<1>3. found \in rows
  BY <1>2
<1>4. GuestProject(i) = Normalized(found[2])
  BY DEF GuestProject
<1>5. nova = {} => i \notin Unlabelled
  BY <1>1, RowOf, QueriesAre DEF Owned
<1>6. CASE nova = {}
  <2>1. found \in lists[5] /\ found[1] = i
    BY <1>3, <1>6
  <2> HIDE DEF found
  <2>2. found[2] = owner[i]
    BY <1>5, <1>6, <2>1, QueriesAre DEF Joined, Fixed, Label
  <2>3. QED
    BY <1>1, <1>4, <2>2 DEF Normalized
<1>7. CASE nova # {}
  <2>1. found \in lists[1] /\ found[1] = i
    BY <1>3, <1>7
  <2> HIDE DEF found
  <2>2. found[2] = owner[i]
    BY <2>1, QueriesAre DEF Joined, Fixed, Label
  <2>3. QED
    BY <1>1, <1>4, <2>2 DEF Normalized
<1>8. QED
  BY <1>6, <1>7

(* buildInstanceDevices lists each device of a guest that was there all the  *)
(* time.                                                                     *)
LEMMA DeviceJoined ==
    ASSUME Inv, Joined, Distinct, DOMAIN lists = 1..7, NEW w \in Winners,
           NEW i \in Instances, NEW n \in NamesOf[i], <<"guest", i>> \in steady,
           i \notin Unlabelled \/ <<"vm", i>> \in steady
    PROVE  \E r \in DeviceResources("instance_disk", 7, w) :
              r.type = "instance_disk" /\ r.id = <<i, n>> /\ r.project = owner[i]
<1>1. i \in Listed(5) /\ i \in Listed(7)
  BY RowOf, QueriesAre DEF Listed, Owned
<1>2. domainOf[i] \in DOMAIN w
  BY <1>1 DEF Winners
<1>3. w[domainOf[i]] = i
  BY <1>2, WinnerIs
<1>4. GuestProject(i) = owner[i]
  BY <1>1, GuestJoined
<1> DEFINE d == <<i, n>>
<1>5. d \in {e \in Listed(7) \X UNION {NamesOf[j] : j \in Instances} :
                e[2] \in NamesOf[e[1]] /\ domainOf[e[1]] \in DOMAIN w}
  BY <1>1, <1>2
<1>6. d[1] = i /\ d[2] = n
  OBVIOUS
<1> HIDE DEF d
<1>7. Resource("instance_disk", <<w[domainOf[d[1]]], d[2]>>, GuestProject(w[domainOf[d[1]]]))
        \in DeviceResources("instance_disk", 7, w)
  BY <1>5 DEF DeviceResources
<1>8. Resource("instance_disk", <<i, n>>, owner[i]) \in DeviceResources("instance_disk", 7, w)
  BY <1>3, <1>4, <1>6, <1>7
<1>9. QED
  BY <1>8, ResourceIs

(* A device listed is one of the instance it is listed under.                *)
LEMMA DeviceOfInstance ==
    ASSUME Inv, Distinct, DOMAIN lists = 1..7, NEW w \in Winners, NEW k \in 5..7, NEW type,
           NEW r \in DeviceResources(type, k, w)
    PROVE  r.id[2] \in NamesOf[r.id[1]]
<1>1. PICK d \in Listed(k) \X UNION {NamesOf[i] : i \in Instances} :
        /\ d[2] \in NamesOf[d[1]] /\ domainOf[d[1]] \in DOMAIN w
        /\ r = Resource(type, <<w[domainOf[d[1]]], d[2]>>, GuestProject(w[domainOf[d[1]]]))
  BY DEF DeviceResources
<1>2. d[1] \in Instances
  BY GuestsAre
<1>3. w[domainOf[d[1]]] = d[1]
  BY <1>1, <1>2, WinnerIs
<1>4. r.id = <<d[1], d[2]>>
  BY <1>1, <1>3, ResourceIs
<1>5. QED
  BY <1>1, <1>4

LEMMA AssembleJoined ==
    ASSUME Inv, Joined, Assemble
    PROVE  Joined'
<1>1. PICK w \in Winners :
        LET typed == Simple("instance", 1) \cup Simple("volume", 2)
                        \cup Simple("network", 3) \cup PortResources
                        \cup DeviceResources("instance_network_interface", 6, w)
                        \cup DeviceResources("instance_disk", 7, w)
        IN \E after \in SUBSET {r.of : r \in {s \in typed : Metrics(s) # {}}} :
             catalog' = [resources |-> typed \cup Generic(typed),
                         metrics |-> MetricsByID(typed, after)]
  BY DEF Assemble
<1> DEFINE typed == Simple("instance", 1) \cup Simple("volume", 2)
                        \cup Simple("network", 3) \cup PortResources
                        \cup DeviceResources("instance_network_interface", 6, w)
                        \cup DeviceResources("instance_disk", 7, w)
<1>2. PICK after : catalog' = [resources |-> typed \cup Generic(typed),
                               metrics |-> MetricsByID(typed, after)]
  BY <1>1
<1>3. /\ owner' = owner /\ domainOf' = domainOf /\ alive' = alive /\ steady' = steady
      /\ held' = held /\ lists' = << >>
  BY DEF Assemble, cloud
<1>4. DOMAIN lists = 1..7
  BY QueriesAre DEF Assemble, Inv, Typed
<1>5. catalog'.resources = typed \cup {[r EXCEPT !.type = "generic"] : r \in typed}
  BY <1>2 DEF Generic
<1>6. (Lasting /\ Present /\ Fixed)'
  BY <1>3 DEF Joined, Lasting, Possible, Present, Fixed
<1>7. SteadyComplete'
  <2> DEFINE HasNew(type, x, project) ==
        \E r \in catalog'.resources : r.type = type /\ r.id = x /\ r.project = project
  <2>1. ASSUME NEW type, NEW x, NEW project,
               \E r \in typed : r.type = type /\ r.id = x /\ r.project = project
        PROVE  HasNew(type, x, project)
    BY <1>5, <2>1
  <2>2. \A i \in Instances : <<"vm", i>> \in steady => HasNew("instance", i, owner[i])
    BY <1>4, <2>1, InstanceJoined
  <2>3. \A v \in Volumes : <<"volume", v>> \in steady => \E p \in held[v] : HasNew("volume", v, p)
    BY <1>4, <2>1, VolumeJoined
  <2>4. \A n \in Networks : <<"network", n>> \in steady =>
            HasNew("network", n, Normalized(owner[n]))
    BY <1>4, <2>1, NetworkJoined
  <2>5. \A p \in Ports : <<"port", p>> \in steady =>
            HasNew("port", p, Normalized(owner[NetworkOf[p]]))
    BY <1>4, <2>1, PortJoined
  <2>6. \A i \in Instances : \A n \in NamesOf[i] :
            /\ Distinct /\ <<"guest", i>> \in steady
            /\ i \notin Unlabelled \/ <<"vm", i>> \in steady
            => HasNew("instance_disk", <<i, n>>, owner[i])
    BY <1>4, <2>1, DeviceJoined
  <2>7. \A n \in Networks : Normalized(owner[n]) = IF owner[n] = Blank THEN Nil ELSE owner[n]
    BY DEF Normalized
  <2>8. \A p \in Ports : Normalized(owner[NetworkOf[p]])
            = IF owner[NetworkOf[p]] = Blank THEN Nil ELSE owner[NetworkOf[p]]
    BY DEF Normalized
  <2> HIDE DEF typed
  <2>9. QED
    BY <1>3, <2>2, <2>3, <2>4, <2>5, <2>6, <2>7, <2>8 DEF SteadyComplete, Distinct, Has
<1>8. DevicesTrue'
  <2> SUFFICES ASSUME Distinct, NEW r \in catalog'.resources,
                      r.of \in {"instance_network_interface", "instance_disk"}
               PROVE  r.id[2] \in NamesOf[r.id[1]]
    BY <1>3 DEF DevicesTrue, Distinct
  <2>1. \A t \in typed : Original(t)
    BY <1>4, SimpleTrue, PortTrue, DeviceTrue
  <2>2. \A t \in typed : LET c == [t EXCEPT !.type = "generic"] IN c.of = t.of /\ c.id = t.id
    BY <2>1, CopyIs
  <2>3. PICK t \in typed : t.of = r.of /\ t.id = r.id
    BY <1>5, <2>2
  <2>4. \/ t \in DeviceResources("instance_network_interface", 6, w)
        \/ t \in DeviceResources("instance_disk", 7, w)
    BY <2>3, ResourceIs DEF Simple, PortResources
  <2>5. t.id[2] \in NamesOf[t.id[1]]
    BY <1>4, <2>4, DeviceOfInstance
  <2>6. QED
    BY <2>3, <2>5
<1>9. QED
  BY <1>6, <1>7, <1>8 DEF Joined

LEMMA StutterJoined ==
    ASSUME Joined, UNCHANGED vars
    PROVE  Joined'
<1>1. (Lasting /\ Present /\ Fixed)'
  BY DEF vars, Joined, Lasting, Possible, Present, Fixed, Listed, Label
<1>2. QED
  BY <1>1, SameBuild DEF vars, Joined

LEMMA JoinedInvariance == Spec => []Joined
<1>1. Inv /\ Joined /\ [Next]_vars => Joined'
  BY CreateJoined, DeleteJoined, TransferJoined, QueryJoined, AssembleJoined, BeginJoined,
     StutterJoined DEF Next
<1>2. QED
  BY <1>1, InitJoined, Invariance, PTL DEF Spec

(* Whatever exists from the first query of a build to its last is in the     *)
(* catalog, and the joins of buildPorts and buildInstanceDevices find its    *)
(* project.                                                                  *)
THEOREM SteadyAlwaysComplete == Spec => []SteadyComplete
<1>1. Joined => SteadyComplete
  BY DEF Joined
<1>2. QED
  BY <1>1, JoinedInvariance, PTL

(* The join by domain name in buildInstanceDevices never puts a device under *)
(* another instance, if no two domains have the same name.                   *)
THEOREM DevicesAlwaysTrue == Spec => []DevicesTrue
<1>1. Joined => DevicesTrue
  BY DEF Joined
<1>2. QED
  BY <1>1, JoinedInvariance, PTL
=============================================================================
