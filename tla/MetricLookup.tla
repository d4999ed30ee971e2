---------------------------- MODULE MetricLookup ----------------------------
(* The handlers that answer measures: handleMetricMeasures,                  *)
(* handleResourceMetricMeasures and handleAggregates (internal/server).      *)
(* Each asks the catalog for a snapshot several times while it serves one    *)
(* request: to find the metric, to check that the caller may see its         *)
(* resource, and once per device to build the query.  The catalog may be     *)
(* replaced between any two of them.                                         *)
(*                                                                           *)
(* The catalog is the abstract CatalogRegister, so what holds here holds for *)
(* every implementation of it.  A catalog is abstracted to the version of    *)
(* the cloud it shows, and a version to the owner of each resource.          *)
(* All resources are of one type the proxy knows and have one metric each;   *)
(* the search of an aggregate selects all of them, and its operations name   *)
(* the metric once.                                                          *)
EXTENDS Naturals, Sequences

CONSTANTS
    Requests,   \* HTTP requests in service at a time
    Resources,  \* identifiers of resources
    Devices,    \* resources whose query is built from their catalog entry
    Projects,   \* projects of callers
    NoProject,  \* owner of a resource that has none
    Admin,      \* a caller with an admin role
    Absent,     \* a resource that does not exist in a version
    MaxWorld    \* bound on the versions of the cloud

ASSUME LookupAssumption ==
    /\ Devices \subseteq Resources
    /\ NoProject \notin Projects
    /\ Admin \notin Projects \cup {NoProject, Absent}
    /\ Absent \notin Projects \cup {NoProject}
    /\ MaxWorld \in Nat

Owners == Projects \cup {NoProject, Absent}
Callers == Projects \cup {Admin}

VARIABLES
    world, value, health, answer,   \* the catalog register
    owner,      \* owner of each resource in each version of the cloud
    pc,         \* where each handler is
    mode,       \* "measures" of one metric, or "aggregate"
    caller,     \* who asks
    target,     \* the resource a handler is working on
    todo,       \* resources still to be queried
    used,       \* resources whose range query was answered
    outcome,    \* "none", "ok", "notfound" (404) or "error" (502)
    seen        \* history: versions this request was shown

catalog == <<world, value, health>>
request == <<mode, caller>>
vars == <<world, value, health, answer, owner, pc, mode, caller, target, todo,
          used, outcome, seen>>

Cat == INSTANCE CatalogRegister WITH Callers <- Requests, Width <- 1
-----------------------------------------------------------------------------
Exists(v, x) == owner[v][x] # Absent

(* resourcesForRequest: an admin sees everything, others what their own      *)
(* project owns.                                                             *)
Visible(v, c, x) == Exists(v, x) /\ (c = Admin \/ owner[v][x] = c)

(* Mutant: an aggregate runs over everything in the catalog. *)
ListedToAll(v, c) == {x \in Resources : Exists(v, x)}

Listed(v, c) == {x \in Resources : Visible(v, c, x)}

(* A handler has its snapshot and no error came with it. *)
Shown(r) == answer[r].err = "nil"
Version(r) == answer[r].snap[1]

Goto(r, station) == pc' = [pc EXCEPT ![r] = station]

(* The snapshot has been looked at. *)
Look(r) ==
    /\ Cat!Release(r)
    /\ seen' = [seen EXCEPT ![r] = @ \cup {Version(r)}]

Done(r, result) ==
    /\ Goto(r, "done")
    /\ outcome' = [outcome EXCEPT ![r] = result]
-----------------------------------------------------------------------------
Init ==
    /\ Cat!Init
    /\ owner \in [0..MaxWorld -> [Resources -> Owners]]
    /\ pc = [r \in Requests |-> "idle"]
    /\ mode = [r \in Requests |-> "measures"]
    /\ caller \in [Requests -> Callers]
    /\ target \in [Requests -> Resources]
    /\ todo = [r \in Requests |-> {}]
    /\ used = [r \in Requests |-> {}]
    /\ outcome = [r \in Requests |-> "none"]
    /\ seen = [r \in Requests |-> {}]

(* GET /v1/metric/{id}/measures starts with the metric, GET                  *)
(* /v1/resource/{type}/{id}/metric/{name}/measures with the resource.        *)
StartMeasures(r, c, x) ==
    /\ pc[r] = "idle"
    /\ pc' \in {[pc EXCEPT ![r] = "metric"], [pc EXCEPT ![r] = "access"]}
    /\ mode' = [mode EXCEPT ![r] = "measures"]
    /\ caller' = [caller EXCEPT ![r] = c]
    /\ target' = [target EXCEPT ![r] = x]
    /\ todo' = [todo EXCEPT ![r] = {x}]
    /\ UNCHANGED <<catalog, answer, owner, used, outcome, seen>>

(* POST /v1/aggregates *)
StartAggregate(r, c) ==
    /\ pc[r] = "idle"
    /\ Goto(r, "list")
    /\ mode' = [mode EXCEPT ![r] = "aggregate"]
    /\ caller' = [caller EXCEPT ![r] = c]
    /\ UNCHANGED <<catalog, answer, owner, target, todo, used, outcome, seen>>

Asking == {"metric", "access", "list", "device"}

(* catalog.Snapshot: the pair in memory, or the failure of a refresh. *)
Ask(r) ==
    /\ pc[r] \in Asking
    /\ Cat!Get(r) \/ Cat!Refuse(r)
    /\ UNCHANGED <<owner, pc, request, target, todo, used, outcome, seen>>

(* Any error of Snapshot ends the request. *)
SnapshotFails(r) ==
    /\ answer[r].err = "err"
    /\ Cat!Release(r)
    /\ Done(r, "error")
    /\ UNCHANGED <<owner, request, target, todo, used, seen>>

(* Mutant: whoever knows the id of a metric may read it. *)
AfterMetricUnchecked == "params"

AfterMetric == "access"

(* metricByID: any caller finds the metric of a resource that exists. *)
MetricByID(r) ==
    /\ pc[r] = "metric" /\ Shown(r)
    /\ Look(r)
    /\ IF Exists(Version(r), target[r])
         THEN Goto(r, AfterMetric) /\ UNCHANGED outcome
         ELSE Done(r, "notfound")
    /\ UNCHANGED <<owner, request, target, todo, used>>

(* resourceByID *)
ResourceByID(r) ==
    /\ pc[r] = "access" /\ Shown(r)
    /\ Look(r)
    /\ IF target[r] \in Listed(Version(r), caller[r])
         THEN Goto(r, "params") /\ UNCHANGED outcome
         ELSE Done(r, "notfound")
    /\ UNCHANGED <<owner, request, target, todo, used>>

(* resourcesForRequest, for an aggregate *)
ListResources(r) ==
    /\ pc[r] = "list" /\ Shown(r)
    /\ Look(r)
    /\ Goto(r, "params")
    /\ todo' = [todo EXCEPT ![r] = Listed(Version(r), caller[r])]
    /\ UNCHANGED <<owner, request, target, used, outcome>>

(* measureParamsFromRequest accepts the range, granularity and aggregation,  *)
(* or ends the request.                                                      *)
ParseParams(r) ==
    /\ pc[r] = "params"
    /\ \/ Goto(r, "next") /\ UNCHANGED outcome
       \/ Done(r, "error")
    /\ UNCHANGED <<catalog, answer, owner, request, target, todo, used, seen>>

(* The loop over the resources; one device needs one more snapshot. *)
NextResource(r, x) ==
    /\ pc[r] = "next" /\ x \in todo[r]
    /\ target' = [target EXCEPT ![r] = x]
    /\ Goto(r, IF x \in Devices THEN "device" ELSE "query")
    /\ UNCHANGED <<catalog, answer, owner, request, todo, used, outcome, seen>>

Handled(r) == todo' = [todo EXCEPT ![r] = @ \ {target[r]}]

(* Mutant: the first device that has gone ends the loop. *)
RestAfterGoneNone(r) == todo' = [todo EXCEPT ![r] = {}]

(* evaluateAggregate skips a resource that was not found. *)
RestAfterGone(r) == Handled(r)

(* queryMeasuresWithParams looks the device up again. *)
LookUpDevice(r) ==
    /\ pc[r] = "device" /\ Shown(r)
    /\ Look(r)
    /\ IF Exists(Version(r), target[r])
         THEN Goto(r, "query") /\ UNCHANGED <<todo, outcome>>
         ELSE /\ RestAfterGone(r)
              /\ IF mode[r] = "aggregate"
                   THEN Goto(r, "next") /\ UNCHANGED outcome
                   ELSE Done(r, "notfound")
    /\ UNCHANGED <<owner, request, target, used>>

(* The range query answers, or fails and ends the request. *)
Query(r) ==
    /\ pc[r] = "query"
    /\ \/ /\ used' = [used EXCEPT ![r] = @ \cup {target[r]}]
          /\ Handled(r)
          /\ Goto(r, "next")
          /\ UNCHANGED outcome
       \/ Done(r, "error") /\ UNCHANGED <<used, todo>>
    /\ UNCHANGED <<catalog, answer, owner, request, target, seen>>

(* The answer is written; operations of an aggregate that do not evaluate to *)
(* a series are refused instead.                                             *)
Finish(r) ==
    /\ pc[r] = "next" /\ todo[r] = {}
    /\ Done(r, "ok") \/ (mode[r] = "aggregate" /\ Done(r, "error"))
    /\ UNCHANGED <<catalog, answer, owner, request, target, todo, used, seen>>

Return(r) ==
    /\ pc[r] = "done"
    /\ Goto(r, "idle")
    /\ todo' = [todo EXCEPT ![r] = {}]
    /\ used' = [used EXCEPT ![r] = {}]
    /\ outcome' = [outcome EXCEPT ![r] = "none"]
    /\ seen' = [seen EXCEPT ![r] = {}]
    /\ UNCHANGED <<catalog, answer, owner, request, target>>

(* The catalog is replaced, perhaps by an older one, or a refresh fails. *)
CatalogStep ==
    /\ \/ Cat!Advance
       \/ \E v \in 0..world : value' = <<v>> /\ Cat!Publish
       \/ Cat!Fail /\ UNCHANGED answer
    /\ UNCHANGED <<owner, pc, request, target, todo, used, outcome, seen>>
-----------------------------------------------------------------------------
Start(r) ==
    \E c \in Callers :
        StartAggregate(r, c) \/ \E x \in Resources : StartMeasures(r, c, x)

HandlerStep(r) ==
    \/ Ask(r) \/ SnapshotFails(r)
    \/ MetricByID(r) \/ ResourceByID(r) \/ ListResources(r) \/ ParseParams(r)
    \/ \E x \in Resources : NextResource(r, x)
    \/ LookUpDevice(r) \/ Query(r) \/ Finish(r) \/ Return(r)

Next == CatalogStep \/ \E r \in Requests : Start(r) \/ HandlerStep(r)

Spec == Init /\ [][Next]_vars
-----------------------------------------------------------------------------
Stations == Asking \cup {"idle", "params", "next", "query", "done"}

Snapshots == {<< >>} \cup {<<v>> : v \in 0..MaxWorld}

(* Every variable stays in its range.                                       *)
TypeOK ==
    /\ world \in 0..MaxWorld
    /\ value \in Snapshots
    /\ health \in {"nil", "err"}
    /\ answer \in [Requests -> [snap : Snapshots, err : {"none", "nil", "err"}]]
    /\ owner \in [0..MaxWorld -> [Resources -> Owners]]
    /\ pc \in [Requests -> Stations]
    /\ mode \in [Requests -> {"measures", "aggregate"}]
    /\ caller \in [Requests -> Callers]
    /\ target \in [Requests -> Resources]
    /\ todo \in [Requests -> SUBSET Resources]
    /\ used \in [Requests -> SUBSET Resources]
    /\ outcome \in [Requests -> {"none", "ok", "notfound", "error"}]
    /\ seen \in [Requests -> SUBSET (0..MaxWorld)]

(* Measures of one metric: although the metric, the access check and the     *)
(* device are looked up in different catalogs, the answer is one that a      *)
(* single look at one of the catalogs shown to this request would have       *)
(* given.  A metric that was there all along is never "not found", and one   *)
(* the caller could never see is never answered.                             *)
ExplainedByOneCatalog ==
    \A r \in Requests :
        mode[r] = "measures" /\ outcome[r] \in {"ok", "notfound"} =>
            \E v \in seen[r] : outcome[r] = "ok" <=> Visible(v, caller[r], target[r])

(* No measure of a resource is in an answer unless a catalog shown to this   *)
(* request said that the caller may see it, whatever the other catalogs of   *)
(* the same request said.                                                    *)
UsedWasVisible ==
    \A r \in Requests : \A x \in used[r] :
        \E v \in seen[r] : Visible(v, caller[r], x)

(* An aggregate that succeeds leaves out no resource that its caller could   *)
(* see in every catalog shown to the request: only a resource that was       *)
(* missing from one of them may be skipped.                                  *)
AggregateComplete ==
    \A r \in Requests :
        mode[r] = "aggregate" /\ outcome[r] = "ok" =>
            \A x \in Resources :
                (\A v \in seen[r] : Visible(v, caller[r], x)) => x \in used[r]
=============================================================================
