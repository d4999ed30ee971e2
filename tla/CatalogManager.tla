--------------------------- MODULE CatalogManager ---------------------------
(* internal/catalog/catalog.go, Manager: a catalog in memory, rebuilt from   *)
(* several Prometheus queries and shared by the refresh ticker, by main's    *)
(* first refresh and by every HTTP request, which rebuilds it on demand      *)
(* while there is none.  A build runs outside the lock; only its result is   *)
(* stored under it, so builds overlap and finish in any order.               *)
(*                                                                           *)
(* The content of the catalog is abstracted to the version of the monitored  *)
(* cloud each query saw.                                                     *)
EXTENDS Naturals, Sequences

CONSTANTS
    Ticker,     \* the goroutine of Manager.Start
    Main,       \* the main goroutine, for the refresh before it serves
    Requests,   \* HTTP requests in service at a time
    NQueries,   \* Prometheus queries in one build (7 in the code)
    MaxWorld    \* bound on the versions of the cloud

ASSUME CatalogAssumption ==
    /\ Ticker # Main
    /\ Ticker \notin Requests /\ Main \notin Requests
    /\ NQueries \in Nat \ {0}
    /\ MaxWorld \in Nat

Procs == {Ticker, Main} \cup Requests

VARIABLES
    world,      \* version of the cloud that Prometheus reports
    promUp,     \* Prometheus answers queries
    ctxDone,    \* the process context was cancelled by a signal
    gone,       \* requests whose client has disconnected
    current,    \* Manager.current: the version each of its parts was read at
    lastErr,    \* Manager.lastErr: "nil" or "err"
    pc,         \* where each goroutine is
    reads,      \* versions the queries of each goroutine's build returned
    overtaken,  \* history: another build was installed since this one began
    answer      \* what Snapshot returned to each request

environment == <<world, promUp, ctxDone>>
manager == <<current, lastErr>>
vars == <<world, promUp, ctxDone, gone, current, lastErr, pc, reads,
          overtaken, answer>>

Empty == << >>                                   \* LastRefresh.IsZero()
NoAnswer == [snap |-> Empty, err |-> "none"]

Stations == {"idle", "stopped", "building", "built", "failed", "reread", "done"}
-----------------------------------------------------------------------------
Ordered(v) == \A i, j \in DOMAIN v : i <= j => v[i] <= v[j]
Slice(v) ==
    /\ v \in Seq(0..MaxWorld)
    /\ Len(v) = NQueries
    /\ Ordered(v)
    /\ \A i \in DOMAIN v : v[i] <= world

(* No part of the catalog "new" was read before any part of "old". *)
NotOlder(old, new) ==
    \A i \in DOMAIN old, j \in DOMAIN new : old[i] <= new[j]

InBuild(p) == pc[p] \in {"building", "built"}

(* The context a build runs under: a request's own, or the process's. *)
Cancelled(p) == IF p \in Requests THEN p \in gone ELSE ctxDone

(* main starts the HTTP server only after its own Refresh has returned. *)
Serving == pc[Main] = "idle"
-----------------------------------------------------------------------------
Init ==
    /\ world = 0
    /\ promUp \in BOOLEAN
    /\ ctxDone = FALSE
    /\ gone = {}
    /\ current = Empty
    /\ lastErr = "nil"
    /\ pc = [p \in Procs |-> IF p = Main THEN "building" ELSE "idle"]
    /\ reads = [p \in Procs |-> << >>]
    /\ overtaken = [p \in Procs |-> FALSE]
    /\ answer = [r \in Requests |-> NoAnswer]

(* ---- a refresh: buildSnapshot, then the locked part of Refresh ---------- *)

(* The results of a build are locals of buildSnapshot: nothing is left over  *)
(* of an earlier attempt.                                                    *)
Begin(p) ==
    /\ pc' = [pc EXCEPT ![p] = "building"]
    /\ UNCHANGED <<reads, overtaken>>

(* Mutant: one query too many. *)
CompletePast(v) == Len(v) = NQueries + 1

Complete(v) == Len(v) = NQueries

(* The next query of p's build returns the cloud as it is now. *)
QueryOK(p) ==
    /\ pc[p] = "building"
    /\ promUp /\ ~ Cancelled(p)
    /\ reads' = [reads EXCEPT ![p] = Append(@, world)]
    /\ pc' = [pc EXCEPT ![p] = IF Complete(reads'[p]) THEN "built" ELSE @]
    /\ UNCHANGED <<environment, gone, manager, overtaken, answer>>

(* Mutant: the error of a query is dropped and the partial result is kept. *)
AfterQueryErrorDropped == "built"

AfterQueryError == "failed"

(* A query fails and buildSnapshot returns its error at once. *)
QueryFail(p) ==
    /\ pc[p] = "building"
    /\ ~ promUp \/ Cancelled(p)
    /\ pc' = [pc EXCEPT ![p] = AfterQueryError]
    /\ UNCHANGED <<environment, gone, manager, reads, overtaken, answer>>

(* Mutant: a failed build keeps its results, and the next one resumes it. *)
LeftOverResumed(p) == IF pc[p] = "failed" THEN reads[p] ELSE << >>

LeftOver(p) == << >>

(* Refresh has returned: its build is over. *)
EndBuild(p, station) ==
    /\ pc' = [pc EXCEPT ![p] = station]
    /\ reads' = [reads EXCEPT ![p] = LeftOver(p)]

(* Mutant: a success does not clear the error of an earlier failure. *)
InstalledErrSticky == lastErr

InstalledErr == "nil"

(* Refresh stores a whole snapshot and clears the error, under the lock. *)
Install(p) ==
    /\ pc[p] = "built"
    /\ current' = reads[p]
    /\ lastErr' = InstalledErr
    /\ overtaken' = [q \in Procs |-> q # p /\ (overtaken[q] \/ InBuild(q))]
    /\ EndBuild(p, IF p \in Requests THEN "reread" ELSE "idle")
    /\ UNCHANGED <<environment, gone, answer>>

(* Snapshot{}, err *)
Refusal == [snap |-> Empty, err |-> "err"]

(* Refresh stores the error and keeps the old snapshot; a request that was   *)
(* refreshing on demand is refused with that error.                          *)
RecordErr(p) ==
    /\ pc[p] = "failed"
    /\ lastErr' = "err"
    /\ overtaken' = [overtaken EXCEPT ![p] = FALSE]
    /\ EndBuild(p, IF p \in Requests THEN "done" ELSE "idle")
    /\ answer' = [r \in Requests |-> IF r = p THEN Refusal ELSE answer[r]]
    /\ UNCHANGED <<environment, gone, current>>

(* ---- the ticker goroutine: Start --------------------------------------- *)

(* select may pick the tick even when the context is done as well. *)
Tick ==
    /\ pc[Ticker] = "idle"
    /\ Begin(Ticker)
    /\ UNCHANGED <<environment, gone, manager, answer>>

StopTicker ==
    /\ pc[Ticker] = "idle"
    /\ ctxDone
    /\ pc' = [pc EXCEPT ![Ticker] = "stopped"]
    /\ UNCHANGED <<environment, gone, manager, reads, overtaken, answer>>

(* ---- a request: Snapshot ------------------------------------------------ *)

(* Mutant: a catalog in memory is always reported as healthy. *)
HeldHealthy == [snap |-> current, err |-> "nil"]

(* Both fields, read under one read lock. *)
Held == [snap |-> current, err |-> lastErr]

SnapshotHit(r) ==
    /\ pc[r] = "idle" /\ Serving
    /\ current # Empty
    /\ answer' = [answer EXCEPT ![r] = Held]
    /\ pc' = [pc EXCEPT ![r] = "done"]
    /\ gone' = gone \ {r}
    /\ UNCHANGED <<environment, manager, reads, overtaken>>

(* There is no catalog yet: refresh under the request's own context. *)
SnapshotMiss(r) ==
    /\ pc[r] = "idle" /\ Serving
    /\ current = Empty
    /\ Begin(r)
    /\ gone' = gone \ {r}
    /\ UNCHANGED <<environment, manager, answer>>

(* After its refresh a request reads both fields again, under a second lock. *)
Reread(r) ==
    /\ pc[r] = "reread"
    /\ answer' = [answer EXCEPT ![r] = Held]
    /\ pc' = [pc EXCEPT ![r] = "done"]
    /\ UNCHANGED <<environment, gone, manager, reads, overtaken>>

(* The handler has answered; the goroutine is free for the next call. *)
Return(r) ==
    /\ pc[r] = "done"
    /\ answer' = [answer EXCEPT ![r] = NoAnswer]
    /\ pc' = [pc EXCEPT ![r] = "idle"]
    /\ UNCHANGED <<environment, gone, manager, reads, overtaken>>

(* ---- the environment ---------------------------------------------------- *)

(* The client of a request that is refreshing closes its connection. *)
Disconnect(r) ==
    /\ InBuild(r) /\ r \notin gone
    /\ gone' = gone \cup {r}
    /\ UNCHANGED <<environment, manager, pc, reads, overtaken, answer>>

(* SIGTERM, SIGINT, or a listener that failed. *)
Terminate ==
    /\ ~ ctxDone
    /\ ctxDone' = TRUE
    /\ UNCHANGED <<world, promUp, gone, manager, pc, reads, overtaken, answer>>

PromFlip ==
    /\ promUp' = ~ promUp
    /\ UNCHANGED <<world, ctxDone, gone, manager, pc, reads, overtaken, answer>>

Advance ==
    /\ world < MaxWorld
    /\ world' = world + 1
    /\ UNCHANGED <<promUp, ctxDone, gone, manager, pc, reads, overtaken, answer>>
-----------------------------------------------------------------------------
RefreshStep(p) == QueryOK(p) \/ QueryFail(p) \/ Install(p) \/ RecordErr(p)

RequestStep(r) == SnapshotHit(r) \/ SnapshotMiss(r) \/ Reread(r) \/ Return(r)

Next ==
    \/ \E p \in Procs : RefreshStep(p)
    \/ Tick \/ StopTicker
    \/ \E r \in Requests : RequestStep(r) \/ Disconnect(r)
    \/ Terminate \/ PromFlip \/ Advance

Spec == Init /\ [][Next]_vars

(* A goroutine that can run does run, the ticker keeps ticking and an HTTP   *)
(* query is answered or times out.  Nothing is assumed of the environment.   *)
Fairness ==
    /\ \A p \in Procs : WF_vars(RefreshStep(p))
    /\ WF_vars(Tick)
    /\ \A r \in Requests : WF_vars(Reread(r))

FairSpec == Spec /\ Fairness
-----------------------------------------------------------------------------
Answers == [snap : Seq(0..MaxWorld), err : {"none", "nil", "err"}]

(* Every variable stays in its range, and no build holds more results than   *)
(* the queries it makes.                                                     *)
TypeOK ==
    /\ world \in 0..MaxWorld
    /\ promUp \in BOOLEAN
    /\ ctxDone \in BOOLEAN
    /\ gone \subseteq Requests
    /\ current \in Seq(0..MaxWorld)
    /\ lastErr \in {"nil", "err"}
    /\ pc \in [Procs -> Stations]
    /\ reads \in [Procs -> Seq(0..MaxWorld)]
    /\ \A p \in Procs : Len(reads[p]) <= NQueries
    /\ overtaken \in [Procs -> BOOLEAN]
    /\ answer \in [Requests -> Answers]

(* The shared catalog is never a partial one, whatever queries failed and    *)
(* whoever was cancelled half way: it is empty, or every one of its queries  *)
(* answered, in the order the build asks them.                               *)
CatalogWhole == current = Empty \/ Slice(current)

(* A handler that sees no error holds a whole catalog: never the zero        *)
(* Snapshot, whose maps are nil, on the path that refreshes on demand.       *)
ServedWhole == \A r \in Requests : answer[r].err = "nil" => Slice(answer[r].snap)

(* The catalog goes back in time only through a build that was overtaken,    *)
(* that is one during which another build was installed: a build that nobody *)
(* overtook never replaces a catalog by one that is older in any part.       *)
RegressOnlyWhenOvertaken ==
    [][\A p \in Procs : Install(p) /\ ~ overtaken[p] => NotOlder(current, current')]_vars

(* Callers see the register: whole catalogs, and health and catalog read as  *)
(* one pair, whatever builds are in flight.                                  *)
Reg == INSTANCE CatalogRegister
         WITH Callers <- Requests, Width <- NQueries,
              value <- current, health <- lastErr

ImplementsRegister == Reg!Spec

(* The catalog heals: if Prometheus stays up from some time on and the       *)
(* process is not told to stop, then from some time on the catalog holds the *)
(* latest version of the cloud in every part and reports no error, whatever  *)
(* failed, was cancelled or finished out of order before.                    *)
UpToDate == Complete(current) /\ \A i \in DOMAIN current : current[i] = world

Converges ==
    <>[](promUp /\ ~ ctxDone) => <>[](lastErr = "nil" /\ UpToDate)
=============================================================================
