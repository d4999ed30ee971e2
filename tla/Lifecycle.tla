------------------------------ MODULE Lifecycle ------------------------------
(* The life of the process (cmd/gnocchi-proxy-api/main.go): the first        *)
(* refresh, the listener, signals, the draining of requests and the exit,    *)
(* with net/http's Server and the kubelet that probes /healthz and restarts  *)
(* the container around it.                                                  *)
(*                                                                           *)
(* Time passes in ticks.  What the process does by itself takes no time      *)
(* compared with one; calls to Prometheus take time while it is slow.  A     *)
(* handler is the number of calls it still has to make, one after another.   *)
EXTENDS Naturals

CONSTANTS
    Requests,          \* requests of one life of the process
    Queries,           \* queries of a refresh
    Calls,             \* most calls a handler makes
    QueryLimit,        \* prometheus.query_timeout + 5 s
    WriteTimeout,      \* server.write_timeout
    ShutdownTimeout,   \* server.shutdown_timeout
    Period, Threshold, \* of the liveness probe
    MaxFaults          \* bound on signals, failures to listen and flips of Prometheus

ASSUME LifecycleAssumption ==
    /\ Queries \in Nat \ {0} /\ Calls \in Nat \ {0}
    /\ QueryLimit \in Nat /\ WriteTimeout \in Nat /\ ShutdownTimeout \in Nat
    /\ Period \in Nat \ {0} /\ Threshold \in Nat \ {0}
    /\ MaxFaults \in Nat

VARIABLES
    main,       \* where main is
    code,       \* exit code
    notified,   \* signals are delivered to the context of signal.NotifyContext
    cancelled,  \* that context is done
    listener,   \* the goroutine of ListenAndServe
    left,       \* queries the first refresh has left
    request,    \* what became of each request
    calls,      \* calls each handler has left
    waited,     \* time the first refresh and each handler has waited in its call
    age,        \* time each request has taken, up to AgeLimit
    stopping,   \* time since main began to shut down
    probe,      \* time since the last probe
    failures,   \* probes that failed in a row
    slow,       \* Prometheus is slow or hangs
    faults

vars == <<main, code, notified, cancelled, listener, left, request, calls, waited, age, stopping,
          probe, failures, slow, faults>>

server == <<request, calls, age>>
kubelet == <<probe, failures>>
world == <<slow, faults>>

Killed == 2     \* whatever the code of a process that a signal has killed

AgeLimit == IF WriteTimeout < ShutdownTimeout THEN ShutdownTimeout ELSE WriteTimeout + 1

Callers == {"main"} \cup Requests
Calling(c) == IF c = "main" THEN main = "refresh" ELSE request[c] = "active"
Active == {r \in Requests : request[r] = "active"}

(* What the end of the process makes of the requests. *)
Dropped == [r \in Requests |-> IF r \in Active THEN "dropped" ELSE request[r]]

(* Calls end before the next tick unless Prometheus is slow, and then after  *)
(* QueryLimit; a cancelled refresh ends at once.                             *)
Overdue(c) == Calling(c) /\ (~slow \/ waited[c] >= QueryLimit \/ (c = "main" /\ cancelled))
-----------------------------------------------------------------------------
Init ==
    /\ main = "refresh" /\ code = 0 /\ notified = TRUE /\ cancelled = FALSE
    /\ listener = "off"
    /\ left = Queries
    /\ request = [r \in Requests |-> "none"] /\ calls = [r \in Requests |-> 0]
    /\ waited = [c \in Callers |-> 0] /\ age = [r \in Requests |-> 0]
    /\ stopping = 0 /\ probe = 0 /\ failures = 0
    /\ slow \in BOOLEAN /\ faults = 0

(* The first refresh: one query after another, until one fails, times out or *)
(* is cancelled.  Its error is only logged.                                  *)
QueryAnswered ==
    /\ main = "refresh" /\ left > 1
    /\ left' = left - 1 /\ waited' = [waited EXCEPT !["main"] = 0]
    /\ UNCHANGED <<main, code, notified, cancelled, listener, server, stopping, kubelet, world>>

(* Mutant: main exits unless the first refresh has succeeded. *)
RefreshNeeded ==
    /\ main = "refresh"
    /\ \/ left = 1 /\ main' = "wait" /\ listener' = "starting" /\ code' = code
       \/ main' = "exit" /\ listener' = listener /\ code' = 1
    /\ waited' = [waited EXCEPT !["main"] = 0]
    /\ UNCHANGED <<notified, cancelled, left, server, stopping, kubelet, world>>

RefreshEnds ==
    /\ main = "refresh"
    /\ main' = "wait" /\ listener' = "starting"
    /\ waited' = [waited EXCEPT !["main"] = 0]
    /\ UNCHANGED <<code, notified, cancelled, left, server, stopping, kubelet, world>>

(* ListenAndServe; it does nothing once Shutdown has been called.            *)
Listen ==
    /\ listener = "starting"
    /\ listener' = IF main = "wait" THEN "open" ELSE "closed"
    /\ UNCHANGED <<main, code, notified, cancelled, left, server, waited, stopping, kubelet, world>>

(* ListenAndServe returns an error ... *)
ListenFails ==
    /\ listener \in {"starting", "open"} /\ main = "wait"
    /\ faults < MaxFaults /\ faults' = faults + 1
    /\ listener' = "failing"
    /\ UNCHANGED <<main, code, notified, cancelled, left, server, waited, stopping, kubelet, slow>>

(* ... and its goroutine calls cancel(), the stop function of NotifyContext: *)
(* the context is done, and signals are no longer caught.                    *)
CancelOnError ==
    /\ listener = "failing" /\ main # "exit"
    /\ listener' = "failed" /\ cancelled' = TRUE /\ notified' = FALSE
    /\ UNCHANGED <<main, code, left, server, waited, stopping, kubelet, world>>

(* Mutant: the context's end unregisters the handler, so that a second       *)
(* signal kills.                                                             *)
CaughtOnce == notified /\ ~cancelled

(* The context's end alone leaves the handler registered: signals after the  *)
(* first are caught and do nothing.                                          *)
Caught == notified

(* SIGINT or SIGTERM reaches the process. *)
Terminate ==
    IF Caught
    THEN cancelled' = TRUE /\ UNCHANGED <<main, code, request>>
    ELSE main' = "exit" /\ code' = Killed /\ request' = Dropped /\ UNCHANGED cancelled

Signal ==
    /\ main # "exit" /\ faults < MaxFaults /\ faults' = faults + 1
    /\ Terminate
    /\ UNCHANGED <<notified, listener, left, calls, waited, age, stopping, kubelet, slow>>

(* Mutant: only a listener that is open is shut down. *)
ShutdownDueOpen == cancelled /\ listener = "open"
ShutdownDue == cancelled

Shutdown ==
    /\ main = "wait" /\ ShutdownDue
    /\ main' = "drain"
    /\ listener' = IF listener = "open" THEN "closed" ELSE listener
    /\ UNCHANGED <<code, notified, cancelled, left, server, waited, stopping, kubelet, world>>

Drained == Active = {}

(* Shutdown returns nil; main sleeps for 100 ms and returns.                 *)
Return ==
    /\ main = "drain" /\ Drained
    /\ main' = "exit" /\ request' = Dropped
    /\ UNCHANGED <<code, notified, cancelled, listener, left, calls, waited, age, stopping, kubelet, world>>

(* Mutant: the deadline hangs on the cancelled context. *)
DeadlineAtOnce == TRUE
Deadline == stopping = ShutdownTimeout

(* Mutant: the failure is logged, and main goes on to its end. *)
OnlyLogged == 0
ExitCode == 1

ShutdownFails ==
    /\ main = "drain" /\ Deadline
    /\ main' = "exit" /\ code' = ExitCode /\ request' = Dropped
    /\ UNCHANGED <<notified, cancelled, listener, left, calls, waited, age, stopping, kubelet, world>>
-----------------------------------------------------------------------------
Accept(r) ==
    /\ listener = "open" /\ request[r] = "none"
    /\ request' = [request EXCEPT ![r] = "active"]
    /\ \E n \in 1..Calls : calls' = [calls EXCEPT ![r] = n]
    /\ UNCHANGED <<main, code, notified, cancelled, listener, left, waited, age, stopping, kubelet, world>>

(* A call ends, with an answer or an error; after the last one, and after an *)
(* error, the handler responds, to nobody if it took longer than             *)
(* WriteTimeout.                                                             *)
CallEnds(r) ==
    /\ request[r] = "active" /\ main # "exit"
    /\ waited' = [waited EXCEPT ![r] = 0]
    /\ \/ calls[r] > 1 /\ calls' = [calls EXCEPT ![r] = @ - 1] /\ request' = request
       \/ /\ request' = [request EXCEPT ![r] = IF age[r] > WriteTimeout THEN "lost" ELSE "answered"]
          /\ calls' = [calls EXCEPT ![r] = 0]
    /\ UNCHANGED <<main, code, notified, cancelled, listener, left, age, stopping, kubelet, world>>

Tick ==
    /\ main # "exit" /\ listener \notin {"starting", "failing"}
    /\ ~(main = "wait" /\ ShutdownDue)
    /\ main = "drain" => stopping < ShutdownTimeout /\ ~Drained
    /\ \A c \in Callers : ~Overdue(c)
    /\ probe < Period
    /\ waited' = [c \in Callers |-> waited[c] + IF Calling(c) THEN 1 ELSE 0]
    /\ age' = [r \in Requests |-> IF r \in Active /\ age[r] < AgeLimit
                                  THEN age[r] + 1 ELSE age[r]]
    /\ stopping' = stopping + IF main = "drain" THEN 1 ELSE 0
    /\ probe' = probe + 1
    /\ UNCHANGED <<main, code, notified, cancelled, listener, left, request, calls, failures, world>>

(* The kubelet probes /healthz, which any open listener answers, and ends a  *)
(* container after Threshold failures in a row, whatever they are due to;    *)
(* then it waits for the container's exit.                                   *)
Probe ==
    /\ main # "exit" /\ probe = Period
    /\ probe' = 0
    /\ failures' = IF failures = Threshold THEN failures
                   ELSE IF listener = "open" THEN 0 ELSE failures + 1
    /\ IF failures < Threshold /\ failures' = Threshold
       THEN Terminate ELSE UNCHANGED <<main, code, cancelled, request>>
    /\ UNCHANGED <<notified, listener, left, calls, waited, age, stopping, world>>

Restart ==
    /\ main = "exit"
    /\ main' = "refresh" /\ code' = 0 /\ notified' = TRUE /\ cancelled' = FALSE
    /\ listener' = "off" /\ left' = Queries
    /\ request' = [r \in Requests |-> "none"] /\ calls' = [r \in Requests |-> 0]
    /\ waited' = [c \in Callers |-> 0] /\ age' = [r \in Requests |-> 0]
    /\ stopping' = 0 /\ probe' = 0 /\ failures' = 0
    /\ UNCHANGED world

Flip ==
    /\ main # "exit" /\ slow' = ~slow
    /\ faults < MaxFaults /\ faults' = faults + 1
    /\ UNCHANGED <<main, code, notified, cancelled, listener, left, server, waited, stopping, kubelet>>

MainSteps ==
    QueryAnswered \/ RefreshEnds \/ Listen \/ CancelOnError \/ Shutdown \/ Return \/ ShutdownFails

Next ==
    \/ QueryAnswered \/ RefreshEnds \/ Listen \/ ListenFails \/ CancelOnError
    \/ Signal \/ Shutdown \/ Return \/ ShutdownFails
    \/ \E r \in Requests : Accept(r) \/ CallEnds(r)
    \/ Tick \/ Probe \/ Restart \/ Flip

(* Goroutines run, time passes, calls end and containers are restarted.      *)
Fairness ==
    /\ WF_vars(MainSteps) /\ WF_vars(Tick) /\ WF_vars(Probe) /\ WF_vars(Restart)
    /\ \A r \in Requests : WF_vars(CallEnds(r) /\ Overdue(r))

Spec == Init /\ [][Next]_vars /\ Fairness
-----------------------------------------------------------------------------
(* Every variable stays in its range. *)
TypeOK ==
    /\ main \in {"refresh", "wait", "drain", "exit"} /\ code \in {0, 1, Killed}
    /\ notified \in BOOLEAN /\ cancelled \in BOOLEAN
    /\ listener \in {"off", "starting", "open", "closed", "failing", "failed"}
    /\ left \in 1..Queries
    /\ request \in [Requests -> {"none", "active", "answered", "lost", "dropped"}]
    /\ calls \in [Requests -> 0..Calls]
    /\ \A r \in Requests : calls[r] > 0 <=> request[r] \in {"active", "dropped"}
    /\ waited \in [Callers -> 0..QueryLimit]
    /\ age \in [Requests -> 0..AgeLimit]
    /\ stopping \in 0..ShutdownTimeout /\ probe \in 0..Period /\ failures \in 0..Threshold
    /\ slow \in BOOLEAN /\ faults \in 0..MaxFaults

(* A process that exits with 0 has cut off none of the requests it accepted, *)
(* even if the signal came during the first refresh or the listener failed.  *)
CleanExit == main = "exit" /\ code = 0 => \A r \in Requests : request[r] # "dropped"

(* A request is cut off only after it had the whole shutdown timeout, or by  *)
(* a signal after the listener has failed: the failure's cancel() takes the  *)
(* handler away that absorbs the second and later signals otherwise.         *)
DroppedOnlyLate ==
    \A r \in Requests : request[r] = "dropped" =>
        age[r] >= ShutdownTimeout \/ (listener = "failed" /\ code = Killed)

(* Why a dropped request had the whole timeout: nothing is accepted while    *)
(* main drains, what is active then is at least as old as the drain, and     *)
(* signals are caught unless the listener has failed.                        *)
DrainsOnlyOld ==
    /\ main = "refresh" => listener = "off"
    /\ listener = "open" => main = "wait"
    /\ main \in {"refresh", "wait"} => stopping = 0
    /\ main = "drain" => \A r \in Active : age[r] >= stopping
    /\ main # "exit" => code = 0 /\ \A r \in Requests : request[r] # "dropped"
    /\ ~notified => listener = "failed"

(* A signal, at any time, and a listener that fails end the process.         *)
Stops == cancelled \/ listener \in {"failing", "failed"} ~> main = "exit"

(* Once Prometheus is no longer slow the service comes up and stays up,      *)
(* although the kubelet may have killed it again and again until then.       *)
Recovers == <>[]~slow => <>[](listener = "open")
=============================================================================
