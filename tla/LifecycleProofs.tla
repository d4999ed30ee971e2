--------------------------- MODULE LifecycleProofs ---------------------------
(* For any number of requests, calls and queries and any timeouts: an exit   *)
(* with 0 drops nothing, and only a signal after the listener has failed     *)
(* drops requests that had less than the whole shutdown timeout.             *)
EXTENDS Lifecycle, TLAPS

Inv == TypeOK /\ DrainsOnlyOld /\ CleanExit /\ DroppedOnlyLate

LEMMA AgeLimits == AgeLimit \in Nat /\ AgeLimit >= ShutdownTimeout
  BY LifecycleAssumption DEF LifecycleAssumption, AgeLimit

LEMMA InitInv == Init => Inv
<1> SUFFICES ASSUME Init PROVE Inv
  OBVIOUS
<1> USE LifecycleAssumption DEF LifecycleAssumption, Init
<1>1. TypeOK
  <2>1. waited \in [Callers -> 0..QueryLimit] /\ age \in [Requests -> 0..AgeLimit]
    BY AgeLimits
  <2>2. /\ request \in [Requests -> {"none", "active", "answered", "lost", "dropped"}]
        /\ calls \in [Requests -> 0..Calls]
        /\ \A r \in Requests : calls[r] > 0 <=> request[r] \in {"active", "dropped"}
    OBVIOUS
  <2>3. left \in 1..Queries /\ stopping \in 0..ShutdownTimeout /\ probe \in 0..Period
        /\ failures \in 0..Threshold /\ faults \in 0..MaxFaults
    OBVIOUS
  <2>4. QED
    BY <2>1, <2>2, <2>3 DEF TypeOK
<1>2. DrainsOnlyOld
  BY DEF DrainsOnlyOld, Active
<1>3. CleanExit /\ DroppedOnlyLate
  BY DEF CleanExit, DroppedOnlyLate
<1>4. QED
  BY <1>1, <1>2, <1>3 DEF Inv

(* Whatever main does before it drains, and what happens around it, leaves   *)
(* requests and their ages alone.                                            *)
LEMMA QuietStep ==
    ASSUME Inv, TypeOK', UNCHANGED <<code, request, age>>, main' # "exit", main # "exit",
           ~notified' => listener' = "failed",
           main' = "refresh" => listener' = "off",
           listener' = "open" => main' = "wait",
           main' \in {"refresh", "wait"} => stopping' = 0,
           main' = "drain" => \/ main = "drain" /\ stopping' = stopping
                              \/ stopping' = 0
    PROVE  Inv'
<1> USE DEF Inv
<1>1. DrainsOnlyOld'
  <2>1. \A r \in Requests : age[r] \in Nat
    BY AgeLimits DEF TypeOK
  <2>2. Active' = Active
    BY DEF Active
  <2>3. main' = "drain" => \A r \in Active' : age'[r] >= stopping'
    BY <2>1, <2>2 DEF DrainsOnlyOld, Active
  <2>4. QED
    BY <2>3 DEF DrainsOnlyOld
<1>2. CleanExit' /\ DroppedOnlyLate'
  BY DEF CleanExit, DroppedOnlyLate, DrainsOnlyOld
<1>3. QED
  BY <1>1, <1>2
-----------------------------------------------------------------------------
(* Time: every active request grows older with the drain.                    *)
LEMMA TickInv == ASSUME Inv, Tick PROVE Inv'
<1> USE LifecycleAssumption DEF LifecycleAssumption, Inv, Tick
<1>1. TypeOK'
  <2>1. waited' \in [Callers -> 0..QueryLimit]
    <3>1. \A c \in Callers : waited[c] \in 0..QueryLimit
      BY DEF TypeOK
    <3>2. \A c \in Callers : Calling(c) => waited[c] < QueryLimit
      BY <3>1 DEF Overdue
    <3>3. \A c \in Callers : waited[c] + (IF Calling(c) THEN 1 ELSE 0) \in 0..QueryLimit
      BY <3>1, <3>2
    <3>4. QED
      BY <3>3
  <2>2. age' \in [Requests -> 0..AgeLimit]
    BY AgeLimits DEF TypeOK
  <2>3. stopping' \in 0..ShutdownTimeout /\ probe' \in 0..Period
    BY DEF TypeOK
  <2>4. QED
    BY <2>1, <2>2, <2>3 DEF TypeOK, server, kubelet, world
<1>2. DrainsOnlyOld'
  <2>1. Active' = Active
    BY DEF Active
  <2>2. \A r \in Requests : age[r] \in 0..AgeLimit /\ stopping \in 0..ShutdownTimeout
    BY DEF TypeOK
  <2>3. ASSUME main = "drain", NEW r \in Active
        PROVE  age'[r] >= stopping'
    <3>1. r \in Requests /\ age[r] >= stopping /\ stopping < ShutdownTimeout
      BY <2>3 DEF Active, DrainsOnlyOld
    <3>2. age'[r] = IF age[r] < AgeLimit THEN age[r] + 1 ELSE age[r]
      BY <2>3, <3>1 DEF TypeOK
    <3>3. stopping' = stopping + 1
      BY <2>3
    <3>4. QED
      BY <2>2, <3>1, <3>2, <3>3, AgeLimits
  <2>4. main \in {"refresh", "wait"} => stopping' = 0
    BY DEF DrainsOnlyOld
  <2>5. QED
    BY <2>1, <2>3, <2>4 DEF DrainsOnlyOld
<1>3. CleanExit' /\ DroppedOnlyLate'
  BY DEF CleanExit, DroppedOnlyLate, DrainsOnlyOld
<1>4. QED
  BY <1>1, <1>2, <1>3

(* A request is accepted only while main waits, and is young.                *)
LEMMA AcceptInv == ASSUME Inv, NEW r \in Requests, Accept(r) PROVE Inv'
<1> USE LifecycleAssumption DEF LifecycleAssumption, Inv, Accept, kubelet, world
<1>1. TypeOK'
  <2>1. PICK n \in 1..Calls : calls' = [calls EXCEPT ![r] = n]
    OBVIOUS
  <2>2. request' \in [Requests -> {"none", "active", "answered", "lost", "dropped"}]
    BY DEF TypeOK
  <2>3. calls' \in [Requests -> 0..Calls]
    BY <2>1 DEF TypeOK
  <2>4. \A q \in Requests : calls'[q] > 0 <=> request'[q] \in {"active", "dropped"}
    BY <2>1 DEF TypeOK
  <2>5. QED
    BY <2>2, <2>3, <2>4 DEF TypeOK
<1>2. main = "wait"
  BY DEF DrainsOnlyOld
<1>3. \A q \in Requests : request'[q] # "dropped"
  BY <1>2 DEF DrainsOnlyOld, TypeOK
<1>4. DrainsOnlyOld'
  BY <1>2, <1>3 DEF DrainsOnlyOld
<1>5. CleanExit' /\ DroppedOnlyLate'
  BY <1>3 DEF CleanExit, DroppedOnlyLate
<1>6. QED
  BY <1>1, <1>4, <1>5

(* A call ends: nothing becomes active, nothing is dropped.                  *)
LEMMA CallEndsInv == ASSUME Inv, NEW r \in Requests, CallEnds(r) PROVE Inv'
<1> USE LifecycleAssumption DEF LifecycleAssumption, Inv, CallEnds, kubelet, world
<1>1. TypeOK'
  <2>1. waited' \in [Callers -> 0..QueryLimit]
    BY DEF TypeOK, Callers
  <2>2. request' \in [Requests -> {"none", "active", "answered", "lost", "dropped"}]
    BY DEF TypeOK
  <2>3. calls' \in [Requests -> 0..Calls]
    BY DEF TypeOK
  <2>4. \A q \in Requests : calls'[q] > 0 <=> request'[q] \in {"active", "dropped"}
    BY DEF TypeOK
  <2>5. QED
    BY <2>1, <2>2, <2>3, <2>4 DEF TypeOK
<1>2. \A q \in Requests : request'[q] # "dropped"
  BY DEF DrainsOnlyOld, TypeOK
<1>3. Active' \subseteq Active
  BY DEF Active, TypeOK
<1>4. DrainsOnlyOld'
  BY <1>2, <1>3 DEF DrainsOnlyOld
<1>5. CleanExit' /\ DroppedOnlyLate'
  BY <1>2 DEF CleanExit, DroppedOnlyLate
<1>6. QED
  BY <1>1, <1>4, <1>5

(* The process ends: what is still active is dropped.                        *)
LEMMA ExitInv ==
    ASSUME Inv, TypeOK', main # "exit", main' = "exit", request' = Dropped,
           UNCHANGED <<notified, listener, age>>,
           \/ main = "drain" /\ Active = {}
           \/ main = "drain" /\ stopping = ShutdownTimeout /\ code' = 1
           \/ listener = "failed" /\ code' = Killed
    PROVE  Inv'
<1> USE LifecycleAssumption DEF LifecycleAssumption, Inv
<1>1. listener # "open"
  BY DEF DrainsOnlyOld
<1>2. DrainsOnlyOld'
  BY <1>1 DEF DrainsOnlyOld
<1>3. \A r \in Requests : request'[r] = "dropped" => r \in Active
  BY DEF DrainsOnlyOld, Dropped
<1>4. CleanExit'
  BY <1>3 DEF CleanExit, Killed
<1>5. DroppedOnlyLate'
  <2>1. SUFFICES ASSUME NEW r \in Requests, request'[r] = "dropped", code' # Killed \/ listener # "failed"
                 PROVE  age[r] >= ShutdownTimeout
    BY DEF DroppedOnlyLate
  <2>2. r \in Active /\ main = "drain" /\ stopping = ShutdownTimeout
    BY <1>3, <2>1
  <2>3. age[r] >= stopping /\ age[r] \in 0..AgeLimit
    BY <2>2 DEF DrainsOnlyOld, TypeOK
  <2>4. QED
    BY <2>2, <2>3
<1>6. QED
  BY <1>2, <1>4, <1>5

(* A signal is caught, or kills a process whose listener has failed.         *)
LEMMA TerminateInv ==
    ASSUME Inv, TypeOK', main # "exit", Terminate, UNCHANGED <<notified, listener, age, stopping>>
    PROVE  Inv'
<1>1. CASE notified
  BY <1>1, QuietStep DEF Inv, Terminate, Caught, DrainsOnlyOld, TypeOK
<1>2. CASE ~notified
  <2>1. listener = "failed"
    BY <1>2 DEF Inv, DrainsOnlyOld
  <2>2. main' = "exit" /\ code' = Killed /\ request' = Dropped
    BY <1>2 DEF Terminate, Caught
  <2>3. QED
    BY <2>1, <2>2, ExitInv
<1>3. QED
  BY <1>1, <1>2 DEF Inv, TypeOK

LEMMA DroppedType ==
    ASSUME TypeOK
    PROVE  /\ Dropped \in [Requests -> {"none", "active", "answered", "lost", "dropped"}]
           /\ \A r \in Requests : calls[r] > 0 <=> Dropped[r] \in {"active", "dropped"}
  BY DEF TypeOK, Dropped, Active

LEMMA TerminateType ==
    ASSUME TypeOK, Terminate
    PROVE  /\ main' \in {"refresh", "wait", "drain", "exit"} /\ code' \in {0, 1, Killed}
           /\ cancelled' \in BOOLEAN
           /\ request' \in [Requests -> {"none", "active", "answered", "lost", "dropped"}]
           /\ \A r \in Requests : calls[r] > 0 <=> request'[r] \in {"active", "dropped"}
  BY DroppedType DEF TypeOK, Terminate

LEMMA ProbeInv == ASSUME Inv, Probe PROVE Inv'
<1> USE LifecycleAssumption DEF LifecycleAssumption, Inv, Probe, world
<1>1. TypeOK'
  <2>1. failures \in 0..Threshold /\ Threshold \in Nat \ {0}
    BY DEF TypeOK
  <2>2. failures' \in 0..Threshold /\ probe' \in 0..Period
    BY <2>1
  <2>3. CASE Terminate
    BY <2>2, <2>3, TerminateType DEF TypeOK
  <2>4. CASE UNCHANGED <<main, code, cancelled, request>>
    BY <2>2, <2>4 DEF TypeOK
  <2>5. QED
    BY <2>3, <2>4
<1>2. CASE Terminate
  BY <1>1, <1>2, TerminateInv
<1>3. CASE UNCHANGED <<main, code, cancelled, request>>
  BY <1>1, <1>3, QuietStep DEF DrainsOnlyOld, TypeOK
<1>4. QED
  BY <1>2, <1>3
-----------------------------------------------------------------------------
LEMMA NextInv == Inv /\ [Next]_vars => Inv'
<1> SUFFICES ASSUME Inv, [Next]_vars PROVE Inv'
  OBVIOUS
<1> USE LifecycleAssumption DEF LifecycleAssumption
<1>1. CASE QueryAnswered
  <2>1. TypeOK'
    BY <1>1 DEF Inv, QueryAnswered, TypeOK, Callers, server, kubelet, world
  <2>2. QED
    BY <1>1, <2>1, QuietStep DEF Inv, QueryAnswered, DrainsOnlyOld, server
<1>2. CASE RefreshEnds
  <2>1. TypeOK'
    BY <1>2 DEF Inv, RefreshEnds, TypeOK, Callers, server, kubelet, world
  <2>2. QED
    BY <1>2, <2>1, QuietStep DEF Inv, RefreshEnds, DrainsOnlyOld, server
<1>3. CASE Listen
  <2>1. TypeOK'
    BY <1>3 DEF Inv, Listen, TypeOK, server, kubelet, world
  <2>2. CASE main # "exit"
    BY <1>3, <2>1, <2>2, QuietStep DEF Inv, Listen, DrainsOnlyOld, server
  <2>3. CASE main = "exit"
    BY <1>3, <2>1, <2>3 DEF Inv, Listen, DrainsOnlyOld, CleanExit, DroppedOnlyLate, server
  <2>4. QED
    BY <2>2, <2>3
<1>4. CASE ListenFails
  <2>1. TypeOK'
    BY <1>4 DEF Inv, ListenFails, TypeOK, server, kubelet
  <2>2. QED
    BY <1>4, <2>1, QuietStep DEF Inv, ListenFails, DrainsOnlyOld, server, TypeOK
<1>5. CASE Signal
  <2>1. TypeOK'
    BY <1>5, TerminateType DEF Inv, Signal, TypeOK, kubelet
  <2>2. QED
    BY <1>5, <2>1, TerminateInv DEF Signal
<1>6. CASE Shutdown
  <2>1. TypeOK'
    BY <1>6 DEF Inv, Shutdown, TypeOK, server, kubelet, world
  <2>2. QED
    BY <1>6, <2>1, QuietStep DEF Inv, Shutdown, DrainsOnlyOld, server
<1>7. CASE Return
  <2>1. TypeOK'
    BY <1>7, DroppedType DEF Inv, Return, TypeOK, kubelet, world
  <2>2. QED
    BY <1>7, <2>1, ExitInv DEF Return, Drained
<1>8. CASE ShutdownFails
  <2>1. TypeOK'
    BY <1>8, DroppedType DEF Inv, ShutdownFails, ExitCode, TypeOK, kubelet, world
  <2>2. QED
    BY <1>8, <2>1, ExitInv DEF ShutdownFails, Deadline, ExitCode
<1>9. ASSUME NEW r \in Requests, Accept(r) PROVE Inv'
  BY <1>9, AcceptInv
<1>10. ASSUME NEW r \in Requests, CallEnds(r) PROVE Inv'
  BY <1>10, CallEndsInv
<1>11. CASE Tick
  BY <1>11, TickInv
<1>12. CASE Probe
  BY <1>12, ProbeInv
<1>13. CASE Restart
  <2>1. TypeOK'
    <3>1. waited' \in [Callers -> 0..QueryLimit] /\ age' \in [Requests -> 0..AgeLimit]
      BY <1>13, AgeLimits DEF Restart
    <3>2. /\ request' \in [Requests -> {"none", "active", "answered", "lost", "dropped"}]
          /\ calls' \in [Requests -> 0..Calls]
          /\ \A r \in Requests : calls'[r] > 0 <=> request'[r] \in {"active", "dropped"}
      BY <1>13 DEF Restart
    <3>3. left' \in 1..Queries /\ stopping' \in 0..ShutdownTimeout /\ probe' \in 0..Period
          /\ failures' \in 0..Threshold
      BY <1>13 DEF Restart
    <3>4. QED
      BY <1>13, <3>1, <3>2, <3>3 DEF Inv, Restart, TypeOK, world
  <2>2. DrainsOnlyOld' /\ CleanExit' /\ DroppedOnlyLate'
    BY <1>13 DEF Restart, DrainsOnlyOld, CleanExit, DroppedOnlyLate, Active
  <2>3. QED
    BY <2>1, <2>2 DEF Inv
<1>14. CASE Flip
  <2>1. TypeOK'
    BY <1>14 DEF Inv, Flip, TypeOK, server, kubelet
  <2>2. QED
    BY <1>14, <2>1, QuietStep DEF Inv, Flip, DrainsOnlyOld, server, TypeOK
<1>15. CASE UNCHANGED vars
  BY <1>15 DEF Inv, vars, server, kubelet, world, TypeOK, DrainsOnlyOld, CleanExit,
               DroppedOnlyLate, Active, Callers
<1>16. CASE CancelOnError
  <2>1. TypeOK'
    BY <1>16 DEF Inv, CancelOnError, TypeOK, server, kubelet, world
  <2>2. QED
    BY <1>16, <2>1, QuietStep DEF Inv, CancelOnError, DrainsOnlyOld, server, TypeOK
<1>17. QED
  BY <1>1, <1>2, <1>3, <1>4, <1>5, <1>6, <1>7, <1>8, <1>9, <1>10, <1>11, <1>12, <1>13,
     <1>14, <1>15, <1>16 DEF Next

LEMMA Invariance == Spec => []Inv
  BY InitInv, NextInv, PTL DEF Spec
-----------------------------------------------------------------------------
(* Every variable of main, its requests and the kubelet stays in its range.  *)
THEOREM TypeCorrect == Spec => []TypeOK
<1>1. Inv => TypeOK
  BY DEF Inv
<1>. QED BY <1>1, Invariance, PTL

(* A process that exits with 0 has cut off none of its requests.             *)
THEOREM AlwaysCleanExit == Spec => []CleanExit
<1>1. Inv => CleanExit
  BY DEF Inv
<1>. QED BY <1>1, Invariance, PTL

(* A request that is dropped had the whole shutdown timeout, or a signal     *)
(* killed the process after its listener had failed.                         *)
THEOREM AlwaysDroppedLate == Spec => []DroppedOnlyLate
<1>1. Inv => DroppedOnlyLate
  BY DEF Inv
<1>. QED BY <1>1, Invariance, PTL
=============================================================================
