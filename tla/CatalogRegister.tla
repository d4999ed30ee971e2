-------------------------- MODULE CatalogRegister --------------------------
(* What the catalog promises the HTTP handlers, apart from how refreshes     *)
(* work: a register that holds a whole catalog and one health flag.          *)
(* A refresh either publishes a whole catalog together with good health, or  *)
(* turns the health bad and leaves the catalog alone.  A caller either gets  *)
(* the pair the register held at one instant, or is refused by a refresh of  *)
(* its own that failed.  It is never handed an empty catalog as a good one.  *)
(* The register does not promise that a later catalog is a newer one.        *)
EXTENDS Naturals, Sequences

CONSTANTS
    Callers,    \* goroutines that ask for the catalog
    Width,      \* parts a catalog is assembled from
    MaxWorld    \* bound on the versions of the monitored cloud

VARIABLES
    world,      \* version of the cloud that Prometheus reports
    value,      \* the published catalog: the version each part was read at
    health,     \* "nil" or "err"
    answer      \* what each caller holds

vars == <<world, value, health, answer>>

Empty == << >>
NoAnswer == [snap |-> Empty, err |-> "none"]
Refusal == [snap |-> Empty, err |-> "err"]

(* Parts were read one after the other from a cloud that only moves on. *)
Ordered(v) == \A i, j \in DOMAIN v : i <= j => v[i] <= v[j]
Slice(v) ==
    /\ v \in Seq(0..MaxWorld)
    /\ Len(v) = Width
    /\ Ordered(v)
    /\ \A i \in DOMAIN v : v[i] <= world

Init ==
    /\ world = 0
    /\ value = Empty
    /\ health = "nil"
    /\ answer = [c \in Callers |-> NoAnswer]

Advance ==
    /\ world < MaxWorld
    /\ world' = world + 1
    /\ UNCHANGED <<value, health, answer>>

Publish ==
    /\ Slice(value')
    /\ health' = "nil"
    /\ UNCHANGED <<world, answer>>

Fail ==
    /\ health' = "err"
    /\ UNCHANGED <<world, value, answer>>

Refuse(c) ==
    /\ answer[c] = NoAnswer
    /\ health' = "err"
    /\ answer' = [answer EXCEPT ![c] = Refusal]
    /\ UNCHANGED <<world, value>>

Get(c) ==
    /\ answer[c] = NoAnswer
    /\ value # Empty
    /\ answer' = [answer EXCEPT ![c] = [snap |-> value, err |-> health]]
    /\ UNCHANGED <<world, value, health>>

Release(c) ==
    /\ answer[c] # NoAnswer
    /\ answer' = [answer EXCEPT ![c] = NoAnswer]
    /\ UNCHANGED <<world, value, health>>

Next ==
    \/ Advance
    \/ Publish
    \/ Fail
    \/ \E c \in Callers : Refuse(c) \/ Get(c) \/ Release(c)

Spec == Init /\ [][Next]_vars
=============================================================================
