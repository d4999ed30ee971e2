------------------------------- MODULE Listing -------------------------------
(* A client walks through the pages of a listing (handleListResources,       *)
(* handleSearchResources, handleListMetrics of internal/server/server.go)    *)
(* while the catalog changes between its requests.  The server keeps nothing *)
(* between two pages: a page ends with a marker, the id of its last row, and *)
(* the next request is answered from whatever the listing is by then.        *)
(*                                                                           *)
(* A listing is the set of its rows and their order, rather than a slice:    *)
(* resources[start:start+limit] are the first limit rows after the marker.   *)
(* A row is an id and the number of the copy, since two exporters may report *)
(* the same resource.  key is the rank of the attribute the client sorts by, *)
(* equal for all rows when it does not sort (and for metrics).               *)
EXTENDS Integers, FiniteSets

CONSTANTS
    Ids,         \* identifiers, in their order
    Keys,        \* values of the attribute sorted and filtered by
    MaxCopies,   \* bound on the rows of one resource
    Limits,      \* limits a client asks for; 0 is no limit
    MaxInt,      \* the largest int
    MaxChanges   \* bound on the changes of the catalog

ASSUME ListingAssumption ==
    /\ Ids \subseteq Nat \ {0} /\ Keys \subseteq Int
    /\ MaxCopies \in Nat /\ MaxChanges \in Nat
    /\ MaxInt \in Nat /\ Limits \subseteq 0..MaxInt

VARIABLES
    copies,      \* rows of each resource that the caller may see, 0 if none
    key,         \* its attribute
    changes,     \* number of changes so far
    desc,        \* sort in descending order
    wanted,      \* keys that match the filter
    limit,       \* rows that the client asks for
    phase,       \* "walking", "done", or "broken" by a panic of the handler
    marker,      \* last id of the page before, or 0
    markedAt,    \* history: its key in that page
    returned,    \* ids the client has been given
    twice,       \* ids it has been given by two pages
    steady,      \* history: ids listed without a change since the walk began
    moved,       \* history: a marker had another key when it was used
    restarted    \* history: a marker was no longer listed when it was used

walk == <<desc, wanted, limit, phase, marker, markedAt, returned, twice,
          moved, restarted>>
vars == <<copies, key, changes, desc, wanted, limit, phase, marker, markedAt,
          returned, twice, steady, moved, restarted>>
-----------------------------------------------------------------------------
(* applyResourceFilter *)
Listed(x) == copies[x] > 0 /\ key[x] \in wanted

Rows == {r \in Ids \X (1..MaxCopies) : Listed(r[1]) /\ r[2] <= copies[r[1]]}

(* sortResources: by the attribute, ascending or not, then by id. *)
Before(k, x, l, y) ==
    \/ k # l /\ (IF desc THEN k > l ELSE k < l)
    \/ k = l /\ x < y

RowBefore(r, s) ==
    \/ Before(key[r[1]], r[1], key[s[1]], s[1])
    \/ r[1] = s[1] /\ r[2] < s[2]

(* Mutant: a marker is looked up in vain. *)
FoundNever(m) == FALSE

Found(m) == m \in Ids /\ Listed(m)

(* Mutant: the page begins with the marker. *)
FromMarker(m) ==
    IF Found(m) THEN {r \in Rows : r = <<m, 1>> \/ RowBefore(<<m, 1>>, r)} ELSE Rows

(* resources[start:], after the first row with the marker's id *)
AfterMarker(m) ==
    IF Found(m) THEN {r \in Rows : RowBefore(<<m, 1>>, r)} ELSE Rows

(* int arithmetic *)
Wrapped(n) == IF n > MaxInt THEN n - 2 * (MaxInt + 1) ELSE n

Start(m) == Cardinality(Rows) - Cardinality(AfterMarker(m))

IsPage(page, rest) ==
    /\ Cardinality(page) = limit
    /\ \A r \in page, s \in rest \ page : RowBefore(r, s)

(* Mutant: the marker is the first row that is not on the page. *)
IsMarkerNext(r, page, rest) ==
    r \in rest \ page /\ \A s \in rest \ page : s = r \/ RowBefore(r, s)

(* resources[start+limit-1] *)
IsMarker(r, page, rest) == r \in page /\ \A s \in page : s = r \/ RowBefore(s, r)

IdsOf(page) == {r[1] : r \in page}

Give(page) ==
    /\ returned' = returned \cup IdsOf(page)
    /\ twice' = twice \cup (returned \cap IdsOf(page))
-----------------------------------------------------------------------------
Begin ==
    /\ phase' = "walking"
    /\ marker' = 0
    /\ returned' = {} /\ twice' = {}
    /\ moved' = FALSE /\ restarted' = FALSE

Init ==
    /\ copies \in [Ids -> 0..MaxCopies]
    /\ key \in [Ids -> Keys]
    /\ changes = 0
    /\ desc \in BOOLEAN
    /\ wanted \in {Keys} \cup {{k} : k \in Keys}
    /\ limit \in Limits
    /\ phase = "walking"
    /\ marker = 0 /\ markedAt \in Keys
    /\ returned = {} /\ twice = {}
    /\ steady = {x \in Ids : Listed(x)}
    /\ moved = FALSE /\ restarted = FALSE

(* The server keeps no walk: the client begins another one, by the same URL. *)
WalkAgain ==
    /\ phase # "walking"
    /\ Begin
    /\ steady' = {x \in Ids : Listed(x)}
    /\ UNCHANGED <<copies, key, changes, desc, wanted, limit, markedAt>>

(* The link of a page repeats the limit, but a client may go on from its     *)
(* marker with another one.                                                  *)
ChangeLimit(l) ==
    /\ phase = "walking" /\ l # limit
    /\ limit' = l
    /\ UNCHANGED <<copies, key, changes, desc, wanted, phase, marker, markedAt,
                   returned, twice, steady, moved, restarted>>

(* A refresh of the catalog: a resource comes, goes, is renamed, is handed   *)
(* to another project, or reported by another number of exporters.           *)
Change(x, n, k) ==
    /\ changes < MaxChanges
    /\ <<n, k>> # <<copies[x], key[x]>>
    /\ changes' = changes + 1
    /\ copies' = [copies EXCEPT ![x] = n]
    /\ key' = [key EXCEPT ![x] = k]
    /\ steady' = steady \ {x}
    /\ UNCHANGED walk

(* Every page notes whether its marker was still where it had been. *)
Ask ==
    /\ phase = "walking"
    /\ moved' = (moved \/ (Found(marker) /\ key[marker] # markedAt))
    /\ restarted' = (restarted \/ (marker # 0 /\ ~Found(marker)))
    /\ UNCHANGED <<copies, key, changes, desc, wanted, limit, steady>>

(* paginateResources and paginateMetrics: limit == 0, or start+limit reaches *)
(* the end of the listing.                                                   *)
LastPage ==
    /\ Ask
    /\ limit = 0 \/ Wrapped(Start(marker) + limit) >= Cardinality(Rows)
    /\ Give(AfterMarker(marker))
    /\ phase' = "done"
    /\ UNCHANGED <<marker, markedAt>>

PageWithLink ==
    /\ Ask
    /\ limit # 0 /\ Wrapped(Start(marker) + limit) \in 0..(Cardinality(Rows) - 1)
    /\ \E page \in SUBSET AfterMarker(marker), last \in AfterMarker(marker) :
        /\ IsPage(page, AfterMarker(marker))
        /\ IsMarker(last, page, AfterMarker(marker))
        /\ Give(page)
        /\ marker' = last[1] /\ markedAt' = key[last[1]]
    /\ UNCHANGED phase

(* A negative end of the slice panics, and the connection is closed. *)
Overflow ==
    /\ Ask
    /\ limit # 0 /\ Wrapped(Start(marker) + limit) < 0
    /\ phase' = "broken"
    /\ UNCHANGED <<marker, markedAt, returned, twice>>

Page == LastPage \/ PageWithLink \/ Overflow

Next ==
    \/ WalkAgain
    \/ \E l \in Limits : ChangeLimit(l)
    \/ \E x \in Ids, n \in 0..MaxCopies, k \in Keys : Change(x, n, k)
    \/ Page

(* The client goes on asking; nothing else has to happen. *)
Spec == Init /\ [][Next]_vars /\ WF_vars(Page)
-----------------------------------------------------------------------------
(* Every variable stays in its range.                                       *)
TypeOK ==
    /\ copies \in [Ids -> 0..MaxCopies]
    /\ key \in [Ids -> Keys]
    /\ changes \in 0..MaxChanges
    /\ desc \in BOOLEAN
    /\ wanted \subseteq Keys /\ limit \in Limits
    /\ phase \in {"walking", "done", "broken"}
    /\ marker \in Ids \cup {0}
    /\ markedAt \in Keys
    /\ returned \subseteq Ids /\ twice \subseteq Ids /\ steady \subseteq Ids
    /\ moved \in BOOLEAN /\ restarted \in BOOLEAN

(* A finished walk has returned every resource that was listed all along,    *)
(* whatever else came, went or was renamed between its pages, and even if    *)
(* markers vanished and the walk began again: only a marker that was still   *)
(* listed, but sorted elsewhere, can make it skip one.                       *)
SteadyReturned == phase = "done" /\ ~moved => steady \subseteq returned

(* No page repeats a resource that was listed all along and only once,       *)
(* unless a marker was moved or had vanished.                                *)
SteadyOnce ==
    ~moved /\ ~restarted => \A x \in steady \cap twice : copies[x] > 1

(* A walk ends once the catalog has stopped changing, although vanished      *)
(* markers send it back to the first page, provided that a page has room for *)
(* all rows of one id.                                                       *)
WalkEnds == phase = "walking" ~> phase # "walking"
=============================================================================
