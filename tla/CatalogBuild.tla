---------------------------- MODULE CatalogBuild ----------------------------
(* What buildSnapshot (internal/catalog/catalog.go) makes of the lists it    *)
(* reads, and what callers of internal/server see of the result.             *)
(*                                                                           *)
(* The seven lists are read one after the other from a cloud that goes on    *)
(* changing, and are then joined: a port takes its project from the list of  *)
(* networks, a device finds its instance by the name of its libvirt domain   *)
(* and its project in the list of instances.  The generic type repeats every *)
(* resource.  Failing queries are the business of CatalogManager.            *)
(*                                                                           *)
(* Attributes other than the project are left out, and the metrics of a      *)
(* resource are one metric: they are made and found together.                *)
EXTENDS Naturals, Sequences

CONSTANTS
    Instances, Volumes, Networks, Ports,    \* identifiers
    Domains,      \* names of libvirt domains
    NamesOf,      \* names of the interfaces and disks of each instance
    NetworkOf,    \* network of each port
    Unlabelled,   \* guests whose libvirt metadata name no project
    Projects,
    Blank,        \* an empty project: a label without a value, an unscoped caller
    Nil,          \* nil, a project_id that is not known
    Admin,        \* a caller with an admin role
    Start,        \* what may exist at first
    MaxChanges    \* bound on the changes of the cloud

Labels == Projects \cup {Blank}
Owned == Instances \cup Volumes \cup Networks

(* The kinds of things whose lists are read, in the order of the queries;    *)
(* the last three are about guests: metadata, interfaces, disks.             *)
Queries == <<"vm", "volume", "network", "port", "guest", "guest", "guest">>

Things ==
    ({"vm", "guest"} \X Instances) \cup ({"volume"} \X Volumes)
        \cup ({"network"} \X Networks) \cup ({"port"} \X Ports)

(* A port is on a network that exists. *)
Possible(things) ==
    \A p \in Ports : <<"port", p>> \in things => <<"network", NetworkOf[p]>> \in things

ASSUME BuildAssumption ==
    /\ DOMAIN NamesOf = Instances
    /\ NetworkOf \in [Ports -> Networks]
    /\ Volumes \cap (Instances \cup Networks) = {}     \* ids are UUIDs
    /\ Unlabelled \subseteq Instances
    /\ Blank # Nil /\ Blank # Admin /\ Nil # Admin
    /\ {Blank, Nil, Admin} \cap Projects = {}
    /\ Start \subseteq {things \in SUBSET Things : Possible(things)}
    /\ MaxChanges \in Nat

VARIABLES
    owner,      \* project of everything that has one
    domainOf,   \* libvirt domain of each instance
    alive,      \* what exists, as pairs <<kind, id>>
    changes,    \* number of changes of the cloud so far
    lists,      \* the lists read by this build, in the order of Queries
    catalog,    \* resources and metrics of the last complete build
    steady,     \* history: what has existed since this build began
    held        \* history: owners everything has had since this build began

cloud == <<owner, domainOf, alive, changes>>
vars == <<owner, domainOf, alive, changes, lists, catalog, steady, held>>
-----------------------------------------------------------------------------
(* What the exporter answers now: ids with the label tenant_id (or, for a    *)
(* guest, project_id).                                                       *)
Label(kind, x) ==
    IF kind = "port" \/ (kind = "guest" /\ x \in Unlabelled) THEN Blank ELSE owner[x]

Answer(kind) == {<<t[2], Label(kind, t[2])>> : t \in {u \in alive : u[1] = kind}}

(* Mutant: labels are taken as they are. *)
NormalizedNever(label) == label

(* normalizeOptionalValue *)
Normalized(label) == IF label = Blank THEN Nil ELSE label

(* of is the attribute resource_type that generic copies have. *)
Resource(type, id, project) == [type |-> type, id |-> id, project |-> project, of |-> type]

Listed(k) == {s[1] : s \in lists[k]}

(* buildInstances, buildVolumes, buildNetworks *)
Simple(type, k) == {Resource(type, s[1], Normalized(s[2])) : s \in lists[k]}

(* Mutant: ports are matched with any network that has a project. *)
NetworkProjectAny(n) ==
    LET known == {s \in lists[3] : s[2] # Blank}
    IN IF known = {} THEN Nil ELSE (CHOOSE s \in known : TRUE)[2]

(* networkProjects of buildPorts *)
NetworkProject(n) ==
    LET known == {s \in lists[3] : s[1] = n}
    IN IF known = {} THEN Nil ELSE Normalized((CHOOSE s \in known : TRUE)[2])

PortResources == {Resource("port", p, NetworkProject(NetworkOf[p])) : p \in Listed(4)}

(* Mutant: the metadata of any guest will do. *)
WinnersLoose ==
    LET named == {domainOf[g] : g \in Listed(5)}
    IN [named -> Listed(5)]

(* libvirtOpenStackInfoByDomain: the guest whose metadata are the last of    *)
(* those with the same domain name.                                          *)
Winners ==
    LET named == {domainOf[g] : g \in Listed(5)}
    IN {w \in [named -> Listed(5)] : \A d \in named : domainOf[w[d]] = d}

(* Mutant: only instances that Nova lists have a project. *)
GuestProjectNova(g) ==
    LET nova == {s \in lists[1] : s[1] = g}
    IN IF nova = {} THEN Nil ELSE (CHOOSE s \in nova : TRUE)[2]

(* instanceDetailsByID comes before the label of the metadata. *)
GuestProject(g) ==
    LET nova == {s \in lists[1] : s[1] = g}
        meta == {s \in lists[5] : s[1] = g}
    IN Normalized((CHOOSE s \in (IF nova = {} THEN meta ELSE nova) : TRUE)[2])

(* buildInstanceDevices; a device is identified by its instance and name. *)
DeviceResources(type, k, w) ==
    {Resource(type, <<w[domainOf[d[1]]], d[2]>>, GuestProject(w[domainOf[d[1]]])) :
        d \in {e \in Listed(k) \X UNION {NamesOf[i] : i \in Instances} :
                    e[2] \in NamesOf[e[1]] /\ domainOf[e[1]] \in DOMAIN w}}

(* buildGeneric *)
Generic(typed) == {[r EXCEPT !.type = "generic"] : r \in typed}

(* MetricForResource: there are no definitions for disks. *)
Metrics(r) ==
    IF r.of = "instance_disk" THEN {}
    ELSE {[id |-> <<r.of, r.id>>, type |-> r.of, resource |-> r.id]}

(* buildGeneric copies the metrics as they are. *)
Copies(r) == Metrics(r)

(* The loop over resourcesByType takes the types in any order: copies in     *)
(* the generic type are overwritten by the originals of the types after it.  *)
MetricsByID(typed, after) ==
    UNION {IF r.of \in after THEN Metrics(r) ELSE Copies(r) : r \in typed}

Types == {"instance", "volume", "network", "port", "instance_network_interface",
          "instance_disk"}
-----------------------------------------------------------------------------
Empty == [resources |-> {}, metrics |-> {}]

Init ==
    /\ owner \in {o \in [Owned -> Labels] :
                    \A x \in Instances \cup Volumes : o[x] # Blank}
    /\ domainOf \in [Instances -> Domains]
    /\ alive \in Start
    /\ changes = 0
    /\ lists = << >>
    /\ catalog = Empty
    /\ steady = alive
    /\ held = [x \in Owned |-> {owner[x]}]

(* What happens between two builds happens to the cloud the next one begins  *)
(* with. *)
Change ==
    /\ catalog = Empty
    /\ changes < MaxChanges
    /\ changes' = changes + 1
    /\ UNCHANGED <<domainOf, lists, catalog>>

Create(t) ==
    /\ Change
    /\ t \notin alive /\ Possible(alive \cup {t})
    /\ alive' = alive \cup {t}
    /\ UNCHANGED <<owner, steady, held>>

Delete(t) ==
    /\ Change
    /\ t \in alive /\ Possible(alive \ {t})
    /\ alive' = alive \ {t}
    /\ steady' = steady \ {t}
    /\ UNCHANGED <<owner, held>>

(* A volume is handed to another project. *)
Transfer(v, p) ==
    /\ Change
    /\ owner' = [owner EXCEPT ![v] = p]
    /\ held' = [held EXCEPT ![v] = @ \cup {p}]
    /\ UNCHANGED <<alive, steady>>

Query ==
    /\ Len(lists) < Len(Queries)
    /\ lists' = Append(lists, Answer(Queries[Len(lists) + 1]))
    /\ UNCHANGED <<cloud, catalog, steady, held>>

Assemble ==
    /\ Len(lists) = Len(Queries)
    /\ \E w \in Winners :
        LET typed == Simple("instance", 1) \cup Simple("volume", 2)
                        \cup Simple("network", 3) \cup PortResources
                        \cup DeviceResources("instance_network_interface", 6, w)
                        \cup DeviceResources("instance_disk", 7, w)
        IN \E after \in SUBSET {r.of : r \in {s \in typed : Metrics(s) # {}}} :
             catalog' = [resources |-> typed \cup Generic(typed),
                         metrics |-> MetricsByID(typed, after)]
    /\ lists' = << >>
    /\ UNCHANGED <<cloud, steady, held>>

(* The next build, after which nothing is known of the last one. *)
Begin ==
    /\ lists = << >> /\ catalog # Empty
    /\ catalog' = Empty
    /\ steady' = alive
    /\ held' = [x \in Owned |-> {owner[x]}]
    /\ UNCHANGED <<cloud, lists>>

Next ==
    \/ \E t \in Things : Create(t) \/ Delete(t)
    \/ \E v \in Volumes, p \in Projects : Transfer(v, p)
    \/ Query \/ Assemble \/ Begin

Spec == Init /\ [][Next]_vars
-----------------------------------------------------------------------------
(* What callers see: resourcesForRequest and listMetrics of service.go.  Both *)
(* compare texts; Nil stands for the text of nil too, which is no project.   *)
Callers == Labels \cup {Admin}

ResourcesFor(c, type) ==
    {r \in catalog.resources :
        /\ r.type = type
        /\ c = Admin \/ (r.project # Blank /\ r.project = c)}

MetricsFor(c) ==
    {m \in catalog.metrics :
        \E r \in catalog.resources :
            /\ r.type = m.type /\ r.id = m.resource
            /\ c = Admin \/ r.project = c}
-----------------------------------------------------------------------------
(* Whose project decides: a port has its network's, a device its instance's. *)
Holder(r) ==
    CASE r.of = "port" -> NetworkOf[r.id]
      [] r.of \in {"instance_network_interface", "instance_disk"} -> r.id[1]
      [] OTHER -> r.id

(* However the cloud changed between the queries, and even if two domains    *)
(* have the same name: nothing in the catalog has a project that did not own *)
(* it, or its network, or its instance, at some moment of the build.         *)
OwnersTrue ==
    \A r \in catalog.resources :
        r.project = Nil \/ (r.project \in held[Holder(r)] /\ r.project # Blank)

Distinct == \A i, j \in Instances : domainOf[i] = domainOf[j] => i = j

Has(type, x, project) ==
    \E r \in catalog.resources : r.type = type /\ r.id = x /\ r.project = project

(* What existed throughout a build is in its catalog, with its project if it *)
(* has one.  (Domain names must be distinct for this.)  In particular a port *)
(* loses its project only if it or its network came or went meanwhile, and a *)
(* device whose instance Nova no longer lists keeps the project its libvirt  *)
(* metadata name.                                                            *)
SteadyComplete ==
    catalog # Empty =>
        /\ \A i \in Instances : <<"vm", i>> \in steady => Has("instance", i, owner[i])
        /\ \A v \in Volumes :
              <<"volume", v>> \in steady => \E p \in held[v] : Has("volume", v, p)
        /\ \A n \in Networks : <<"network", n>> \in steady =>
              Has("network", n, IF owner[n] = Blank THEN Nil ELSE owner[n])
        /\ \A p \in Ports : <<"port", p>> \in steady =>
              Has("port", p, IF owner[NetworkOf[p]] = Blank THEN Nil ELSE owner[NetworkOf[p]])
        /\ \A i \in Instances : \A n \in NamesOf[i] :
              /\ Distinct /\ <<"guest", i>> \in steady
              /\ i \notin Unlabelled \/ <<"vm", i>> \in steady
              => Has("instance_disk", <<i, n>>, owner[i])

(* If domain names are distinct, a device is listed under the instance that  *)
(* has it.                                                                   *)
DevicesTrue ==
    Distinct => \A r \in catalog.resources :
        r.of \in {"instance_network_interface", "instance_disk"} => r.id[2] \in NamesOf[r.id[1]]

(* The two project checks of service.go differ, but no caller can tell: the  *)
(* metrics listed are those of the resources listed, type by type, also for  *)
(* a caller without a project and for resources without one.                 *)
MetricsAgree ==
    \A c \in Callers :
        MetricsFor(c) = UNION {Metrics(r) : r \in UNION {ResourcesFor(c, t) : t \in Types}}

(* The generic type shows a caller exactly what the other types show.        *)
GenericAgrees ==
    \A c \in Callers :
        {<<r.of, r.id>> : r \in ResourcesFor(c, "generic")}
            = UNION {{<<t, r.id>> : r \in ResourcesFor(c, t)} : t \in Types}

(* In whatever order the types are indexed, a metric id leads to the type    *)
(* that has the metric's definition, and to a resource that is listed there. *)
MetricsLeadHome ==
    \A m \in catalog.metrics :
        /\ m.id = <<m.type, m.resource>>
        /\ m.resource \in {r.id : r \in ResourcesFor(Admin, m.type)}
=============================================================================
