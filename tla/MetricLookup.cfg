\* One request against every history of three versions; one plain resource, one device.
SPECIFICATION Spec
CONSTANTS
    Requests = {r1}
    Resources = {x1, d1}
    Devices = {d1}
    Projects = {p1}
    NoProject = NoProject
    Admin = Admin
    Absent = Absent
    MaxWorld = 2
INVARIANT ExplainedByOneCatalog
INVARIANT UsedWasVisible
INVARIANT AggregateComplete
