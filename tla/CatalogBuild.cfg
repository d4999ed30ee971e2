\* Builds while up to two things change; one instance without libvirt project.
SPECIFICATION Spec
SYMMETRY Symmetry
CONSTANTS
    i1 = i1
    i2 = i2
    v1 = v1
    n1 = n1
    n2 = n2
    q1 = q1
    p1 = p1
    p2 = p2
    d1 = d1
    d2 = d2
    Instances = {i1, i2}
    Volumes = {v1}
    Networks = {n1, n2}
    Ports = {q1}
    Domains = {d1, d2}
    NamesOf <- MCNamesOf
    NetworkOf <- MCNetworkOf
    Unlabelled = {i2}
    Projects = {p1, p2}
    Blank = Blank
    Nil = Nil
    Admin = Admin
    Start <- MCStart
    MaxChanges = 2
INVARIANT OwnersTrue
INVARIANT SteadyComplete
INVARIANT DevicesTrue
INVARIANT MetricsAgree
