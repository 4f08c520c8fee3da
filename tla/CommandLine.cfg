SPECIFICATION CommandSpec
CONSTANTS
    skill = skill
    policy = policy
    v1 = v1
    v2 = v2
    Packages <- Installations
    Payload <- Files
    Marker = Marker
    Versions = {v1, v2}
    Absent = Absent
    Exporters = {me, other}
    Me = me
    MaxOptions = 3
INVARIANTS
    NothingIgnored
    DoctorTruthful
    MarkerSeals
PROPERTY
    ForeignKept
CHECK_DEADLOCK FALSE
