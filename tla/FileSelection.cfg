SPECIFICATION Spec
CONSTANTS
    source = source
    generated = generated
    link = link
    a = a
    b = b
    None = None
    Unborn = Unborn
    Unrelated = Unrelated
    Files = {source, generated, link}
    Contents <- Versions
    Ignored = {generated}
    Pruned = {generated}
    Links = {link}
    Target <- Targets
    Requests <- Scopes
    MaxEdits = 2
INVARIANTS
    NothingMissed
    NothingElse
CHECK_DEADLOCK FALSE
