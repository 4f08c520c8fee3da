SPECIFICATION Spec
CONSTANTS
    f1 = f1
    f2 = f2
    one = one
    both = both
    py = py
    txt = txt
    guard = guard
    subject = subject
    Files = {f1, f2}
    Patterns = {one, both}
    Covers <- Coverage
    Extensions = {py, txt}
    Extension <- Kinds
    ReviewGuards = {guard}
    Subjects = {subject}
    GuardOf <- Guards
    Policies <- Few
    Defaults <- Empty
    Contents <- Sizes
    Measures = {0, 1, 2, 3, 4}
    MaxCommits = 3
    MaxEdits = 1
INVARIANTS
    TypeOK
    QuietAddsUp
    PassNeverWeaker
CHECK_DEADLOCK FALSE
