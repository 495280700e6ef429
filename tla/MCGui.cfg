SPECIFICATION Spec
CONSTANTS
    Platforms = {"macos", "windows", "other"}
    Services = {s1, s2}
    Kinds <- MCKinds
    s1 = s1
    s2 = s2
    None = None
    Modes = {"rule", "global"}
    MaxEvents = 3
SYMMETRY ServiceSymmetry
INVARIANTS TypeOK MacOnIsAddressed FlagTellsOs CheckboxAgrees ModeFollowsClicks
CHECK_DEADLOCK FALSE
