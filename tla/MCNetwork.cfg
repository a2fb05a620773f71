CONSTANTS
    Nodes = {root, n1, n2, n3}
    Root = root
    Single = {n3}
    MaxChanges = 3
    MaxLosses = 1
    MaxCrashes = 1
SYMMETRY Symmetry
SPECIFICATION Spec
INVARIANTS TypeOK ListsAgree ListsItself NewsIsTaken
CHECK_DEADLOCK FALSE
