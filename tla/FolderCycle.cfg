SPECIFICATION Spec
CONSTANTS
    Users = {u1}
    FolderIds = {f1, f2, f3}
    Names = {n1, n2}
    Reqs = {r1, r2}
    Client <- OneForAll
    None = None
    DepthLimit = 3
SYMMETRY Symmetry
INVARIANTS Forest
