SPECIFICATION Spec
CONSTANTS
    u1 = u1
    Users = {u1}
    Blobs = {b1}
    Folders = {}
    FolderOwner <- OneOwner
    Reqs = {r1}
    OrphanJob = OrphanJob
    TrashJob = TrashJob
    None = None
    Sizes = {1}
    MaxUploadBytes = 0
    QuotaBytes = 0
    Failing = {}
PROPERTIES HardDeleteDeletesRecord
