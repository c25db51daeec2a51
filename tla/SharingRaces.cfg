SPECIFICATION FairSpec
CONSTANTS
    Users = {u1, u2, u3}
    Keyed = {u1, u2}
    Blobs = {b1}
    BlobOwner <- MCBlobOwner
    ShareIds = {s1, s2}
    Reqs = {r1, r2}
    None = None
INVARIANTS SharesMatchBlobs OneActiveShare ObstacleIsListed
PROPERTY AccessEnds
