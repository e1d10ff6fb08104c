\* Two concurrent requests on an entity under optimistic locking and on an
\* upserted one; the wall-clock readings of one row are distinct.
CONSTANTS
    Ids = {a, b}
    UpsertIds = {b}
    Requests = {r1, r2}
    Patches = {p1, p2}
    Stamps = {s1, s2, s3}
    DistinctStamps = TRUE
    MaxGeneration = 1
    Null = Null
SPECIFICATION Spec
SYMMETRY MCSymmetry
INVARIANTS NoLostUpdate
PROPERTIES UpdatesAreBasedOnCurrentRow ImplementsEntityTable
