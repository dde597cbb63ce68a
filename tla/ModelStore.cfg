CONSTANTS
    Models = {m1, m2}
    Deletions = {d1, d2}
    Runs = {r1, r2}
    Faults = {"process", "database", "disk"}
    NoModel = NoModel
SPECIFICATION ModelStoreSpec
SYMMETRY RequestSymmetry
INVARIANTS ModelStoreTypeOK UploadedHasFile  MissingFileExplained
CHECK_DEADLOCK FALSE
