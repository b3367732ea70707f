SPECIFICATION Spec
CONSTANTS
    Keys = {0, 1, 3}
    Values <- OneValue
    JsonKey <- SameKey
    Cap = 3
    Aggre = 2
    Deleted = Deleted
    MaxCommits = 2
INVARIANTS PurgedReads
