SPECIFICATION WalkSpec
CONSTANTS
    MaxRecords = 24
    Sizes = {0, 1, 2}
    Asked = {0, 1, 4, 23, 30}
INVARIANTS EveryRowOnce NeighboursLinked
PROPERTIES RedirectsOnce
