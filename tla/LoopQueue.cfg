CONSTANTS
    Depth = 4
    Value = {v1, v2}
SPECIFICATION Spec
INVARIANTS TypeOK SizeIsUsage WalkMeetsContents EntriesAreValid
PROPERTIES TagsAreStable ImplementsBoundedFifo
