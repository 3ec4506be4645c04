SPECIFICATION Spec
CONSTANTS
    MaxLen = 6
    Texts <- MCTexts
    Policies <- MCPolicies
    Word <- MCWord
    Refined = {"pii"}
    Keyword = "k"
    Reach = 1
    Confusables = {"V"}
    Fold <- MCFold
    Chunk = 4
    Overlap = 2
    Caps = {1, 2}
    MaxChanges = 2
    ChangedTexts <- MCChangedTexts
INVARIANTS NothingMissed CountedOnce NothingLegible OneFreshInstance
CHECK_DEADLOCK FALSE
