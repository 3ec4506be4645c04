SPECIFICATION Spec
CONSTANTS
    injection = injection
    pii = pii
    Policies <- MCPolicies
    Matches <- MCMatches
    Actions <- MCActions
INVARIANTS BlockedAnswerStays
CHECK_DEADLOCK FALSE
