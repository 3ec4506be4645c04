SPECIFICATION Spec
CONSTANTS
    injection = injection
    pii = pii
    Policies <- MCPolicies
    Matches <- MCMatches
    Actions <- MCActions
INVARIANTS BlockedStays Traced
CHECK_DEADLOCK FALSE
