SPECIFICATION Spec
CONSTANTS
    injection = injection
    pii = pii
    Policies <- MCPolicies
    Matches <- MCMatches
    Actions <- MCActions
INVARIANTS BlockedInputStays PaidOnce OneTrueEvent BypassesAreEvents
CHECK_DEADLOCK FALSE
