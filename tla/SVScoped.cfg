SPECIFICATION Spec
CONSTANTS
    Scopes <- MCScopes
    Names <- MCNames
    MaxDepth = 3
INVARIANTS FollowsNames JoinResolves
PROPERTIES Nested
CHECK_DEADLOCK FALSE
